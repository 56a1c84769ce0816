----------------------- MODULE EnrollmentSafetyProofs -----------------------
(* What never goes wrong with an enrollment, along four inductive            *)
(* invariants.  HoldsInv: that holds are counted, that ended sequences stay  *)
(* ended and that nothing is submitted while a reply is pending, in          *)
(* campaigns whose follow-ups the operator approves.  ScheduleInv: that no   *)
(* step that was sent is due again, and that a worker sends what comes next, *)
(* in every campaign.  ReplyInv, on top of both: that who answered for good  *)
(* is not written to again.  KeptInv, on top of that: that the lifecycle     *)
(* implements OutreachSequence.                                              *)
EXTENDS EnrollmentLifecycleProofs

-----------------------------------------------------------------------------
(* What the writes to a row do to its count of holds. *)

\* The count is n; an ended sequence no longer counts, and none completes
\* while it is held.
Counted(e, n) ==
    /\ e.state \notin Ended => e.holds = n
    /\ e.state = "completed" => n = 0

\* A write that neither takes nor gives up a hold, and revives nothing.
Keeps(e, f) ==
    /\ f.automatic = e.automatic
    /\ e.state \in Ended => f.state \in Ended
    /\ f.state \notin Ended => f.holds = e.holds
    /\ f.state = "completed" => e.state = "completed" \/ e.holds = 0

\* Such a write keeps the count.
LEMMA KeepsCounts ==
    ASSUME NEW e, NEW f, NEW n, Counted(e, n), Keeps(e, f) PROVE Counted(f, n)
BY DEF Counted, Keeps, Ended

\* The states that are not ended.
LEMMA NotEnded ==
    /\ \A x \in Live : x \notin Terminal /\ x \notin Ended /\ x # "completed"
    /\ Ended \subseteq Terminal /\ "completed" \in Terminal /\ "completed" \notin Ended
    /\ {"manual_review", "waiting", "ready_for_review", "approved"} \subseteq Live
BY DEF Live, Terminal, Ended

\* Columns the schedule and the claim do not touch.
LEMMA UnscheduledColumns ==
    ASSUME NEW e \in Rows
    PROVE  LET f == Unclaimed(Unscheduled(e)) IN
           /\ f \in Rows /\ f.state = e.state /\ f.holds = e.holds
           /\ f.automatic = e.automatic /\ f.prev = e.prev
<1>1. [e EXCEPT !.due = FALSE, !.token = 0] \in Rows
  BY DEF Rows
<1> DEFINE g == Unscheduled(e)
<1>2. g \in Rows /\ g.state = e.state /\ g.holds = e.holds
      /\ g.automatic = e.automatic /\ g.prev = e.prev
  BY <1>1 DEF Unscheduled, Rows
<1> HIDE DEF g
<1>3. LET f == Unclaimed(g) IN
      /\ f \in Rows /\ f.state = g.state /\ f.holds = g.holds
      /\ f.automatic = g.automatic /\ f.prev = g.prev
  BY <1>2, Unclaiming DEF Unclaimed, Rows
<1> QED BY <1>2, <1>3 DEF g

\* Columns the schedule does not touch.
LEMMA ScheduleColumns ==
    ASSUME NEW e \in Rows
    PROVE  LET f == Unscheduled(e) IN
           /\ f \in Rows /\ f.state = e.state /\ f.holds = e.holds
           /\ f.automatic = e.automatic
BY Unscheduling DEF Unscheduled, Rows

\* Setting the state of a row to one that is neither ended nor completed.
LEMMA StateKeeps ==
    ASSUME NEW e \in Rows, NEW x \in Live, e.state \notin Ended
    PROVE  Keeps(e, [e EXCEPT !.state = x])
BY NotEnded DEF Keeps, Rows

\* Keeping composes.
LEMMA KeepsThen ==
    ASSUME NEW e, NEW f, NEW g, Keeps(e, f), Keeps(f, g), f.state = e.state, f.holds = e.holds
    PROVE  Keeps(e, g)
BY DEF Keeps

\* Clearing schedule and claim keeps.
LEMMA UnscheduledKeeps ==
    ASSUME NEW e \in Rows
    PROVE  /\ Keeps(e, Unclaimed(e)) /\ Keeps(e, Unscheduled(e))
           /\ Keeps(e, Unclaimed(Unscheduled(e)))
<1>1. Keeps(e, Unclaimed(Unscheduled(e)))
  BY UnscheduledColumns DEF Keeps
<1>2. Keeps(e, Unclaimed(e))
  BY DEF Unclaimed, Keeps, Rows
<1>3. Keeps(e, Unscheduled(e))
  BY DEF Unscheduled, Keeps, Rows
<1> QED BY <1>1, <1>2, <1>3

\* Ending a sequence ends it.
LEMMA EndedByKeeps ==
    ASSUME NEW e \in Rows, NEW state \in Ended, NEW why
    PROVE  /\ Keeps(e, EndedBy(e, state, why))
           /\ EndedBy(e, state, why).state \in Ended
<1> DEFINE f == Unclaimed(Unscheduled(e))
<1>1. f \in Rows /\ f.automatic = e.automatic
  BY UnscheduledColumns
<1> HIDE DEF f
<1> DEFINE g == [f EXCEPT !.state = state, !.stop = why, !.holds = 0, !.prev = NoSnapshot]
<1>2. g.state = state /\ g.automatic = e.automatic
  BY <1>1 DEF Rows
<1>3. EndedBy(e, state, why) = g
  BY DEF EndedBy, f
<1> HIDE DEF g
<1> QED BY <1>2, <1>3, NotEnded DEF Keeps

\* A row of a sequence that is not ended keeps its holds when it is re-addressed.
LEMMA ReaddressedKeeps ==
    ASSUME NEW e \in Rows, e.state \notin Ended, NEW step
    PROVE  Keeps(e, Readdressed(e, step))
<1> DEFINE f == Unclaimed(Unscheduled(e))
           p == IF e.holds > 0 THEN ManualSnapshot ELSE NoSnapshot
<1>1. f \in Rows /\ f.automatic = e.automatic /\ f.holds = e.holds
  BY UnscheduledColumns
<1> HIDE DEF f, p
<1> DEFINE g == [f EXCEPT !.state = "manual_review", !.step = step, !.stop = "none",
                          !.lastReply = "other", !.prev = p]
<1>2. g.state = "manual_review" /\ g.automatic = e.automatic /\ g.holds = e.holds
  BY <1>1 DEF Rows
<1>3. Readdressed(e, step) = g
  BY DEF Readdressed, f, p
<1> HIDE DEF g
<1> QED BY <1>2, <1>3, NotEnded DEF Keeps

\* Whatever the ladder decides, an ended sequence is left as it is and holds
\* stay counted.
LEMMA VerdictKeeps ==
    ASSUME NEW e \in Rows, NEW step, NEW dead, NEW outstanding,
           NEW verdict \in LadderVerdicts(e, step, dead, outstanding)
    PROVE  Keeps(e, verdict.row)
<1>1. Keeps(e, e)
  BY DEF Keeps
<1>2. CASE verdict.row = e
  BY <1>1, <1>2
<1>3. CASE verdict.row = Readdressed(e, step) /\ e.state \notin Ended
  BY <1>3, ReaddressedKeeps
<1> QED BY <1>2, <1>3 DEF LadderVerdicts

\* A confirmation takes and releases no hold.
LEMMA ConfirmedKeeps ==
    ASSUME NEW e \in Rows, NEW step \in Nat, NEW token \in Nat
    PROVE  Keeps(e, Confirmed(e, step, token))
<1> DEFINE next == Progressed(e, step, token)
<1>1. CASE e.state \in Terminal
  BY <1>1, UnscheduledKeeps DEF Confirmed
<1>2. CASE e.state \notin Terminal
  <2>1. /\ next \in Rows /\ next.automatic = e.automatic /\ next.holds = e.holds
        /\ next.state \in {"waiting", "completed"}
    <3>1. CASE step < LastStep
      <4> DEFINE g == [e EXCEPT !.state = "waiting", !.step = step + 1, !.due = TRUE,
                                !.token = token, !.stop = "none"]
      <4>1. g \in Rows /\ g.automatic = e.automatic /\ g.holds = e.holds /\ g.state = "waiting"
        <5>1. step + 1 \in Nat
          OBVIOUS
        <5>2. [e EXCEPT !.state = "waiting"] \in Rows
          BY NamedStates, SettingState
        <5> QED BY <5>1, <5>2, NamedStates DEF Rows
      <4>2. next = g
        BY <3>1 DEF Progressed
      <4> HIDE DEF g, next
      <4> QED BY <4>1, <4>2
    <3>2. CASE ~(step < LastStep)
      <4> DEFINE f == Unscheduled(e)
      <4>1. f \in Rows /\ f.automatic = e.automatic /\ f.holds = e.holds
        BY Unscheduling DEF Unscheduled, Rows
      <4> HIDE DEF f
      <4> DEFINE g == [f EXCEPT !.state = "completed", !.step = step, !.stop = "sequence_complete"]
      <4>2. g \in Rows /\ g.automatic = e.automatic /\ g.holds = e.holds /\ g.state = "completed"
        BY <4>1, NamedStates DEF Rows
      <4>3. next = g
        BY <3>2 DEF Progressed, f
      <4> HIDE DEF g, next
      <4> QED BY <4>2, <4>3
    <3> QED BY <3>1, <3>2
  <2>2. CASE e.holds = 0
    <3>1. Confirmed(e, step, token) = Unclaimed(next)
      BY <1>2, <2>2 DEF Confirmed
    <3> HIDE DEF next
    <3>2. Unclaimed(next).state = next.state /\ Unclaimed(next).holds = next.holds
          /\ Unclaimed(next).automatic = next.automatic
      BY <2>1 DEF Unclaimed, Rows
    <3> QED BY <1>2, <2>1, <2>2, <3>1, <3>2, NotEnded DEF Keeps
  <2>3. CASE e.holds # 0
    <3> DEFINE f == Unscheduled(next)
               p == IF f.prev.state = "manual_review" THEN f.prev ELSE SnapshotOf(next)
               g == [f EXCEPT !.state = "manual_review", !.stop = "none", !.prev = p]
    <3>1. Confirmed(e, step, token) = Unclaimed(g)
      BY <1>2, <2>3 DEF Confirmed
    <3>2. f \in Rows /\ f.automatic = e.automatic /\ f.holds = e.holds
      <4> HIDE DEF next
      <4> QED BY <2>1, ScheduleColumns
    <3>3. p \in Snapshots
      BY <2>1, <3>2, RowFields, SnapshotsTyped
    <3> HIDE DEF f, p
    <3>4. g \in Rows /\ g.automatic = e.automatic /\ g.holds = e.holds /\ g.state = "manual_review"
      BY <3>2, <3>3, NamedStates DEF Rows, Snapshots
    <3> HIDE DEF g
    <3>5. Unclaimed(g).state = g.state /\ Unclaimed(g).holds = g.holds
          /\ Unclaimed(g).automatic = g.automatic
      BY <3>4 DEF Unclaimed, Rows
    <3> QED BY <1>2, <3>1, <3>4, <3>5, NotEnded DEF Keeps
  <2> QED BY <2>2, <2>3
<1> QED BY <1>1, <1>2

\* A refusal takes and releases no hold.
LEMMA RejectedKeeps ==
    ASSUME NEW e \in Rows, NEW hardBounce \in BOOLEAN
    PROVE  Keeps(e, Rejected(e, hardBounce))
<1> DEFINE f == Unclaimed(Unscheduled(e))
           x == IF hardBounce THEN "bounced" ELSE "manual_review"
           y == IF hardBounce THEN "hard_bounce" ELSE f.stop
<1>1. f \in Rows /\ f.automatic = e.automatic /\ f.holds = e.holds /\ f.state = e.state
  BY UnscheduledColumns
<1>2. x \in Ended \cup {"manual_review"}
  BY DEF Ended
<1> HIDE DEF f, x
<1> DEFINE g == [f EXCEPT !.state = x, !.stop = y]
<1>3. g.state = x /\ g.automatic = e.automatic /\ g.holds = e.holds
  BY <1>1 DEF Rows
<1>4. Rejected(e, hardBounce) = IF e.state \in Terminal THEN e ELSE g
  BY DEF Rejected, f, x
<1> HIDE DEF g
<1> QED BY <1>2, <1>3, <1>4, NotEnded DEF Keeps

\* A hold taken is one more.
LEMMA HoldCounts ==
    ASSUME NEW e \in Rows, NEW n \in Nat, e.state \notin Terminal
    PROVE  /\ Counted(e, n) => Counted(Hold(e), n + 1)
           /\ Hold(e).automatic = e.automatic
<1> DEFINE f == Unscheduled(e)
           p == IF e.holds = 0 THEN SnapshotOf(e) ELSE e.prev
<1>1. f \in Rows /\ f.holds = e.holds /\ f.prev = e.prev /\ f.automatic = e.automatic
  BY ScheduleColumns DEF Unscheduled, Rows
<1> DEFINE g == [f EXCEPT !.state = "manual_review", !.holds = e.holds + 1, !.prev = p]
<1>2. Hold(e) = g
  BY <1>1 DEF Hold
<1>3. Counted(e, n) => e.holds = n
  BY NotEnded DEF Counted
<1> HIDE DEF f, p
<1>4. g.holds = e.holds + 1 /\ g.state = "manual_review" /\ g.automatic = e.automatic
  BY <1>1, <1>3 DEF Rows
<1> HIDE DEF g
<1> QED BY <1>2, <1>4, NotEnded DEF Counted

\* Noting what a reply said keeps.
LEMMA ClassifiedKeeps ==
    ASSUME NEW e \in Rows, NEW category
    PROVE  LET f == Classified(e, category) IN
           /\ f \in Rows /\ Keeps(e, f) /\ f.state = e.state
           /\ f.holds = e.holds /\ f.automatic = e.automatic
<1> DEFINE x == IF category = "terminal" THEN "terminal" ELSE "other"
           f == [e EXCEPT !.lastReply = x]
<1>1. Classified(e, category) = f
  BY DEF Classified
<1> HIDE DEF x
<1>2. f.state = e.state /\ f.holds = e.holds /\ f.automatic = e.automatic
  BY DEF Rows
<1> HIDE DEF f
<1> QED BY <1>1, <1>2, ClassifiedTyped DEF Keeps

\* A hold given up is one fewer, unless the sequence ended.
LEMMA AnsweredCounts ==
    ASSUME NEW e \in Rows, NEW category, NEW n \in Nat, n > 0
    PROVE  /\ Counted(e, n) => Counted(Answered(e, category, TRUE), n - 1)
           /\ Answered(e, category, TRUE).automatic = e.automatic
           /\ e.state \in Ended => Answered(e, category, TRUE).state \in Ended
<1> DEFINE classified == Classified(e, category)
           parked == IF ClearsSchedule(category) THEN Unscheduled(classified) ELSE classified
           x == IF OutcomeState(category) = "none" THEN parked.state ELSE OutcomeState(category)
           moved == [parked EXCEPT !.state = x]
           ended == EndedBy(classified, OutcomeState(category), StopReason(category))
<1>1. classified \in Rows /\ Keeps(e, classified) /\ classified.state = e.state
      /\ classified.holds = e.holds /\ classified.automatic = e.automatic
  BY ClassifiedKeeps
<1>2. EndsSequence(category) => ended.state \in Ended /\ ended.automatic = e.automatic
  BY <1>1, OutcomeStates, EndedByKeeps DEF Keeps
<1>3. ASSUME ~EndsSequence(category), e.state \notin Terminal
      PROVE  /\ moved \in Rows /\ moved.state \in Live /\ moved.holds = e.holds
             /\ moved.automatic = e.automatic
  <2>1. parked \in Rows /\ parked.state = e.state /\ parked.holds = e.holds
        /\ parked.automatic = e.automatic
    <3> HIDE DEF classified
    <3> QED BY <1>1, ScheduleColumns
  <2> HIDE DEF parked
  <2>2. x \in Live
    BY <1>3, <2>1, OutcomeStates, NotEnded, RowFields DEF Live
  <2> HIDE DEF x
  <2> QED BY <2>1, <2>2 DEF Rows
<1>4. Answered(e, category, TRUE) =
        CASE e.state \in Terminal -> classified
          [] e.state \notin Terminal /\ EndsSequence(category) -> ended
          [] e.state \notin Terminal /\ MayRestore(e, category, TRUE) -> Restored(classified)
          [] OTHER -> Released(moved, category)
  BY DEF Answered
<1>5. Counted(e, n) /\ e.state \in Terminal => e.state \in Ended
  BY DEF Counted, Terminal
<1>6. MayRestore(e, category, TRUE) => ~EndsSequence(category) /\ Fewer(e.holds) = 0
  BY OutcomeStates DEF MayRestore, Ended
<1>7. ASSUME ~EndsSequence(category), e.state \notin Terminal
      PROVE  LET f == Released(moved, category) IN
             f.state = moved.state /\ f.holds = Fewer(e.holds) /\ f.automatic = e.automatic
  <2> HIDE DEF moved
  <2> DEFINE p == CASE Fewer(moved.holds) = 0 -> NoSnapshot
                    [] OutcomeState(category) = "manual_review" -> ManualSnapshot
                    [] OTHER -> moved.prev
  <2>1. Released(moved, category) = [moved EXCEPT !.holds = Fewer(moved.holds), !.prev = p]
    BY DEF Released
  <2> HIDE DEF p
  <2> QED BY <1>3, <1>7, <2>1 DEF Rows
<1>8. Restored(classified).holds = 0 /\ Restored(classified).automatic = e.automatic
  <2> HIDE DEF classified
  <2> QED BY <1>1 DEF Restored, Rows
<1> HIDE DEF moved, classified, ended
<1>9. CASE e.state \in Terminal
  BY <1>1, <1>4, <1>5, <1>9, NotEnded DEF Counted
<1>10. CASE e.state \notin Terminal /\ EndsSequence(category)
  BY <1>2, <1>4, <1>6, <1>10, NotEnded DEF Counted
<1>11. CASE e.state \notin Terminal /\ MayRestore(e, category, TRUE)
  <2>1. Counted(e, n) => e.holds = n /\ Fewer(e.holds) = n - 1
    BY <1>11, NotEnded DEF Counted, Fewer
  <2> QED BY <1>4, <1>6, <1>8, <1>11, <2>1, NotEnded DEF Counted
<1>12. CASE e.state \notin Terminal /\ ~EndsSequence(category)
            /\ ~MayRestore(e, category, TRUE)
  <2>1. Counted(e, n) => e.holds = n /\ Fewer(e.holds) = n - 1
    BY <1>12, NotEnded DEF Counted, Fewer
  <2> QED BY <1>3, <1>4, <1>7, <1>12, <2>1, NotEnded DEF Counted
<1> QED BY <1>9, <1>10, <1>11, <1>12

\* Without a hold nothing is given up.
LEMMA AnsweredKeeps ==
    ASSUME NEW e \in Rows, NEW category PROVE Keeps(e, Answered(e, category, FALSE))
<1> DEFINE classified == Classified(e, category)
           parked == IF ClearsSchedule(category) THEN Unscheduled(classified) ELSE classified
           x == IF OutcomeState(category) = "none" THEN parked.state ELSE OutcomeState(category)
           moved == [parked EXCEPT !.state = x]
           ended == EndedBy(classified, OutcomeState(category), StopReason(category))
<1>1. classified \in Rows /\ Keeps(e, classified) /\ classified.state = e.state
      /\ classified.holds = e.holds /\ classified.automatic = e.automatic
  BY ClassifiedKeeps
<1>2. EndsSequence(category) => ended.state \in Ended /\ ended.automatic = e.automatic
  BY <1>1, OutcomeStates, EndedByKeeps DEF Keeps
<1>3. ASSUME ~EndsSequence(category), e.state \notin Terminal
      PROVE  /\ moved \in Rows /\ moved.state \in Live /\ moved.holds = e.holds
             /\ moved.automatic = e.automatic
  <2>1. parked \in Rows /\ parked.state = e.state /\ parked.holds = e.holds
        /\ parked.automatic = e.automatic
    <3> HIDE DEF classified
    <3> QED BY <1>1, ScheduleColumns
  <2> HIDE DEF parked
  <2>2. x \in Live
    BY <1>3, <2>1, OutcomeStates, NotEnded, RowFields DEF Live
  <2> HIDE DEF x
  <2> QED BY <2>1, <2>2 DEF Rows
<1>4. Answered(e, category, FALSE) =
        CASE e.state \in Terminal -> classified
          [] e.state \notin Terminal /\ EndsSequence(category) -> ended
          [] OTHER -> moved
  BY DEF Answered, MayRestore
<1> HIDE DEF moved, classified, ended
<1> QED BY <1>1, <1>2, <1>3, <1>4, NotEnded DEF Keeps

-----------------------------------------------------------------------------
(* Who releases which hold. *)

\* A record whose claim is some call's is in progress, and the call, unless it
\* died, is at work on it and knows of its hold.
Owners ==
    \A i \in Ingesters, r \in Records : record[r].owner = i =>
        /\ record[r].status = "processing"
        /\ \/ ingester[i] = "down"
           \/ /\ ingester[i] \in {"classify", "finish"}
              /\ job[i].record = r /\ job[i].held = record[r].hold

\* Nothing but an ingestion and the ageing of claims touches the records.
LEMMA InboundAlone ==
    ASSUME Next, ~(\E i \in Ingesters : Ingest(i)), ~(\E r \in Records : RecordClaimAges(r))
    PROVE  UNCHANGED inboundVars
BY DEF Next, FollowUp, FindDue, InvocationRefused, InvocationBlocked, InvocationSuppressed,
       ClaimFollowUp, GenerateFollowUp, GenerationFails, ReleaseFollowUpClaim,
       ReviewFollowUp, ApproveExisting, SendFollowUp, SendFollowUpRefused,
       RescheduleFollowUp, MarkFollowUpHandedBack, WorkerDies, Send, Settle, OperatorSends,
       SettleSent, SettleRefused, SettleUnconfirmed, ConfirmLate, RefuseLate, ReleaseUncertain,
       ConfirmDead,
       LeaseExpires, Operator, Generate, Approve, RejectProposal, Stop, inboundVars

\* A staging transaction makes its call the owner.
LEMMA StageOwners ==
    ASSUME TypeOK, Owners, NEW i \in Ingesters, NEW r \in Records, NEW row \in RecordRows,
           StageRow(i, r, row)
    PROVE  Owners'
<1> DEFINE takesHold == ~row.hold /\ enrollment.state \notin Terminal
           held == row.hold \/ takesHold
           staged == [row EXCEPT !.status = "processing", !.owner = i,
                                 !.fresh = TRUE, !.hold = held]
           read == [record |-> r, held |-> held, category |-> "none"]
<1>1. /\ record' = [record EXCEPT ![r] = staged]
      /\ ingester' = [ingester EXCEPT ![i] = "classify"]
      /\ job' = [job EXCEPT ![i] = read]
      /\ ingester[i] = "idle"
  BY DEF StageRow
<1>2. staged.status = "processing" /\ staged.owner = i /\ staged.hold = held
      /\ read.record = r /\ read.held = held
  BY DEF RecordRows
<1> HIDE DEF staged, read, held
<1> SUFFICES ASSUME NEW k \in Ingesters, NEW q \in Records, record'[q].owner = k
             PROVE  /\ record'[q].status = "processing"
                    /\ \/ ingester'[k] = "down"
                       \/ /\ ingester'[k] \in {"classify", "finish"}
                          /\ job'[k].record = q /\ job'[k].held = record'[q].hold
  BY DEF Owners
<1>3. CASE q = r
  BY <1>1, <1>2, <1>3 DEF TypeOK
<1>4. CASE q # r
  <2>1. record'[q] = record[q] /\ k # i
    BY <1>1, <1>4 DEF TypeOK, Owners
  <2> QED BY <1>1, <2>1 DEF TypeOK, Owners
<1> QED BY <1>3, <1>4

\* Every step keeps the owners.
LEMMA NextOwners == TypeOK /\ Owners /\ [Next]_vars => Owners'
<1> SUFFICES ASSUME TypeOK, Owners, [Next]_vars PROVE Owners'
  OBVIOUS
<1>1. CASE UNCHANGED inboundVars
  BY <1>1 DEF inboundVars, Owners
<1>2. ASSUME NEW i \in Ingesters, NEW r \in Records,
             Receive(i, r) \/ Redeliver(i, r) \/ Sweep(i, r)
      PROVE  Owners'
  <2>1. \E row \in RecordRows : StageRow(i, r, row)
    BY <1>2 DEF Receive, Redeliver, Sweep, TypeOK, NoRecord, RecordRows
  <2> QED BY <2>1, StageOwners
<1>3. ASSUME NEW i \in Ingesters, Classify(i) PROVE Owners'
  <2>1. PICK category : /\ job' = [job EXCEPT ![i].category = category]
                        /\ ingester' = [ingester EXCEPT ![i] = "finish"]
                        /\ ingester[i] = "classify" /\ record' = record
    BY <1>3 DEF Classify
  <2>2. \A k \in Ingesters : job'[k].record = job[k].record /\ job'[k].held = job[k].held
    BY <2>1 DEF TypeOK, Jobs
  <2> QED BY <2>1, <2>2 DEF Owners, TypeOK
<1>4. ASSUME NEW i \in Ingesters, ClassifierFails(i) \/ Finish(i) PROVE Owners'
  <2> DEFINE r == job[i].record
  <2>1. /\ ingester[i] \in {"classify", "finish"} /\ r \in Records
        /\ EndCall(i, "idle")
        /\ \A q \in Records \ {r} : record'[q] = record[q]
        /\ record'[r].owner # i /\ (record'[r].owner = Nobody \/ record'[r] = record[r])
    <3>1. r \in Records /\ record[r] \in RecordRows /\ Nobody # i
      BY <1>4, LifecycleAssumption DEF ClassifierFails, Finish, TypeOK
    <3>2. CASE ClassifierFails(i)
      <4> DEFINE failed == [record[r] EXCEPT !.status = "failed", !.owner = Nobody, !.fresh = FALSE]
      <4>1. failed.owner = Nobody
        BY <3>1 DEF RecordRows
      <4>2. /\ record' = [record EXCEPT ![r] = IF record[r].owner = i THEN failed ELSE record[r]]
            /\ EndCall(i, "idle") /\ ingester[i] = "classify"
        BY <3>2 DEF ClassifierFails
      <4> HIDE DEF failed, r
      <4> QED BY <3>1, <4>1, <4>2 DEF TypeOK
    <3>3. CASE Finish(i)
      <4> DEFINE done == [record[r] EXCEPT !.status = "processed", !.owner = Nobody,
                                           !.fresh = FALSE, !.category = job[i].category]
      <4>1. done.owner = Nobody
        BY <3>1 DEF RecordRows
      <4>2. /\ record' = [record EXCEPT ![r] = done]
            /\ EndCall(i, "idle") /\ ingester[i] = "finish"
        BY <3>3 DEF Finish
      <4> HIDE DEF done, r
      <4> QED BY <3>1, <4>1, <4>2 DEF TypeOK
    <3> QED BY <1>4, <3>2, <3>3
  <2> SUFFICES ASSUME NEW k \in Ingesters, NEW q \in Records, record'[q].owner = k
               PROVE  /\ record'[q].status = "processing"
                      /\ \/ ingester'[k] = "down"
                         \/ /\ ingester'[k] \in {"classify", "finish"}
                            /\ job'[k].record = q /\ job'[k].held = record'[q].hold
    BY DEF Owners
  <2>2. record'[q] = record[q] /\ k # i
    BY <2>1, LifecycleAssumption DEF Owners
  <2> QED BY <2>1, <2>2 DEF Owners, EndCall, TypeOK
<1>5. ASSUME NEW i \in Ingesters, FinishFenced(i) PROVE Owners'
  <2>1. \A q \in Records : record[q].owner # i
    BY <1>5 DEF FinishFenced, OwnsRecord, Owners
  <2> QED BY <1>5, <2>1 DEF FinishFenced, EndCall, Owners, TypeOK
<1>6. ASSUME NEW i \in Ingesters, IngesterDies(i) PROVE Owners'
  BY <1>6 DEF IngesterDies, EndCall, Owners, TypeOK
<1>7. ASSUME NEW r \in Records, RecordClaimAges(r) PROVE Owners'
  <2>1. \A q \in Records : /\ record'[q].owner = record[q].owner
                           /\ record'[q].status = record[q].status
                           /\ record'[q].hold = record[q].hold
    BY <1>7 DEF RecordClaimAges, TypeOK, RecordRows
  <2> QED BY <1>7, <2>1 DEF RecordClaimAges, Owners
<1>8. CASE UNCHANGED vars
  BY <1>1, <1>8 DEF vars, inboundVars
<1> QED BY <1>1, <1>2, <1>3, <1>4, <1>5, <1>6, <1>7, <1>8, InboundAlone DEF Ingest, IngestStep

-----------------------------------------------------------------------------
(* The inductive invariant. *)

\* What was never received holds nothing.
Unreceived == \A r \in Records : record[r].status = "absent" => ~record[r].hold

\* In a campaign whose follow-ups the operator approves, the holds are counted
\* and no worker is about to approve a message that it found approved.
ManualHolds ==
    ~enrollment.automatic =>
        /\ Counted(enrollment, Cardinality(Holding))
        /\ \A w \in Workers : worker[w] # "approve"

\* The inductive invariant: the count needs to know who may give up which hold,
\* and that nobody revives an ended sequence.
HoldsInv == TypeOK /\ Owners /\ Unreceived /\ ManualHolds

\* What holds is finite.
LEMMA HoldingFinite == IsFiniteSet(Holding) /\ Cardinality(Holding) \in Nat
BY LifecycleAssumption, FS_Subset, FS_CardinalityType DEF Holding

\* Every step keeps what was never received from holding.
LEMMA NextUnreceived == TypeOK /\ Unreceived /\ [Next]_vars => Unreceived'
<1> SUFFICES ASSUME TypeOK, Unreceived, [Next]_vars PROVE Unreceived'
  OBVIOUS
<1>1. CASE UNCHANGED record
  BY <1>1 DEF Unreceived
<1>2. ASSUME NEW i \in Ingesters, NEW r \in Records, NEW row \in RecordRows, StageRow(i, r, row)
      PROVE  Unreceived'
  BY <1>2 DEF StageRow, Unreceived, TypeOK, RecordRows
<1>3. ASSUME NEW i \in Ingesters, NEW r \in Records,
             Receive(i, r) \/ Redeliver(i, r) \/ Sweep(i, r)
      PROVE  Unreceived'
  <2>1. \E row \in RecordRows : StageRow(i, r, row)
    BY <1>3 DEF Receive, Redeliver, Sweep, TypeOK, NoRecord, RecordRows
  <2> QED BY <1>2, <2>1
<1>4. ASSUME NEW i \in Ingesters, ClassifierFails(i) PROVE Unreceived'
  BY <1>4 DEF ClassifierFails, Unreceived, TypeOK, RecordRows
<1>5. ASSUME NEW i \in Ingesters, Finish(i) PROVE Unreceived'
  BY <1>5 DEF Finish, Unreceived, TypeOK, RecordRows
<1>6. ASSUME NEW r \in Records, RecordClaimAges(r) PROVE Unreceived'
  BY <1>6 DEF RecordClaimAges, Unreceived, TypeOK, RecordRows
<1>7. ASSUME NEW i \in Ingesters, Classify(i) \/ FinishFenced(i) \/ IngesterDies(i)
      PROVE  Unreceived'
  BY <1>1, <1>7 DEF Classify, FinishFenced, IngesterDies
<1> QED BY <1>1, <1>3, <1>4, <1>5, <1>6, <1>7, InboundAlone
        DEF Ingest, IngestStep, vars, inboundVars

\* What a worker writes keeps the holds, except when it approves a message it
\* found approved.
LEMMA WorkerKeeps ==
    ASSUME TypeOK, NEW w \in Workers, FollowUp(w)
    PROVE  \/ Keeps(enrollment, enrollment')
           \/ /\ worker[w] = "approve"
              /\ enrollment'.automatic = enrollment.automatic
<1> DEFINE e == enrollment
<1>1. e \in Rows
  BY DEF TypeOK
<1>2. \A x \in Live : e.state \notin Ended => Keeps(e, [e EXCEPT !.state = x])
  BY <1>1, StateKeeps
<1>3. CASE UNCHANGED enrollment
  BY <1>3 DEF Keeps
<1>4. CASE InvocationSuppressed(w)
  BY <1>1, <1>4, EndedByKeeps DEF InvocationSuppressed, Ended
<1>5. CASE ClaimFollowUp(w)
  <2> DEFINE x == IF e.state = "waiting" THEN "ready_for_review" ELSE e.state
             f == [e EXCEPT !.state = x, !.claim = w, !.lease = TRUE]
  <2>1. x \in {"ready_for_review", "approved"} /\ e.state \notin Ended
    BY <1>5 DEF ClaimFollowUp, InvocationValid, Ended
  <2>2. e' = f
    BY <1>5 DEF ClaimFollowUp
  <2> HIDE DEF x
  <2>3. f.state = x /\ f.holds = e.holds /\ f.automatic = e.automatic
    BY <1>1 DEF Rows
  <2> HIDE DEF f
  <2> QED BY <2>1, <2>2, <2>3, NotEnded DEF Keeps
<1>6. CASE GenerateFollowUp(w)
  <2>1. e.state \notin Ended
    BY <1>6, NotEnded DEF GenerateFollowUp, MayGenerate
  <2>2. e' = e \/ e' = [e EXCEPT !.state = "ready_for_review"]
    BY <1>6 DEF GenerateFollowUp, AwaitReview
  <2> QED BY <1>2, <1>3, <2>1, <2>2, NotEnded
<1>7. CASE ReleaseFollowUpClaim(w)
  BY <1>1, <1>3, <1>7, UnscheduledKeeps DEF ReleaseFollowUpClaim
<1>8. CASE ReviewFollowUp(w)
  BY <1>2, <1>3, <1>8, NotEnded DEF ReviewFollowUp, Reviewable, Ended
<1>9. CASE ApproveExisting(w)
  BY <1>1, <1>9 DEF ApproveExisting, Rows
<1>10. CASE RescheduleFollowUp(w)
  <2> DEFINE f == Unclaimed(e)
             g == [f EXCEPT !.state = "waiting", !.due = TRUE]
  <2>1. f \in Rows /\ f.holds = e.holds /\ f.automatic = e.automatic
    BY <1>1, Unclaiming DEF Unclaimed, Rows
  <2>2. e' = e \/ (e' = g /\ e.state \notin Terminal)
    BY <1>10 DEF RescheduleFollowUp
  <2> HIDE DEF f
  <2>3. g.state = "waiting" /\ g.holds = e.holds /\ g.automatic = e.automatic
    BY <2>1 DEF Rows
  <2> HIDE DEF g
  <2> QED BY <1>3, <2>2, <2>3, NotEnded DEF Keeps
<1>11. CASE MarkFollowUpHandedBack(w)
  <2> DEFINE f == Unclaimed(Unscheduled(e))
             x == IF worker[w] = "handBack" THEN "manual_review" ELSE "ready_for_review"
             g == [f EXCEPT !.state = x]
  <2>1. f \in Rows /\ f.holds = e.holds /\ f.automatic = e.automatic
    BY <1>1, UnscheduledColumns
  <2>2. e' = e \/ (e' = g /\ e.state \notin Terminal)
    BY <1>11 DEF MarkFollowUpHandedBack
  <2>3. x \in Live
    BY NotEnded
  <2> HIDE DEF f, x
  <2>4. g.state = x /\ g.holds = e.holds /\ g.automatic = e.automatic
    BY <2>1 DEF Rows
  <2> HIDE DEF g
  <2> QED BY <1>3, <2>2, <2>3, <2>4, NotEnded DEF Keeps
<1> QED
  <2>1. \/ FindDue(w) \/ InvocationRefused(w) \/ InvocationBlocked(w) \/ GenerationFails(w)
        \/ SendFollowUp(w) \/ SendFollowUpRefused(w) \/ WorkerDies(w)
        => UNCHANGED enrollment
    BY DEF FindDue, InvocationRefused, InvocationBlocked, GenerationFails, SendFollowUp, Submit,
           SendFollowUpRefused, WorkerDies
  <2>2. ApproveExisting(w) => worker[w] = "approve"
    BY DEF ApproveExisting
  <2> QED BY <1>3, <1>4, <1>5, <1>6, <1>7, <1>8, <1>9, <1>10, <1>11, <2>1, <2>2 DEF FollowUp

\* What a confirmation or a refusal writes keeps the holds.
LEMMA FinalizeKeeps ==
    ASSUME TypeOK, NEW s \in Steps, FinalizeSent(s) \/ MarkPermanentlyRejected(s)
    PROVE  Keeps(enrollment, enrollment')
<1>1. s \in Nat /\ minted + 1 \in Nat /\ enrollment \in Rows
  BY RowAssumption DEF Steps, TypeOK
<1>2. CASE FinalizeSent(s)
  BY <1>1, <1>2, ConfirmedKeeps DEF FinalizeSent
<1>3. CASE MarkPermanentlyRejected(s)
  <2>1. \/ enrollment' = Rejected(enrollment, FALSE)
        \/ \E verdict \in LadderVerdicts(enrollment, s, FALSE, OutstandingBeside(s)) :
             enrollment' = IF verdict.owns THEN verdict.row ELSE Rejected(enrollment, TRUE)
    BY <1>3 DEF MarkPermanentlyRejected
  <2> QED BY <1>1, <2>1, RejectedKeeps, VerdictKeeps
<1> QED BY <1>2, <1>3

\* So does everything else that is neither an ingestion nor a worker.
LEMMA OthersKeep ==
    ASSUME TypeOK,
           \/ \E s \in Steps : Send(s)
           \/ \E r \in Records : RecordClaimAges(r)
           \/ ConfirmDead \/ LeaseExpires \/ Operator
    PROVE  Keeps(enrollment, enrollment')
<1>1. enrollment \in Rows
  BY DEF TypeOK
<1>2. CASE UNCHANGED enrollment
  BY <1>2 DEF Keeps
<1>3. ASSUME NEW s \in Steps, Send(s) PROVE Keeps(enrollment, enrollment')
  <2>1. UNCHANGED enrollment \/ FinalizeSent(s) \/ MarkPermanentlyRejected(s)
    BY <1>3 DEF Send, Settle, OperatorSends, Submit, SettleSent, SettleRefused,
                SettleUnconfirmed, ConfirmLate, RefuseLate, ReleaseUncertain
  <2> QED BY <1>2, <2>1, FinalizeKeeps
<1>4. CASE ConfirmDead
  BY <1>1, <1>4, UnscheduledKeeps DEF ConfirmDead
<1>5. CASE LeaseExpires
  BY <1>1, <1>5 DEF LeaseExpires, Keeps, Rows
<1>6. CASE Operator
  <2>1. CASE Generate
    <3>1. enrollment.state \notin Ended
      BY <2>1, NotEnded DEF Generate, MayGenerate
    <3>2. UNCHANGED enrollment \/ enrollment' = [enrollment EXCEPT !.state = "ready_for_review"]
      BY <2>1 DEF Generate, AwaitReview
    <3> QED BY <1>1, <1>2, <3>1, <3>2, StateKeeps, NotEnded
  <2>2. ASSUME NEW s \in Steps, Approve(s) PROVE Keeps(enrollment, enrollment')
    BY <1>1, <2>2, StateKeeps, NotEnded DEF Approve, Reviewable, Ended
  <2>3. ASSUME NEW s \in Steps, RejectProposal(s) PROVE Keeps(enrollment, enrollment')
    BY <1>1, <2>3, EndedByKeeps DEF RejectProposal, Ended
  <2>4. CASE Stop
    BY <1>1, <2>4, EndedByKeeps DEF Stop, Ended
  <2> QED BY <1>6, <2>1, <2>2, <2>3, <2>4 DEF Operator
<1>7. (\E r \in Records : RecordClaimAges(r)) => UNCHANGED enrollment
  BY DEF RecordClaimAges
<1> QED BY <1>2, <1>3, <1>4, <1>5, <1>6, <1>7

-----------------------------------------------------------------------------

\* A staging transaction counts the hold it takes.
LEMMA StageCounts ==
    ASSUME TypeOK, NEW i \in Ingesters, NEW r \in Records, NEW row \in RecordRows,
           StageRow(i, r, row), row.hold <=> r \in Holding
    PROVE  /\ enrollment'.automatic = enrollment.automatic
           /\ enrollment.state \in Ended => enrollment'.state \in Ended
           /\ Counted(enrollment, Cardinality(Holding))
                  => Counted(enrollment', Cardinality(Holding)')
<1> DEFINE takesHold == ~row.hold /\ enrollment.state \notin Terminal
           held == row.hold \/ takesHold
           staged == [row EXCEPT !.status = "processing", !.owner = i,
                                 !.fresh = TRUE, !.hold = held]
<1>1. /\ record' = [record EXCEPT ![r] = staged]
      /\ enrollment' = IF takesHold THEN Hold(enrollment) ELSE enrollment
      /\ enrollment \in Rows
  BY DEF StageRow, TypeOK
<1>2. staged.status = "processing" /\ staged.hold = held
  BY DEF RecordRows
<1> HIDE DEF staged
<1>3. /\ record'[r] = staged
      /\ \A q \in Records \ {r} : record'[q] = record[q]
  BY <1>1 DEF TypeOK
<1>4. Holding' = IF held THEN Holding \cup {r} ELSE Holding \ {r}
  <2> HIDE DEF held
  <2> QED BY <1>2, <1>3 DEF Holding
<1>5. CASE takesHold
  <2>1. Holding' = Holding \cup {r} /\ r \notin Holding
    BY <1>4, <1>5
  <2>2. Cardinality(Holding)' = Cardinality(Holding) + 1
    BY <2>1, HoldingFinite, FS_AddElement
  <2> QED BY <1>1, <1>5, <2>2, HoldingFinite, HoldCounts, NotEnded
<1>6. CASE ~takesHold
  <2>1. Holding' = Holding
    BY <1>4, <1>6
  <2> QED BY <1>1, <1>6, <2>1
<1> QED BY <1>5, <1>6

\* The last transaction of an ingestion gives up the record's hold.
LEMMA FinishCounts ==
    ASSUME TypeOK, Owners, NEW i \in Ingesters, Finish(i)
    PROVE  /\ enrollment'.automatic = enrollment.automatic
           /\ enrollment.state \in Ended => enrollment'.state \in Ended
           /\ Counted(enrollment, Cardinality(Holding))
                  => Counted(enrollment', Cardinality(Holding)')
<1> DEFINE r == job[i].record
           held == job[i].held
           category == job[i].category
           done == [record[r] EXCEPT !.status = "processed", !.owner = Nobody,
                                     !.fresh = FALSE, !.category = category]
           n == Cardinality(Holding)
<1>1. /\ r \in Records /\ held \in BOOLEAN /\ record[r] \in RecordRows
      /\ enrollment \in Rows
  BY DEF Finish, TypeOK, Jobs
<1>2. /\ record' = [record EXCEPT ![r] = done]
      /\ Conclude(category, held) /\ record[r].owner = i
  BY DEF Finish, OwnsRecord
<1>3. record[r].status = "processing" /\ held = record[r].hold
  BY <1>1, <1>2 DEF Owners, Finish
<1>4. done.status = "processed"
  BY <1>1 DEF RecordRows
<1>5. r \in Holding <=> held
  BY <1>1, <1>3 DEF Holding
<1> HIDE DEF done
<1>6. Holding' = Holding \ {r}
  <2>1. record'[r] = done /\ \A q \in Records \ {r} : record'[q] = record[q]
    BY <1>1, <1>2 DEF TypeOK
  <2> QED BY <1>4, <2>1 DEF Holding
<1>7. n \in Nat
  BY HoldingFinite
<1>8. held => n > 0 /\ Cardinality(Holding)' = n - 1
  <2> SUFFICES ASSUME held PROVE n > 0 /\ Cardinality(Holding)' = n - 1
    OBVIOUS
  <2>1. r \in Holding
    BY <1>5
  <2>2. Cardinality(Holding \ {r}) = n - 1
    BY <2>1, HoldingFinite, FS_RemoveElement
  <2>3. n # 0
    BY <2>1, HoldingFinite, FS_EmptySet
  <2> QED BY <1>6, <1>7, <2>2, <2>3
<1>9. ~held => Cardinality(Holding)' = n
  BY <1>5, <1>6
<1>m. n = Cardinality(Holding)
  OBVIOUS
<1> HIDE DEF n, r, held, category
<1>10. CASE enrollment' = Answered(enrollment, category, held)
  <2>1. CASE held
    <3>1. enrollment' = Answered(enrollment, category, TRUE)
      BY <1>1, <1>10, <2>1
    <3>2. n > 0 /\ Cardinality(Holding)' = n - 1
      BY <1>8, <2>1
    <3> QED BY <1>1, <1>7, <1>m, <3>1, <3>2, AnsweredCounts
  <2>2. CASE ~held
    <3>1. enrollment' = Answered(enrollment, category, FALSE)
      BY <1>1, <1>10, <2>2
    <3>2. Keeps(enrollment, enrollment')
      BY <1>1, <3>1, AnsweredKeeps
    <3> QED BY <1>9, <1>m, <2>2, <3>2, KeepsCounts DEF Keeps
  <2> QED BY <2>1, <2>2
<1>11. CASE enrollment' # Answered(enrollment, category, held)
  <2>1. PICK verdict \in LadderVerdicts(enrollment, 0, Dead, OutstandingBeside(0)) :
          enrollment' = IF held
                        THEN [verdict.row EXCEPT
                                !.holds = Fewer(@),
                                !.prev = IF Fewer(enrollment.holds) = 0 THEN NoSnapshot ELSE @]
                        ELSE verdict.row
    BY <1>2, <1>11 DEF Conclude
  <2> DEFINE row == verdict.row
             p == IF Fewer(enrollment.holds) = 0 THEN NoSnapshot ELSE row.prev
             f == [row EXCEPT !.holds = Fewer(row.holds), !.prev = p]
  <2>2. row \in Rows /\ Keeps(enrollment, row)
    BY <1>1, VerdictsTyped, VerdictKeeps
  <2>3. enrollment' = IF held THEN f ELSE row
    BY <2>1
  <2> HIDE DEF row, p
  <2>4. f.state = row.state /\ f.holds = Fewer(row.holds) /\ f.automatic = row.automatic
    BY <2>2 DEF Rows
  <2> HIDE DEF f
  <2>5. Counted(enrollment, n) => Counted(row, n)
    BY <2>2, KeepsCounts
  <2>6. CASE held
    <3>1. Counted(row, n) => Counted(f, n - 1)
      BY <1>7, <1>8, <2>4, <2>6, NotEnded DEF Counted, Fewer
    <3> QED BY <1>m, <1>8, <2>2, <2>3, <2>4, <2>5, <2>6, <3>1 DEF Keeps
  <2>7. CASE ~held
    BY <1>9, <1>m, <2>2, <2>3, <2>5, <2>7 DEF Keeps
  <2> QED BY <2>6, <2>7
<1> QED BY <1>10, <1>11

\* The steps of an ingestion keep the count.
LEMMA IngestCounts ==
    ASSUME TypeOK, Owners, Unreceived, NEW i \in Ingesters, Ingest(i)
    PROVE  /\ enrollment'.automatic = enrollment.automatic
           /\ enrollment.state \in Ended => enrollment'.state \in Ended
           /\ Counted(enrollment, Cardinality(Holding))
                  => Counted(enrollment', Cardinality(Holding)')
<1>1. ASSUME NEW r \in Records, Receive(i, r) \/ Redeliver(i, r) \/ Sweep(i, r)
      PROVE  \E row \in RecordRows : StageRow(i, r, row) /\ (row.hold <=> r \in Holding)
  <2>1. CASE Receive(i, r)
    <3>1. PICK kind \in Kinds : StageRow(i, r, [NoRecord EXCEPT !.kind = kind])
      BY <2>1 DEF Receive
    <3>2. LET row == [NoRecord EXCEPT !.kind = kind] IN row \in RecordRows /\ ~row.hold
      BY DEF NoRecord, RecordRows
    <3>3. r \notin Holding
      BY <2>1 DEF Receive, Holding, Unreceived
    <3> QED BY <3>1, <3>2, <3>3
  <2>2. CASE Redeliver(i, r) \/ Sweep(i, r)
    <3>1. /\ StageRow(i, r, record[r]) /\ record[r] \in RecordRows
          /\ record[r].status # "processed"
      BY <2>2 DEF Redeliver, Sweep, Claimable, TypeOK
    <3> QED BY <3>1 DEF Holding
  <2> QED BY <1>1, <2>1, <2>2
<1>2. CASE ClassifierFails(i)
  <2>1. UNCHANGED enrollment
    BY <1>2 DEF ClassifierFails
  <2>2. Holding' = Holding
    <3> DEFINE r == job[i].record
               failed == [record[r] EXCEPT !.status = "failed", !.owner = Nobody, !.fresh = FALSE]
    <3>1. r \in Records /\ record[r] \in RecordRows
      BY <1>2 DEF ClassifierFails, TypeOK
    <3>2. failed.status = "failed" /\ failed.hold = record[r].hold
      BY <3>1 DEF RecordRows
    <3>3. record' = [record EXCEPT ![r] = IF record[r].owner = i THEN failed ELSE record[r]]
      BY <1>2 DEF ClassifierFails
    <3>4. record[r].owner = i => record[r].status = "processing"
      BY <3>1 DEF Owners
    <3> HIDE DEF failed, r
    <3>5. \A q \in Records : q # r => record'[q] = record[q]
      BY <3>3 DEF TypeOK
    <3>6. record'[r] = IF record[r].owner = i THEN failed ELSE record[r]
      BY <3>1, <3>3 DEF TypeOK
    <3> QED BY <3>1, <3>2, <3>4, <3>5, <3>6 DEF Holding
  <2> QED BY <2>1, <2>2
<1>3. CASE Finish(i)
  BY <1>3, FinishCounts
<1>4. CASE Classify(i) \/ FinishFenced(i) \/ IngesterDies(i)
  <2>1. UNCHANGED <<enrollment, record>>
    BY <1>4 DEF Classify, FinishFenced, IngesterDies
  <2> QED BY <2>1 DEF Holding
<1> QED BY <1>1, <1>2, <1>3, <1>4, StageCounts DEF Ingest, IngestStep

\* What no ingestion does keeps the count.
LEMMA ElsewhereCounts ==
    ASSUME TypeOK, Next, ~(\E i \in Ingesters : Ingest(i)),
           \A w \in Workers : worker[w] # "approve"
    PROVE  /\ Keeps(enrollment, enrollment')
           /\ Holding' = Holding
<1>1. Keeps(enrollment, enrollment')
  <2>1. CASE \E w \in Workers : FollowUp(w)
    BY <2>1, WorkerKeeps
  <2>2. CASE ~(\E w \in Workers : FollowUp(w))
    <3>1. \/ \E s \in Steps : Send(s)
          \/ \E r \in Records : RecordClaimAges(r)
          \/ ConfirmDead \/ LeaseExpires \/ Operator
      BY <2>2 DEF Next
    <3> QED BY <3>1, OthersKeep
  <2> QED BY <2>1, <2>2
<1>2. CASE UNCHANGED inboundVars
  BY <1>1, <1>2 DEF inboundVars, Holding
<1>3. ASSUME NEW r \in Records, RecordClaimAges(r) PROVE Holding' = Holding
  <2>1. \A q \in Records : /\ record'[q].hold = record[q].hold
                           /\ record'[q].status = record[q].status
    BY <1>3 DEF RecordClaimAges, TypeOK, RecordRows
  <2> QED BY <2>1 DEF Holding
<1> QED BY <1>1, <1>2, <1>3, InboundAlone

\* No write changes what the campaign says of automatic follow-ups.
LEMMA AutomaticKept ==
    ASSUME TypeOK, Owners, Unreceived, Next PROVE enrollment'.automatic = enrollment.automatic
BY IngestCounts, WorkerKeeps, OthersKeep DEF Next, Keeps

\* Only in an automatic campaign does a worker come to approve what it found.
LEMMA NobodyApproves ==
    ASSUME TypeOK, Next, ~enrollment.automatic, NEW w \in Workers, worker[w] # "approve"
    PROVE  worker'[w] # "approve"
<1>1. CASE UNCHANGED worker
  BY <1>1
<1>2. ASSUME NEW x \in Workers, FollowUp(x) PROVE worker'[w] # "approve"
  BY <1>2 DEF FollowUp, FindDue, InvocationRefused, InvocationBlocked, InvocationSuppressed,
       ClaimFollowUp, GenerateFollowUp, GenerationFails, ReleaseFollowUpClaim, ReviewFollowUp,
       ApproveExisting, SendFollowUp, SendFollowUpRefused, RescheduleFollowUp,
       MarkFollowUpHandedBack, WorkerDies, Goto, Return, TypeOK
<1>3. ASSUME NEW s \in Steps, Send(s) PROVE worker'[w] # "approve"
  BY <1>1, <1>3 DEF Send, Settle, OperatorSends, SettleSent, SettleRefused, SettleUnconfirmed,
       ConfirmLate, RefuseLate, ReleaseUncertain, Senders, followUpVars
<1>4. ASSUME NEW i \in Ingesters, Ingest(i) PROVE UNCHANGED worker
  BY <1>4 DEF Ingest, IngestStep, Receive, Redeliver, Sweep, StageRow, Classify, ClassifierFails,
       Finish, FinishFenced, IngesterDies, followUpVars
<1>5. \/ \E r \in Records : RecordClaimAges(r)
      \/ ConfirmDead \/ LeaseExpires \/ Operator
      => UNCHANGED worker
  BY DEF RecordClaimAges, ConfirmDead, LeaseExpires, Operator, Generate, Approve,
         RejectProposal, Stop, followUpVars
<1> QED BY <1>1, <1>2, <1>3, <1>4, <1>5 DEF Next

\* The invariant holds at the start.
LEMMA InitHolds == Init => HoldsInv
<1> SUFFICES ASSUME Init PROVE HoldsInv
  OBVIOUS
<1>1. \A r \in Records : record[r] = NoRecord
  BY DEF Init
<1>2. Owners /\ Unreceived
  BY <1>1, LifecycleAssumption DEF Owners, Unreceived, NoRecord
<1>3. Holding = {}
  BY <1>1 DEF Holding, NoRecord
<1>4. enrollment.holds = 0 /\ enrollment.state = "approved"
  BY DEF Init
<1>5. Counted(enrollment, Cardinality(Holding))
  BY <1>3, <1>4, FS_EmptySet DEF Counted
<1> QED BY <1>2, <1>5, InitTyped DEF HoldsInv, ManualHolds, Init

\* Every step keeps the invariant.
LEMMA NextHolds == HoldsInv /\ [Next]_vars => HoldsInv'
<1> SUFFICES ASSUME HoldsInv, [Next]_vars PROVE HoldsInv'
  OBVIOUS
<1> USE DEF HoldsInv
<1>1. TypeOK' /\ Owners' /\ Unreceived'
  BY NextTyped, NextOwners, NextUnreceived
<1>2. ManualHolds'
  <2>1. CASE UNCHANGED vars
    BY <2>1 DEF vars, ManualHolds, Holding
  <2>2. CASE Next
    <3> SUFFICES ASSUME ~enrollment'.automatic
                 PROVE  /\ Counted(enrollment', Cardinality(Holding)')
                        /\ \A w \in Workers : worker'[w] # "approve"
      BY DEF ManualHolds
    <3>1. /\ ~enrollment.automatic /\ Counted(enrollment, Cardinality(Holding))
          /\ \A w \in Workers : worker[w] # "approve"
      BY <2>2, AutomaticKept DEF ManualHolds
    <3>2. \A w \in Workers : worker'[w] # "approve"
      BY <2>2, <3>1, NobodyApproves
    <3>3. Counted(enrollment', Cardinality(Holding)')
      <4>1. CASE \E i \in Ingesters : Ingest(i)
        BY <3>1, <4>1, IngestCounts
      <4>2. CASE ~(\E i \in Ingesters : Ingest(i))
        <5>1. Keeps(enrollment, enrollment') /\ Holding' = Holding
          BY <2>2, <3>1, <4>2, ElsewhereCounts
        <5> QED BY <3>1, <5>1, KeepsCounts
      <4> QED BY <4>1, <4>2
    <3> QED BY <3>2, <3>3
  <2> QED BY <2>1, <2>2
<1> QED BY <1>1, <1>2

-----------------------------------------------------------------------------
(* Theorems. *)

\* Whatever is redelivered, taken over, fenced off, re-addressed or confirmed
\* in between, inbound_hold_count is the number of records that hold the
\* enrollment, until the sequence ends.
THEOREM HoldsAreAlwaysCounted == Spec => []HoldsAreCounted
<1>1. HoldsInv => HoldsAreCounted
  BY DEF HoldsInv, ManualHolds, Counted, HoldsAreCounted
<1> QED BY <1>1, InitHolds, NextHolds, PTL DEF Spec

\* Where every campaign leaves the approval to the operator, the enrollment's
\* does.
Manual == ~enrollment.automatic

\* The campaign stays manual, and the inductive invariant holds of it.
LEMMA ManualKept ==
    ASSUME AutomaticFollowUps = {FALSE}
    PROVE  Spec => [](HoldsInv /\ Manual)
<1>1. Init => HoldsInv /\ Manual
  BY InitHolds DEF Init, Manual
<1>2. HoldsInv /\ Manual /\ [Next]_vars => HoldsInv' /\ Manual'
  BY NextHolds, AutomaticKept DEF HoldsInv, Manual, vars
<1> QED BY <1>1, <1>2, PTL DEF Spec

\* In campaigns whose follow-ups the operator approves, a sequence that a reply,
\* a bounce or the operator ended is never resumed.
THEOREM EndedSequencesStayEnded ==
    ASSUME AutomaticFollowUps = {FALSE}
    PROVE  Spec => TerminalIsFinal
<1>1. HoldsInv /\ Manual /\ [Next]_vars => [enrollment.state \in Ended => enrollment'.state \in Ended]_vars
  <2> SUFFICES ASSUME HoldsInv, Manual, Next, enrollment.state \in Ended
               PROVE  enrollment'.state \in Ended
    OBVIOUS
  <2>1. CASE \E i \in Ingesters : Ingest(i)
    BY <2>1, IngestCounts DEF HoldsInv
  <2>2. CASE ~(\E i \in Ingesters : Ingest(i))
    BY <2>2, ElsewhereCounts DEF HoldsInv, ManualHolds, Manual, Keeps
  <2> QED BY <2>1, <2>2
<1> QED BY <1>1, ManualKept, PTL DEF Spec, TerminalIsFinal

\* Only a submission makes a message one that is being sent.
LEMMA SubmissionsSubmit ==
    ASSUME TypeOK, Next, NEW s \in Steps, Submits(s) PROVE SendAllowed(s)
<1> USE DEF Submits
<1>1. CASE UNCHANGED message
  BY <1>1
<1>2. ASSUME NEW x, Submit(x) PROVE SendAllowed(s)
  BY <1>2 DEF Submit, TypeOK
<1>3. ASSUME NEW i \in Ingesters, Ingest(i) PROVE FALSE
  <2>1. UNCHANGED message \/ message' = [message EXCEPT ![0] = "none"]
    BY <1>3 DEF Ingest, IngestStep, Receive, Redeliver, Sweep, StageRow, Classify,
                ClassifierFails, Finish, FinishFenced, IngesterDies, Conclude, mailVars
  <2> QED BY <2>1 DEF TypeOK
<1>4. ASSUME NEW w \in Workers, FollowUp(w) PROVE SendAllowed(s)
  <2>1. CASE GenerateFollowUp(w)
    BY <2>1 DEF GenerateFollowUp, Generated, TypeOK
  <2>2. CASE ReviewFollowUp(w)
    BY <2>2 DEF ReviewFollowUp, TypeOK
  <2>3. CASE SendFollowUp(w)
    BY <1>2, <2>3 DEF SendFollowUp
  <2>4. CASE WorkerDies(w)
    BY <2>4 DEF WorkerDies, TypeOK
  <2>5. \/ GenerateFollowUp(w) \/ ReviewFollowUp(w) \/ SendFollowUp(w) \/ WorkerDies(w)
        \/ UNCHANGED message
    BY <1>4 DEF FollowUp, FindDue, InvocationRefused, InvocationBlocked, InvocationSuppressed,
       ClaimFollowUp, GenerationFails, ReleaseFollowUpClaim, ApproveExisting,
       SendFollowUpRefused, RescheduleFollowUp, MarkFollowUpHandedBack, mailVars
  <2> QED BY <1>1, <2>1, <2>2, <2>3, <2>4, <2>5
<1>5. ASSUME NEW x \in Steps, Send(x) PROVE SendAllowed(s)
  <2>1. \/ Submit(x)
        \/ \E status \in {"sent", "failed", "none", "uncertain", "released"} :
              message' = [message EXCEPT ![x] = status]
    BY <1>5 DEF Send, Settle, OperatorSends, SettleSent, SettleRefused, SettleUnconfirmed,
                ConfirmLate, RefuseLate, ReleaseUncertain, FinalizeSent, MarkPermanentlyRejected
  <2> QED BY <1>2, <2>1 DEF TypeOK
<1>6. CASE Operator
  <2>1. \/ UNCHANGED message
        \/ \E x, status : /\ message' = [message EXCEPT ![x] = status]
                          /\ status \in {"proposed", "approved", "cancelled"}
    BY <1>6 DEF Operator, Generate, Approve, RejectProposal, Stop, mailVars
  <2> QED BY <2>1 DEF TypeOK
<1>7. (\E r \in Records : RecordClaimAges(r)) \/ ConfirmDead \/ LeaseExpires
      => UNCHANGED message
  BY DEF RecordClaimAges, ConfirmDead, LeaseExpires, mailVars
<1> QED BY <1>1, <1>3, <1>4, <1>5, <1>6, <1>7 DEF Next

\* In those campaigns nothing is submitted while a reply or a report that holds
\* the enrollment is not classified and applied.
THEOREM RepliesStopSubmission ==
    ASSUME AutomaticFollowUps = {FALSE}
    PROVE  Spec => NoSubmitWhileReplyPending
<1>1. HoldsInv /\ Manual /\ [Next]_vars => [\A s \in Steps : Submits(s) => Holding = {}]_vars
  <2> SUFFICES ASSUME HoldsInv, Manual, Next, NEW s \in Steps, Submits(s)
               PROVE  Holding = {}
    OBVIOUS
  <2>1. enrollment.holds = 0 /\ enrollment.state \notin Ended
    BY SubmissionsSubmit DEF HoldsInv, SendAllowed, Ended
  <2>2. Cardinality(Holding) = 0
    BY <2>1 DEF HoldsInv, ManualHolds, Manual, Counted
  <2> QED BY <2>2, HoldingFinite, FS_EmptySet
<1> QED BY <1>1, ManualKept, PTL DEF Spec, NoSubmitWhileReplyPending

-----------------------------------------------------------------------------
(* What the writes to a row do to its schedule. *)

\* A row that was parked or ended has no schedule, nor has what a hold would
\* give back to such a row; without holds nothing is given back; and nobody
\* works for a sequence that is over, or will be when its holds are released.
ScheduleOK(e) ==
    /\ e.state \in Terminal \cup {"manual_review"} => e.token = 0
    /\ e.prev.state \in Terminal \cup {"manual_review"} => e.prev.token = 0
    /\ e.holds = 0 => e.prev.token = 0 /\ e.prev.state \notin Terminal
    /\ e.state \in Terminal \/ e.prev.state \in Terminal => e.claim = Nobody

\* A write that leaves the sequence where it is: no step, no schedule and no
\* claim that the row did not have, and no completion.
Stays(e, f) ==
    /\ f.step = e.step /\ f.automatic = e.automatic
    /\ f.token \in {0, e.token, e.prev.token}
    /\ f.prev.token \in {0, e.token, e.prev.token}
    /\ f.claim \in {e.claim, Nobody}
    /\ f.state = "completed" => e.state = "completed" \/ e.prev.state = "completed"
    /\ f.prev.state = "completed" => e.prev.state = "completed"

\* A write that ends a sequence forgets what its holds interrupted.
Forgets(e, f) ==
    f.state \in Terminal => \/ f.prev.token = 0 /\ f.prev.state # "completed"
                            \/ e.state \in Terminal /\ f.prev.token = e.prev.token

Steady(e, f) == ScheduleOK(f) /\ Stays(e, f) /\ Forgets(e, f) /\ f.lastReply = e.lastReply

\* The states by what the schedule has to do with them.
LEMMA StateKinds ==
    /\ Terminal = {"replied", "bounced", "stopped", "completed"}
    /\ Ended = {"replied", "bounced", "stopped"}
    /\ Live = {"waiting", "ready_for_review", "approved", "manual_review"}
BY DEF Terminal, Ended, Live

\* The columns a snapshot constant has.
LEMMA SnapshotColumns ==
    /\ NoSnapshot.state = "none" /\ NoSnapshot.token = 0
    /\ ManualSnapshot.state = "manual_review" /\ ManualSnapshot.token = 0
    /\ \A e : SnapshotOf(e).state = e.state /\ SnapshotOf(e).token = e.token
BY DEF NoSnapshot, ManualSnapshot, SnapshotOf

\* Giving up the claim, the schedule or both.
LEMMA ClaimColumns ==
    ASSUME NEW e \in Rows
    PROVE  LET f == Unclaimed(e) IN
           /\ f \in Rows /\ f.claim = Nobody /\ f.state = e.state /\ f.step = e.step
           /\ f.token = e.token /\ f.holds = e.holds /\ f.prev = e.prev
           /\ f.lastReply = e.lastReply /\ f.automatic = e.automatic
BY Unclaiming DEF Unclaimed, Rows

LEMMA DueColumns ==
    ASSUME NEW e \in Rows
    PROVE  LET f == Unscheduled(e) IN
           /\ f \in Rows /\ f.claim = e.claim /\ f.state = e.state /\ f.step = e.step
           /\ f.token = 0 /\ f.holds = e.holds /\ f.prev = e.prev
           /\ f.lastReply = e.lastReply /\ f.automatic = e.automatic
BY Unscheduling DEF Unscheduled, Rows

LEMMA BothColumns ==
    ASSUME NEW e \in Rows
    PROVE  LET f == Unclaimed(Unscheduled(e)) IN
           /\ f \in Rows /\ f.claim = Nobody /\ f.state = e.state /\ f.step = e.step
           /\ f.token = 0 /\ f.holds = e.holds /\ f.prev = e.prev
           /\ f.lastReply = e.lastReply /\ f.automatic = e.automatic
<1> DEFINE g == Unscheduled(e)
<1>1. /\ g \in Rows /\ g.claim = e.claim /\ g.state = e.state /\ g.step = e.step
      /\ g.token = 0 /\ g.holds = e.holds /\ g.prev = e.prev
      /\ g.lastReply = e.lastReply /\ g.automatic = e.automatic
  BY DueColumns
<1> HIDE DEF g
<1>2. LET f == Unclaimed(g) IN
      /\ f \in Rows /\ f.claim = Nobody /\ f.state = g.state /\ f.step = g.step
      /\ f.token = g.token /\ f.holds = g.holds /\ f.prev = g.prev
      /\ f.lastReply = g.lastReply /\ f.automatic = g.automatic
  BY <1>1, ClaimColumns
<1> QED BY <1>1, <1>2 DEF g

\* Giving them up leaves the sequence where it is.
LEMMA GivingUp ==
    ASSUME NEW e \in Rows, ScheduleOK(e)
    PROVE  /\ Steady(e, e) /\ Steady(e, Unclaimed(e)) /\ Steady(e, Unscheduled(e))
           /\ Steady(e, Unclaimed(Unscheduled(e)))
BY ClaimColumns, DueColumns, BothColumns DEF Steady, ScheduleOK, Stays, Forgets

\* So does a state that asks for no human and ends nothing.
LEMMA StateSteady ==
    ASSUME NEW e \in Rows, ScheduleOK(e), NEW x \in {"waiting", "ready_for_review", "approved"}
    PROVE  Steady(e, [e EXCEPT !.state = x])
<1> DEFINE f == [e EXCEPT !.state = x]
<1>1. /\ f.claim = e.claim /\ f.state = x /\ f.step = e.step
      /\ f.token = e.token /\ f.holds = e.holds /\ f.prev = e.prev
      /\ f.lastReply = e.lastReply /\ f.automatic = e.automatic
  BY DEF Rows
<1> HIDE DEF f
<1>2. x \notin Terminal /\ x # "manual_review" /\ x # "completed"
  BY StateKinds
<1>3. Steady(e, f)
  BY <1>1, <1>2 DEF Steady, ScheduleOK, Stays, Forgets
<1> QED BY <1>3 DEF f

\* A row without claim and schedule may be left in any state that ends nothing.
LEMMA ParkedSteady ==
    ASSUME NEW e \in Rows, ScheduleOK(e), NEW x \in Live
    PROVE  Steady(e, [Unclaimed(Unscheduled(e)) EXCEPT !.state = x])
<1> DEFINE g == Unclaimed(Unscheduled(e))
           f == [g EXCEPT !.state = x]
<1>1. /\ g \in Rows /\ g.claim = Nobody /\ g.step = e.step
      /\ g.token = 0 /\ g.holds = e.holds /\ g.prev = e.prev
      /\ g.lastReply = e.lastReply /\ g.automatic = e.automatic
  BY BothColumns
<1> HIDE DEF g
<1>2. /\ f.claim = Nobody /\ f.state = x /\ f.step = e.step
      /\ f.token = 0 /\ f.holds = e.holds /\ f.prev = e.prev
      /\ f.lastReply = e.lastReply /\ f.automatic = e.automatic
  BY <1>1 DEF Rows
<1> HIDE DEF f
<1>3. x \notin Terminal /\ x # "completed"
  BY StateKinds
<1>4. Steady(e, f)
  BY <1>2, <1>3 DEF Steady, ScheduleOK, Stays, Forgets
<1> QED BY <1>4 DEF f, g

\* Putting a row off gives it a due date, but no schedule it did not have.
LEMMA PutOffSteady ==
    ASSUME NEW e \in Rows, ScheduleOK(e)
    PROVE  Steady(e, [Unclaimed(e) EXCEPT !.state = "waiting", !.due = TRUE])
<1> DEFINE g == Unclaimed(e)
           f == [g EXCEPT !.state = "waiting", !.due = TRUE]
<1>1. /\ g \in Rows /\ g.claim = Nobody /\ g.step = e.step
      /\ g.token = e.token /\ g.holds = e.holds /\ g.prev = e.prev
      /\ g.lastReply = e.lastReply /\ g.automatic = e.automatic
  BY ClaimColumns
<1> HIDE DEF g
<1>2. /\ f.claim = Nobody /\ f.state = "waiting" /\ f.step = e.step
      /\ f.token = e.token /\ f.holds = e.holds /\ f.prev = e.prev
      /\ f.lastReply = e.lastReply /\ f.automatic = e.automatic
  BY <1>1 DEF Rows
<1> HIDE DEF f
<1>3. Steady(e, f)
  BY <1>2, StateKinds DEF Steady, ScheduleOK, Stays, Forgets
<1> QED BY <1>3 DEF f, g

\* Ending a sequence.
LEMMA EndedBySteady ==
    ASSUME NEW e \in Rows, ScheduleOK(e), NEW state \in Ended, NEW why
    PROVE  LET f == EndedBy(e, state, why) IN
           Steady(e, f) /\ f.claim = Nobody /\ f.state = state
<1> DEFINE g == Unclaimed(Unscheduled(e))
           f == [g EXCEPT !.state = state, !.stop = why, !.holds = 0, !.prev = NoSnapshot]
<1>1. /\ g \in Rows /\ g.claim = Nobody /\ g.step = e.step /\ g.token = 0
      /\ g.lastReply = e.lastReply /\ g.automatic = e.automatic
  BY BothColumns
<1>2. EndedBy(e, state, why) = f
  BY DEF EndedBy
<1> HIDE DEF g
<1>3. /\ f.claim = Nobody /\ f.state = state /\ f.step = e.step
      /\ f.token = 0 /\ f.holds = 0 /\ f.prev = NoSnapshot
      /\ f.lastReply = e.lastReply /\ f.automatic = e.automatic
  BY <1>1 DEF Rows
<1> HIDE DEF f
<1>4. NoSnapshot.state \notin Terminal \cup {"manual_review"} /\ state # "completed"
  BY SnapshotColumns, StateKinds
<1>5. Steady(e, f)
  BY <1>3, <1>4, SnapshotColumns DEF Steady, ScheduleOK, Stays, Forgets
<1> QED BY <1>2, <1>3, <1>5

\* Taking a hold.
LEMMA HoldSteady ==
    ASSUME NEW e \in Rows, ScheduleOK(e), e.state \notin Terminal
    PROVE  Steady(e, Hold(e)) /\ Hold(e).state = "manual_review"
<1> DEFINE g == Unscheduled(e)
           p == IF e.holds = 0 THEN SnapshotOf(e) ELSE e.prev
           f == [g EXCEPT !.state = "manual_review", !.holds = e.holds + 1, !.prev = p]
<1>1. /\ g \in Rows /\ g.claim = e.claim /\ g.step = e.step /\ g.token = 0
      /\ g.holds = e.holds /\ g.prev = e.prev
      /\ g.lastReply = e.lastReply /\ g.automatic = e.automatic
  BY DueColumns
<1>2. Hold(e) = f
  BY <1>1 DEF Hold
<1>3. /\ p.token \in {0, e.token, e.prev.token}
      /\ p.state \in Terminal \cup {"manual_review"} => p.token = 0
      /\ p.state \in Terminal => e.claim = Nobody
      /\ p.state = "completed" => e.prev.state = "completed"
  BY SnapshotColumns, StateKinds DEF ScheduleOK
<1>4. e.holds + 1 # 0
  BY RowFields
<1> HIDE DEF g, p
<1>5. /\ f.claim = e.claim /\ f.state = "manual_review" /\ f.step = e.step
      /\ f.token = 0 /\ f.holds = e.holds + 1 /\ f.prev = p
      /\ f.lastReply = e.lastReply /\ f.automatic = e.automatic
  BY <1>1 DEF Rows
<1> HIDE DEF f
<1>6. Steady(e, f)
  BY <1>3, <1>4, <1>5, StateKinds DEF Steady, ScheduleOK, Stays, Forgets
<1> QED BY <1>2, <1>5, <1>6

\* A refusal: an ended row stays, any other is parked or ends as bounced.
LEMMA RejectedSteady ==
    ASSUME NEW e \in Rows, ScheduleOK(e), NEW hardBounce \in BOOLEAN
    PROVE  LET f == Rejected(e, hardBounce) IN
           /\ ScheduleOK(f) /\ Stays(e, f) /\ f.lastReply = e.lastReply
           /\ f.claim = Nobody
           /\ f.state \notin Terminal \/ hardBounce \/ f = e
<1> DEFINE g == Unclaimed(Unscheduled(e))
           x == IF hardBounce THEN "bounced" ELSE "manual_review"
           y == IF hardBounce THEN "hard_bounce" ELSE g.stop
           f == [g EXCEPT !.state = x, !.stop = y]
<1>1. /\ g \in Rows /\ g.claim = Nobody /\ g.step = e.step /\ g.token = 0
      /\ g.holds = e.holds /\ g.prev = e.prev
      /\ g.lastReply = e.lastReply /\ g.automatic = e.automatic
  BY BothColumns
<1>2. Rejected(e, hardBounce) = IF e.state \in Terminal THEN e ELSE f
  BY DEF Rejected
<1> HIDE DEF g, y
<1>3. /\ f.claim = Nobody /\ f.state = x /\ f.step = e.step
      /\ f.token = 0 /\ f.holds = e.holds /\ f.prev = e.prev
      /\ f.lastReply = e.lastReply /\ f.automatic = e.automatic
  BY <1>1 DEF Rows
<1> HIDE DEF f
<1>4. x # "completed" /\ (x \notin Terminal \/ hardBounce)
  BY StateKinds
<1> HIDE DEF x
<1>5. ScheduleOK(f) /\ Stays(e, f)
  BY <1>3, <1>4 DEF ScheduleOK, Stays
<1>6. Stays(e, e) /\ (e.state \in Terminal => e.claim = Nobody)
  BY DEF Stays, ScheduleOK
<1> QED BY <1>2, <1>3, <1>4, <1>5, <1>6

\* Noting what a reply said.
Said(category) == IF category = "terminal" THEN "terminal" ELSE "other"

LEMMA ClassifiedColumns ==
    ASSUME NEW e \in Rows, NEW category
    PROVE  LET f == Classified(e, category) IN
           /\ f \in Rows /\ f.claim = e.claim /\ f.state = e.state /\ f.step = e.step
           /\ f.token = e.token /\ f.holds = e.holds /\ f.prev = e.prev
           /\ f.lastReply = Said(category) /\ f.automatic = e.automatic
<1> DEFINE f == [e EXCEPT !.lastReply = Said(category)]
<1>1. Classified(e, category) = f
  BY DEF Classified, Said
<1>2. /\ f.claim = e.claim /\ f.state = e.state /\ f.step = e.step
      /\ f.token = e.token /\ f.holds = e.holds /\ f.prev = e.prev
      /\ f.lastReply = Said(category) /\ f.automatic = e.automatic
  BY DEF Rows
<1> HIDE DEF f
<1> QED BY <1>1, <1>2, ClassifiedTyped

\* The last hold of a report that changes nothing.
LEMMA RestoredSteady ==
    ASSUME NEW e \in Rows, ScheduleOK(e), e.state \notin Terminal
    PROVE  Steady(e, Restored(e))
<1> DEFINE x == IF e.prev.state = "none" THEN "waiting" ELSE e.prev.state
           y == IF e.prev.state = "completed" THEN "sequence_complete" ELSE e.stop
           f == [e EXCEPT !.state = x, !.due = e.prev.due, !.token = e.prev.token,
                          !.stop = y, !.holds = 0, !.prev = NoSnapshot]
<1>1. Restored(e) = f
  BY DEF Restored
<1>2. /\ x \in Terminal \cup {"manual_review"} => e.prev.token = 0
      /\ x \in Terminal => e.claim = Nobody
      /\ x = "completed" => e.prev.state = "completed"
  BY StateKinds DEF ScheduleOK
<1> HIDE DEF x, y
<1>3. /\ f.claim = e.claim /\ f.state = x /\ f.step = e.step
      /\ f.token = e.prev.token /\ f.holds = 0 /\ f.prev = NoSnapshot
      /\ f.lastReply = e.lastReply /\ f.automatic = e.automatic
  BY DEF Rows
<1> HIDE DEF f
<1>4. NoSnapshot.state \notin Terminal \cup {"manual_review"}
  BY SnapshotColumns, StateKinds
<1>5. Steady(e, f)
  BY <1>2, <1>3, <1>4, SnapshotColumns, StateKinds DEF Steady, ScheduleOK, Stays, Forgets
<1> QED BY <1>1, <1>5

\* One hold among others, or the last one of a report that asks for a human.
LEMMA ReleasedSteady ==
    ASSUME NEW e \in Rows, ScheduleOK(e), e.state \notin Terminal, NEW category
    PROVE  LET f == Released(e, category) IN Steady(e, f) /\ f.state = e.state
<1> DEFINE p == CASE Fewer(e.holds) = 0 -> NoSnapshot
                  [] OutcomeState(category) = "manual_review" -> ManualSnapshot
                  [] OTHER -> e.prev
           f == [e EXCEPT !.holds = Fewer(e.holds), !.prev = p]
<1>1. Released(e, category) = f
  BY DEF Released
<1>2. /\ p.token \in {0, e.prev.token}
      /\ p.state \in Terminal \cup {"manual_review"} => p.token = 0
      /\ p.state \in Terminal => e.claim = Nobody
      /\ p.state = "completed" => e.prev.state = "completed"
      /\ Fewer(e.holds) = 0 => p.token = 0 /\ p.state \notin Terminal
  BY SnapshotColumns, StateKinds DEF ScheduleOK
<1> HIDE DEF p
<1>3. /\ f.claim = e.claim /\ f.state = e.state /\ f.step = e.step
      /\ f.token = e.token /\ f.holds = Fewer(e.holds) /\ f.prev = p
      /\ f.lastReply = e.lastReply /\ f.automatic = e.automatic
  BY DEF Rows
<1> HIDE DEF f
<1>4. Steady(e, f)
  BY <1>2, <1>3 DEF Steady, ScheduleOK, Stays, Forgets
<1> QED BY <1>1, <1>3, <1>4

\* Steadiness composes, as long as nothing ends before the last write.
LEMMA SteadyThen ==
    ASSUME NEW e, NEW f, NEW g, Stays(e, f), f.prev = e.prev,
           f.token \in {0, e.token}, f.state \notin Terminal,
           ScheduleOK(g), Stays(f, g), Forgets(f, g)
    PROVE  ScheduleOK(g) /\ Stays(e, g) /\ Forgets(e, g)
<1>1. f.state # "completed"
  BY StateKinds
<1>2. Stays(e, g)
  BY <1>1 DEF Stays
<1>3. Forgets(e, g)
  BY DEF Forgets
<1> QED BY <1>2, <1>3

\* The last transaction of an ingestion leaves the sequence where it is, and
\* notes what was said.
LEMMA AnsweredSteady ==
    ASSUME NEW e \in Rows, ScheduleOK(e), NEW category, NEW held \in BOOLEAN
    PROVE  LET f == Answered(e, category, held) IN
           /\ ScheduleOK(f) /\ Stays(e, f) /\ Forgets(e, f)
           /\ f.lastReply = Said(category)
           /\ EndsSequence(category) => /\ f.claim = Nobody /\ f.state \in Terminal
                                        /\ f.state = "completed" => e.state = "completed"
           /\ e.state \in Terminal => f.state = e.state
<1> DEFINE classified == Classified(e, category)
           parked == IF ClearsSchedule(category) THEN Unscheduled(classified) ELSE classified
           x == IF OutcomeState(category) = "none" THEN parked.state ELSE OutcomeState(category)
           moved == [parked EXCEPT !.state = x]
           ended == EndedBy(classified, OutcomeState(category), StopReason(category))
<1>1. /\ classified \in Rows /\ classified.claim = e.claim /\ classified.state = e.state
      /\ classified.step = e.step /\ classified.token = e.token /\ classified.holds = e.holds
      /\ classified.prev = e.prev /\ classified.lastReply = Said(category)
      /\ classified.automatic = e.automatic
  BY ClassifiedColumns
<1>2. Answered(e, category, held) =
        CASE e.state \in Terminal -> classified
          [] e.state \notin Terminal /\ EndsSequence(category) -> ended
          [] e.state \notin Terminal /\ MayRestore(e, category, held) -> Restored(classified)
          [] OTHER -> IF held THEN Released(moved, category) ELSE moved
  BY DEF Answered
<1>3. /\ parked \in Rows /\ parked.claim = e.claim /\ parked.state = e.state
      /\ parked.step = e.step /\ parked.holds = e.holds /\ parked.prev = e.prev
      /\ parked.token = IF ClearsSchedule(category) THEN 0 ELSE e.token
      /\ parked.lastReply = Said(category) /\ parked.automatic = e.automatic
  <2> HIDE DEF classified
  <2> QED BY <1>1, DueColumns
<1> HIDE DEF classified, parked
<1>4. ScheduleOK(classified) /\ Stays(e, classified) /\ Forgets(e, classified)
  BY <1>1 DEF ScheduleOK, Stays, Forgets
<1>5. ASSUME e.state \notin Terminal, ~EndsSequence(category)
      PROVE  /\ moved \in Rows /\ ScheduleOK(moved) /\ Stays(e, moved) /\ Forgets(e, moved)
             /\ moved.prev = e.prev /\ moved.token \in {0, e.token}
             /\ moved.state \notin Terminal /\ moved.lastReply = Said(category)
  <2>1. x \in Live
    BY <1>3, <1>5, OutcomeStates, NotEnded, RowFields DEF Live
  <2>2. x # e.state => parked.token = 0
    BY <1>3 DEF ClearsSchedule
  <2> HIDE DEF x
  <2>3. /\ moved \in Rows /\ moved.claim = parked.claim /\ moved.state = x
        /\ moved.step = parked.step /\ moved.holds = parked.holds /\ moved.prev = parked.prev
        /\ moved.token = parked.token /\ moved.lastReply = parked.lastReply
        /\ moved.automatic = parked.automatic
    BY <1>3, <2>1 DEF Rows
  <2> HIDE DEF moved
  <2>4. x \notin Terminal /\ x # "completed"
    BY <2>1, NotEnded
  <2> QED BY <1>3, <1>5, <2>2, <2>3, <2>4 DEF ScheduleOK, Stays, Forgets
<1> HIDE DEF moved
<1>6. CASE e.state \in Terminal
  BY <1>1, <1>2, <1>4, <1>6 DEF ScheduleOK
<1>7. CASE e.state \notin Terminal /\ EndsSequence(category)
  <2>1. OutcomeState(category) \in Ended
    BY <1>7, OutcomeStates
  <2>2. /\ ScheduleOK(ended) /\ Stays(classified, ended) /\ Forgets(classified, ended)
        /\ ended.lastReply = classified.lastReply /\ ended.claim = Nobody
        /\ ended.state \in Ended
    BY <1>1, <1>4, <2>1, EndedBySteady DEF Steady
  <2> HIDE DEF ended
  <2>3. Stays(e, ended) /\ Forgets(e, ended)
    BY <1>1, <2>2 DEF Stays, Forgets
  <2>4. Answered(e, category, held) = ended /\ ended.state \in Terminal
    <3>1. ~MayRestore(e, category, held)
      BY <2>1, StateKinds DEF MayRestore
    <3> QED BY <1>2, <1>7, <2>2, <3>1, NotEnded
  <2> QED BY <1>1, <1>7, <2>2, <2>3, <2>4, StateKinds
<1>8. CASE e.state \notin Terminal /\ ~EndsSequence(category) /\ MayRestore(e, category, held)
  <2> DEFINE f == Restored(classified)
  <2>1. /\ ScheduleOK(f) /\ Stays(classified, f) /\ Forgets(classified, f)
        /\ f.lastReply = classified.lastReply
    BY <1>1, <1>4, <1>8, RestoredSteady DEF Steady
  <2>2. Answered(e, category, held) = f
    BY <1>2, <1>8
  <2> HIDE DEF f
  <2>3. Stays(e, f) /\ Forgets(e, f)
    BY <1>1, <2>1 DEF Stays, Forgets
  <2> QED BY <1>1, <1>8, <2>1, <2>2, <2>3
<1>9. CASE e.state \notin Terminal /\ ~EndsSequence(category) /\ ~MayRestore(e, category, held)
  <2> DEFINE f == Released(moved, category)
  <2>1. CASE ~held
    <3>1. Answered(e, category, held) = moved
      BY <1>2, <1>9, <2>1
    <3> QED BY <1>5, <1>9, <3>1
  <2>2. CASE held
    <3>1. Answered(e, category, held) = f
      BY <1>2, <1>9, <2>2
    <3>2. /\ ScheduleOK(f) /\ Stays(moved, f) /\ Forgets(moved, f)
          /\ f.lastReply = moved.lastReply
      BY <1>5, <1>9, ReleasedSteady DEF Steady
    <3> HIDE DEF f
    <3>3. Stays(e, f) /\ Forgets(e, f)
      BY <1>5, <1>9, <3>2, SteadyThen
    <3> QED BY <1>5, <1>9, <3>1, <3>2, <3>3
  <2> QED BY <2>1, <2>2
<1> QED BY <1>6, <1>7, <1>8, <1>9

\* A re-addressed row is parked at the dead step, whoever still holds it.
Parked(e, f, step) ==
    /\ f.step = step /\ f.state = "manual_review" /\ f.token = 0 /\ f.prev.token = 0
    /\ f.prev.state \in {"none", "manual_review"}
    /\ f.claim = Nobody /\ f.automatic = e.automatic

LEMMA ReaddressedParks ==
    ASSUME NEW e \in Rows, NEW step \in Nat
    PROVE  LET f == Readdressed(e, step) IN
           f \in Rows /\ Parked(e, f, step) /\ f.holds = e.holds
<1> DEFINE g == Unclaimed(Unscheduled(e))
           p == IF e.holds > 0 THEN ManualSnapshot ELSE NoSnapshot
           f == [g EXCEPT !.state = "manual_review", !.step = step, !.stop = "none",
                          !.lastReply = "other", !.prev = p]
<1>1. /\ g \in Rows /\ g.claim = Nobody /\ g.step = e.step /\ g.token = 0
      /\ g.holds = e.holds /\ g.automatic = e.automatic
  BY BothColumns
<1>2. Readdressed(e, step) = f
  BY DEF Readdressed
<1>3. p.token = 0 /\ p.state \in {"none", "manual_review"}
  BY SnapshotColumns
<1> HIDE DEF g, p
<1>4. /\ f.claim = Nobody /\ f.state = "manual_review" /\ f.step = step
      /\ f.token = 0 /\ f.holds = e.holds /\ f.prev = p /\ f.automatic = e.automatic
  BY <1>1 DEF Rows
<1> HIDE DEF f
<1> QED BY <1>2, <1>3, <1>4, ReaddressedTyped DEF Parked

\* Such a row is sound.
LEMMA ParkedOK == ASSUME NEW e, NEW f, NEW step, Parked(e, f, step) PROVE ScheduleOK(f) /\ Forgets(e, f)
BY StateKinds DEF Parked, ScheduleOK, Forgets

\* What the ladder decides: to leave the row, or to re-address a sequence that
\* has nothing outstanding.
LEMMA VerdictsAre ==
    ASSUME NEW e, NEW step, NEW dead, NEW outstanding,
           NEW verdict \in LadderVerdicts(e, step, dead, outstanding)
    PROVE  \/ verdict.row = e /\ (verdict.owns => dead \/ e.state = "completed")
           \/ verdict.row = Readdressed(e, step) /\ ~dead /\ ~outstanding /\ e.state \notin Ended
BY DEF LadderVerdicts

\* A record that gives its hold up at the verdict.
Taken(e, row, held) ==
    IF held
    THEN [row EXCEPT !.holds = Fewer(@),
                     !.prev = IF Fewer(e.holds) = 0 THEN NoSnapshot ELSE @]
    ELSE row

LEMMA VerdictSteady ==
    ASSUME NEW e \in Rows, ScheduleOK(e), NEW held \in BOOLEAN, NEW row \in Rows,
           row.holds = e.holds, ScheduleOK(row)
    PROVE  LET f == Taken(e, row, held) IN
           /\ ScheduleOK(f)
           /\ row = e => Stays(e, f) /\ Forgets(e, f) /\ f.lastReply = e.lastReply
                         /\ f.claim = e.claim /\ f.state = e.state
           /\ \A step : Parked(e, row, step) => Parked(e, f, step)
<1> DEFINE f == Taken(e, row, held)
<1> SUFFICES /\ ScheduleOK(f)
             /\ row = e => Stays(e, f) /\ Forgets(e, f) /\ f.lastReply = e.lastReply
                           /\ f.claim = e.claim /\ f.state = e.state
             /\ \A step : Parked(e, row, step) => Parked(e, f, step)
  OBVIOUS
<1>0. f = IF held
          THEN [row EXCEPT !.holds = Fewer(row.holds),
                           !.prev = IF Fewer(row.holds) = 0 THEN NoSnapshot ELSE row.prev]
          ELSE row
  BY DEF Taken
<1> HIDE DEF f
<1>1. CASE ~held
  <2>1. Stays(e, e) /\ Forgets(e, e)
    BY DEF Stays, Forgets
  <2> QED BY <1>0, <1>1, <2>1
<1>2. CASE held
  <2> DEFINE p == IF Fewer(row.holds) = 0 THEN NoSnapshot ELSE row.prev
             g == [row EXCEPT !.holds = Fewer(row.holds), !.prev = p]
  <2>1. f = g
    BY <1>0, <1>2
  <2>2. /\ p.state \in Terminal \cup {"manual_review"} => p.token = 0
        /\ p.state \in Terminal => row.claim = Nobody
        /\ Fewer(row.holds) = 0 => p.token = 0 /\ p.state \notin Terminal
        /\ p = row.prev \/ (p.state = "none" /\ p.token = 0)
    BY SnapshotColumns, StateKinds DEF ScheduleOK
  <2> HIDE DEF p
  <2>3. /\ g.claim = row.claim /\ g.state = row.state /\ g.step = row.step
        /\ g.token = row.token /\ g.holds = Fewer(row.holds) /\ g.prev = p
        /\ g.lastReply = row.lastReply /\ g.automatic = row.automatic
    BY DEF Rows
  <2> HIDE DEF g
  <2>4. ScheduleOK(g)
    BY <2>2, <2>3 DEF ScheduleOK
  <2>5. ASSUME row = e PROVE Stays(e, g) /\ Forgets(e, g)
    BY <2>2, <2>3, <2>5 DEF Stays, Forgets
  <2>6. ASSUME NEW step, Parked(e, row, step) PROVE Parked(e, g, step)
    BY <2>2, <2>3, <2>6 DEF Parked
  <2> QED BY <2>1, <2>3, <2>4, <2>5, <2>6
<1> QED BY <1>1, <1>2

\* A confirmation takes a sequence that is not over to the next step, or to its
\* end, now or when its holds are released.
Moves(e, f, step) ==
    /\ f.step = IF step < LastStep THEN step + 1 ELSE step
    /\ f.automatic = e.automatic
    /\ f.token # 0 \/ f.prev.token # 0 => step < LastStep
    /\ f.state = "completed" \/ f.prev.state = "completed" =>
          e.prev.state = "completed" \/ ~(step < LastStep)
    /\ f.state \in Terminal => f.prev.token = 0 /\ f.prev.state # "completed"
    /\ f.state \notin Ended

LEMMA ConfirmedMoves ==
    ASSUME NEW e \in Rows, ScheduleOK(e), NEW step \in Nat, NEW token \in Nat
    PROVE  LET f == Confirmed(e, step, token) IN
           /\ ScheduleOK(f) /\ f.lastReply = e.lastReply /\ f.claim = Nobody
           /\ e.state \in Terminal => Steady(e, f) /\ f.state = e.state
           /\ e.state \notin Terminal => Moves(e, f, step)
<1> DEFINE next == Progressed(e, step, token)
           f == Confirmed(e, step, token)
<1>1. CASE e.state \in Terminal
  <2>1. f = Unclaimed(e)
    BY <1>1 DEF Confirmed
  <2> HIDE DEF f
  <2>2. Steady(e, f) /\ f.claim = Nobody /\ f.state = e.state
    BY <2>1, GivingUp, ClaimColumns
  <2>3. ScheduleOK(f) /\ f.lastReply = e.lastReply
    BY <2>2 DEF Steady
  <2> QED BY <1>1, <2>2, <2>3 DEF f
<1>2. CASE e.state \notin Terminal
  <2>1. /\ next \in Rows /\ next.automatic = e.automatic /\ next.holds = e.holds
        /\ next.prev = e.prev /\ next.lastReply = e.lastReply
        /\ next.step = IF step < LastStep THEN step + 1 ELSE step
        /\ next.state = IF step < LastStep THEN "waiting" ELSE "completed"
        /\ ~(step < LastStep) => next.token = 0
    <3>1. CASE step < LastStep
      <4> DEFINE g == [e EXCEPT !.state = "waiting", !.step = step + 1, !.due = TRUE,
                                !.token = token, !.stop = "none"]
      <4>1. /\ g \in Rows /\ g.automatic = e.automatic /\ g.holds = e.holds
            /\ g.state = "waiting" /\ g.step = step + 1 /\ g.prev = e.prev
            /\ g.lastReply = e.lastReply
        <5>1. step + 1 \in Nat /\ "waiting" \in Live \cup Terminal
          BY NamedStates
        <5> QED BY <5>1 DEF Rows
      <4>2. next = g
        BY <3>1 DEF Progressed
      <4> HIDE DEF g, next
      <4> QED BY <3>1, <4>1, <4>2
    <3>2. CASE ~(step < LastStep)
      <4> DEFINE h == Unscheduled(e)
                 g == [h EXCEPT !.state = "completed", !.step = step, !.stop = "sequence_complete"]
      <4>1. /\ h \in Rows /\ h.automatic = e.automatic /\ h.holds = e.holds /\ h.token = 0
            /\ h.prev = e.prev /\ h.lastReply = e.lastReply
        BY DueColumns
      <4> HIDE DEF h
      <4>2. /\ g \in Rows /\ g.automatic = e.automatic /\ g.holds = e.holds
            /\ g.state = "completed" /\ g.step = step /\ g.token = 0
            /\ g.prev = e.prev /\ g.lastReply = e.lastReply
        BY <4>1, NamedStates DEF Rows
      <4>3. next = g
        BY <3>2 DEF Progressed, h
      <4> HIDE DEF g, next
      <4> QED BY <3>2, <4>2, <4>3
    <3> QED BY <3>1, <3>2
  <2> HIDE DEF next
  <2>2. CASE e.holds = 0
    <3>1. f = Unclaimed(next)
      BY <1>2, <2>2 DEF Confirmed, next
    <3> HIDE DEF f
    <3>2. /\ f.claim = Nobody /\ f.state = next.state /\ f.step = next.step
          /\ f.token = next.token /\ f.holds = 0 /\ f.prev = e.prev
          /\ f.lastReply = e.lastReply /\ f.automatic = e.automatic
      BY <2>1, <2>2, <3>1, ClaimColumns
    <3>3. ScheduleOK(f)
      BY <2>1, <2>2, <3>2, StateKinds DEF ScheduleOK
    <3>4. Moves(e, f, step)
      BY <2>1, <2>2, <3>2, StateKinds DEF ScheduleOK, Moves
    <3> QED BY <1>2, <3>2, <3>3, <3>4 DEF f
  <2>3. CASE e.holds # 0
    <3> DEFINE h == Unscheduled(next)
               p == IF h.prev.state = "manual_review" THEN h.prev ELSE SnapshotOf(next)
               g == [h EXCEPT !.state = "manual_review", !.stop = "none", !.prev = p]
    <3>1. f = Unclaimed(g)
      BY <1>2, <2>3 DEF Confirmed, next
    <3>2. /\ h \in Rows /\ h.automatic = e.automatic /\ h.holds = e.holds /\ h.token = 0
          /\ h.prev = e.prev /\ h.lastReply = e.lastReply /\ h.step = next.step
      BY <2>1, DueColumns
    <3>3. /\ p \in Snapshots
          /\ p.state \in Terminal \cup {"manual_review"} => p.token = 0
          /\ p.token # 0 => step < LastStep
          /\ p.state = "completed" => ~(step < LastStep)
      <4>1. p \in Snapshots
        BY <2>1, <3>2, RowFields, SnapshotsTyped
      <4> HIDE DEF h
      <4>2. e.prev.state = "manual_review" => e.prev.token = 0
        BY DEF ScheduleOK
      <4> QED BY <2>1, <3>2, <4>1, <4>2, SnapshotColumns, StateKinds
    <3> HIDE DEF h, p
    <3>4. /\ g \in Rows /\ g.automatic = e.automatic /\ g.holds = e.holds
          /\ g.state = "manual_review" /\ g.token = 0 /\ g.prev = p
          /\ g.lastReply = e.lastReply /\ g.step = next.step
      BY <3>2, <3>3, NamedStates DEF Rows, Snapshots
    <3> HIDE DEF g, f
    <3>5. /\ f.claim = Nobody /\ f.state = "manual_review" /\ f.step = next.step
          /\ f.token = 0 /\ f.holds = e.holds /\ f.prev = p
          /\ f.lastReply = e.lastReply /\ f.automatic = e.automatic
      BY <3>1, <3>4, ClaimColumns
    <3>6. ScheduleOK(f)
      BY <2>3, <3>3, <3>5, StateKinds DEF ScheduleOK
    <3>7. Moves(e, f, step)
      BY <2>1, <3>3, <3>5, StateKinds DEF Moves
    <3> QED BY <1>2, <3>5, <3>6, <3>7 DEF f
  <2> QED BY <2>2, <2>3
<1> QED BY <1>1, <1>2

-----------------------------------------------------------------------------
(* The sequence. *)

\* No step beyond the enrollment's was attempted, only the enrollment's may be
\* under way, and what has a schedule, or gets it back, comes after a step that
\* was sent and was not sent itself.
SequenceInv ==
    /\ enrollment.step \in Steps
    /\ \A t \in Steps : message[t] \in Attempted => t <= enrollment.step
    /\ \A t \in Steps : message[t] \in Flight => t = enrollment.step
    /\ enrollment.token # 0 \/ enrollment.prev.token # 0 =>
          /\ enrollment.step > 0 /\ message[enrollment.step - 1] \in {"sent", "none"}
          /\ message[enrollment.step] # "sent"
    /\ (enrollment.state \in Terminal /\ enrollment.prev.token # 0) =>
          message[enrollment.step] \notin Flight

\* A worker that claimed the enrollment.
Going == {"generate", "review", "approve", "send", "sending",
          "release", "reschedule", "handBack", "handBackReview"}

\* Who holds the claim is at the enrollment's step, and the one before was sent.
WorkInv ==
    \A w \in Workers :
        /\ worker[w] \notin {"idle", "down"} => expected[w].step \in Steps
        /\ worker[w] = "found" => expected[w].token # 0
        /\ (worker[w] \in Going /\ enrollment.claim = w) =>
              /\ expected[w].step = enrollment.step /\ enrollment.step > 0
              /\ message[enrollment.step - 1] = "sent"

ScheduleInv == TypeOK /\ ScheduleOK(enrollment) /\ SequenceInv /\ WorkInv

\* A message is written that sends nothing beyond the enrollment's step and
\* undoes nothing that was sent.
Mild ==
    \/ UNCHANGED message
    \/ \E s \in Steps, x \in Statuses :
          /\ message' = [message EXCEPT ![s] = x]
          /\ x # "sent"
          /\ x \in Attempted => s = enrollment.step
          /\ s # enrollment.step => message[s] \notin {"sent", "none"}
          /\ x \in Flight => message[s] \in Flight \/ enrollment'.state \notin Terminal

\* The statuses by what they say.
LEMMA StatusKinds ==
    /\ Attempted = {"sending", "uncertain", "sent", "failed", "released"}
    /\ Flight = {"sending", "uncertain"}
    /\ Statuses = {"none", "proposed", "approved", "cancelled",
                   "sending", "uncertain", "sent", "failed", "released"}
BY DEF Attempted, Flight, Statuses

\* Steps are numbers in a row.
LEMMA StepNumbers ==
    /\ \A s \in Steps : s \in Nat /\ s <= LastStep
    /\ \A n \in Nat : n <= LastStep => n \in Steps
    /\ LastStep \in Nat /\ 0 \in Steps
    /\ \A s \in Steps : s > 0 => s - 1 \in Steps /\ s - 1 # s
    /\ \A s \in Steps : s < LastStep => s + 1 \in Steps /\ s + 1 > 0 /\ s + 1 - 1 = s
BY RowAssumption DEF Steps

\* Where the row stays and the message is mild, the sequence is kept.
LEMMA MildKeeps ==
    ASSUME TypeOK, SequenceInv, Stays(enrollment, enrollment'), Forgets(enrollment, enrollment'), Mild
    PROVE  SequenceInv'
<1>1. /\ enrollment'.step = enrollment.step
      /\ enrollment'.token # 0 \/ enrollment'.prev.token # 0 =>
            enrollment.token # 0 \/ enrollment.prev.token # 0
  BY DEF Stays
<1>2. (enrollment'.state \in Terminal /\ enrollment'.prev.token # 0) =>
          enrollment.state \in Terminal /\ enrollment.prev.token # 0
  BY DEF Forgets
<1>3. CASE UNCHANGED message
  BY <1>1, <1>2, <1>3 DEF SequenceInv
<1>4. CASE ~UNCHANGED message
  <2>1. PICK s \in Steps, x \in Statuses :
          /\ message' = [message EXCEPT ![s] = x]
          /\ x # "sent"
          /\ x \in Attempted => s = enrollment.step
          /\ s # enrollment.step => message[s] \notin {"sent", "none"}
          /\ x \in Flight => message[s] \in Flight \/ enrollment'.state \notin Terminal
    BY <1>4 DEF Mild
  <2>2. message'[s] = x /\ \A t \in Steps \ {s} : message'[t] = message[t]
    BY <2>1 DEF TypeOK
  <2>3. /\ enrollment'.step \in Steps
        /\ \A t \in Steps : message'[t] \in Attempted => t <= enrollment'.step
        /\ \A t \in Steps : message'[t] \in Flight => t = enrollment'.step
    BY <1>1, <2>1, <2>2, StatusKinds, StepNumbers DEF SequenceInv
  <2>4. ASSUME enrollment.token # 0 \/ enrollment.prev.token # 0
        PROVE  /\ enrollment.step > 0 /\ message'[enrollment.step - 1] \in {"sent", "none"}
               /\ message'[enrollment.step] # "sent"
    <3>1. /\ enrollment.step > 0 /\ message[enrollment.step - 1] \in {"sent", "none"}
          /\ message[enrollment.step] # "sent" /\ enrollment.step \in Steps
      BY <2>4 DEF SequenceInv
    <3>2. enrollment.step - 1 \in Steps /\ enrollment.step - 1 # enrollment.step
      BY <3>1, StepNumbers
    <3> QED BY <2>1, <2>2, <3>1, <3>2
  <2>5. (enrollment'.state \in Terminal /\ enrollment'.prev.token # 0) =>
            message'[enrollment.step] \notin Flight
    BY <1>2, <2>1, <2>2, StatusKinds DEF SequenceInv
  <2> QED BY <1>1, <2>3, <2>4, <2>5 DEF SequenceInv
<1> QED BY <1>3, <1>4

\* So is the work, when nobody starts any.
Place ==
    \A w \in Workers :
        /\ worker'[w] \notin {"idle", "down"} =>
              worker[w] \notin {"idle", "down"} /\ expected'[w] = expected[w]
        /\ worker'[w] = "found" => worker[w] = "found"
        /\ worker'[w] \in Going => worker[w] \in Going

LEMMA MildWorks ==
    ASSUME ScheduleInv, Stays(enrollment, enrollment'), Mild, Place
    PROVE  WorkInv'
<1> SUFFICES ASSUME NEW w \in Workers
             PROVE  /\ worker'[w] \notin {"idle", "down"} => expected'[w].step \in Steps
                    /\ worker'[w] = "found" => expected'[w].token # 0
                    /\ (worker'[w] \in Going /\ enrollment'.claim = w) =>
                          /\ expected'[w].step = enrollment'.step /\ enrollment'.step > 0
                          /\ message'[enrollment'.step - 1] = "sent"
  BY DEF WorkInv
<1>1. worker'[w] \notin {"idle", "down"} => expected'[w].step \in Steps
  BY DEF ScheduleInv, WorkInv, Place
<1>2. worker'[w] = "found" => expected'[w].token # 0
  BY DEF ScheduleInv, WorkInv, Place
<1>3. ASSUME worker'[w] \in Going, enrollment'.claim = w
      PROVE  /\ expected'[w].step = enrollment'.step /\ enrollment'.step > 0
             /\ message'[enrollment'.step - 1] = "sent"
  <2>1. worker[w] \in Going /\ enrollment.claim = w /\ expected'[w] = expected[w]
    <3>1. w # Nobody
      BY RowAssumption
    <3>2. worker'[w] \notin {"idle", "down"}
      BY <1>3 DEF Going
    <3> QED BY <1>3, <3>1, <3>2 DEF Stays, Place
  <2>2. /\ expected[w].step = enrollment.step /\ enrollment.step > 0
        /\ message[enrollment.step - 1] = "sent" /\ enrollment.step \in Steps
    BY <2>1 DEF ScheduleInv, WorkInv, SequenceInv
  <2>3. enrollment.step - 1 \in Steps /\ enrollment.step - 1 # enrollment.step
    BY <2>2, StepNumbers
  <2>4. message'[enrollment.step - 1] = message[enrollment.step - 1]
    BY <2>2, <2>3 DEF Mild, ScheduleInv, TypeOK
  <2>5. enrollment'.step = enrollment.step
    BY DEF Stays
  <2> QED BY <2>1, <2>2, <2>4, <2>5
<1> QED BY <1>1, <1>2, <1>3

\* A step that leaves the sequence where it is and starts no work keeps the
\* invariant.
LEMMA StaysKeeps ==
    ASSUME ScheduleInv, TypeOK', ScheduleOK(enrollment'), Stays(enrollment, enrollment'),
           Forgets(enrollment, enrollment'), Mild, Place
    PROVE  ScheduleInv'
<1>1. SequenceInv'
  BY MildKeeps DEF ScheduleInv
<1>2. WorkInv'
  BY MildWorks
<1> QED BY <1>1, <1>2 DEF ScheduleInv

LEMMA SteadyKeeps ==
    ASSUME ScheduleInv, TypeOK', Steady(enrollment, enrollment'), Mild, Place
    PROVE  ScheduleInv'
BY StaysKeeps DEF Steady

-----------------------------------------------------------------------------
(* What each step does to the sequence. *)

\* Writing a message of the enrollment's step, or one that was neither sent nor
\* is missing, is mild.
LEMMA WritingIsMild ==
    ASSUME NEW s \in Steps, NEW x \in Statuses, message' = [message EXCEPT ![s] = x],
           x # "sent", x \in Attempted => s = enrollment.step,
           s = enrollment.step \/ message[s] \notin {"sent", "none"},
           x \in Flight => message[s] \in Flight \/ enrollment'.state \notin Terminal
    PROVE  Mild
BY DEF Mild

\* A worker that goes on from one step of its work to another stays in place.
LEMMA GotoPlace ==
    ASSUME TypeOK, NEW w \in Workers, NEW step, Goto(w, step),
           worker[w] \notin {"idle", "down"}, step # "found",
           step \in Going => worker[w] \in Going
    PROVE  Place
BY DEF Goto, Place, TypeOK

\* So does one that ends.
LEMMA ReturnPlace ==
    ASSUME TypeOK, NEW w \in Workers, NEW as \in {"idle", "down"}, Return(w, as)
    PROVE  Place
BY DEF Return, Place, TypeOK, Going

\* What a worker but the one that claims writes to the row.
LEMMA WorkerRow ==
    ASSUME ScheduleInv, NEW w \in Workers, FollowUp(w), ~ClaimFollowUp(w)
    PROVE  Steady(enrollment, enrollment')
<1> DEFINE e == enrollment
<1>1. e \in Rows /\ ScheduleOK(e) /\ Steady(e, e)
  BY GivingUp DEF ScheduleInv, TypeOK
<1>2. \A x \in {"waiting", "ready_for_review", "approved"} : Steady(e, [e EXCEPT !.state = x])
  BY <1>1, StateSteady
<1>3. CASE InvocationSuppressed(w)
  <2>1. "stopped" \in Ended
    BY DEF Ended
  <2> QED BY <1>1, <1>3, <2>1, EndedBySteady DEF InvocationSuppressed
<1>4. CASE GenerateFollowUp(w)
  <2>1. e' = e \/ e' = [e EXCEPT !.state = "ready_for_review"]
    BY <1>4 DEF GenerateFollowUp, AwaitReview
  <2> QED BY <1>1, <1>2, <2>1
<1>5. CASE ReleaseFollowUpClaim(w)
  BY <1>1, <1>5, GivingUp DEF ReleaseFollowUpClaim
<1>6. CASE ReviewFollowUp(w)
  BY <1>1, <1>2, <1>6 DEF ReviewFollowUp
<1>7. CASE ApproveExisting(w)
  BY <1>1, <1>2, <1>7 DEF ApproveExisting
<1>8. CASE RescheduleFollowUp(w)
  <2>1. e' = e \/ e' = [Unclaimed(e) EXCEPT !.state = "waiting", !.due = TRUE]
    BY <1>8 DEF RescheduleFollowUp
  <2> QED BY <1>1, <2>1, PutOffSteady
<1>9. CASE MarkFollowUpHandedBack(w)
  <2> DEFINE x == IF worker[w] = "handBack" THEN "manual_review" ELSE "ready_for_review"
  <2>1. e' = e \/ e' = [Unclaimed(Unscheduled(e)) EXCEPT !.state = x]
    BY <1>9 DEF MarkFollowUpHandedBack
  <2>2. x \in Live
    BY DEF Live
  <2> QED BY <1>1, <2>1, <2>2, ParkedSteady
<1>10. CASE \/ FindDue(w) \/ InvocationRefused(w) \/ InvocationBlocked(w) \/ GenerationFails(w)
            \/ SendFollowUp(w) \/ SendFollowUpRefused(w) \/ WorkerDies(w)
  BY <1>1, <1>10 DEF FindDue, InvocationRefused, InvocationBlocked, GenerationFails, SendFollowUp,
       Submit, SendFollowUpRefused, WorkerDies
<1> QED BY <1>3, <1>4, <1>5, <1>6, <1>7, <1>8, <1>9, <1>10 DEF FollowUp

\* Whose claim it is, is at the enrollment's step.
LEMMA ClaimsStep ==
    ASSUME ScheduleInv, NEW w \in Workers, worker[w] \in Going
    PROVE  /\ expected[w].step \in Steps
           /\ Claims(w) => expected[w].step = enrollment.step
BY DEF ScheduleInv, WorkInv, Claims, Going

\* What a worker writes to the messages.
LEMMA WorkerMild ==
    ASSUME ScheduleInv, NEW w \in Workers, FollowUp(w) PROVE Mild
<1>0. TypeOK
  BY DEF ScheduleInv
<1>1. CASE GenerateFollowUp(w)
  <2> DEFINE s == expected[w].step
  <2>1. s \in Steps /\ s = enrollment.step /\ message' = [message EXCEPT ![s] = Generated(s)]
    BY <1>1, ClaimsStep DEF GenerateFollowUp, Going
  <2>2. message[s] \in Statuses /\ Generated(s) = IF message[s] = "none" THEN "proposed" ELSE message[s]
    BY <1>0, <2>1 DEF TypeOK, Generated
  <2> HIDE DEF s
  <2>3. CASE message[s] = "none"
    <3>1. Generated(s) = "proposed"
      BY <2>2, <2>3
    <3> QED BY <2>1, <3>1, StatusKinds, WritingIsMild
  <2>4. CASE message[s] # "none"
    <3>1. message' = message
      BY <1>0, <2>1, <2>2, <2>4 DEF TypeOK
    <3> QED BY <3>1 DEF Mild
  <2> QED BY <2>3, <2>4
<1>2. CASE ReviewFollowUp(w)
  <2> DEFINE s == expected[w].step
  <2>1. CASE Reviewable(s) /\ Claims(w)
    <3>1. /\ s \in Steps /\ s = enrollment.step
          /\ message' = [message EXCEPT ![s] = "approved"]
      BY <1>2, <2>1, ClaimsStep DEF ReviewFollowUp, Going
    <3> HIDE DEF s
    <3> QED BY <3>1, StatusKinds, WritingIsMild
  <2>2. CASE ~(Reviewable(s) /\ Claims(w))
    BY <1>2, <2>2 DEF ReviewFollowUp, Mild
  <2> QED BY <2>1, <2>2
<1>3. CASE SendFollowUp(w)
  <2> DEFINE s == expected[w].step
  <2>1. s \in Steps
    BY <1>3, ClaimsStep DEF SendFollowUp, Going
  <2>2. /\ message' = [message EXCEPT ![s] = "sending"] /\ enrollment' = enrollment
        /\ s = enrollment.step /\ enrollment.state = "approved"
    BY <1>3 DEF SendFollowUp, Submit, SendAllowed
  <2> HIDE DEF s
  <2> QED BY <2>1, <2>2, StatusKinds, StateKinds, WritingIsMild
<1>4. CASE WorkerDies(w)
  <2> DEFINE s == enrollment.step
  <2>1. s \in Steps /\ \A t \in Steps : message[t] = "sending" => t = s
    BY StatusKinds DEF ScheduleInv, SequenceInv
  <2>2. message' = [t \in Steps |-> IF worker[w] = "sending" /\ message[t] = "sending"
                                    THEN "uncertain" ELSE message[t]]
    BY <1>4 DEF WorkerDies
  <2> HIDE DEF s
  <2>3. CASE worker[w] = "sending" /\ message[s] = "sending"
    <3>1. message' = [message EXCEPT ![s] = "uncertain"]
      BY <1>0, <2>1, <2>2, <2>3 DEF TypeOK
    <3> QED BY <2>1, <2>3, <3>1, StatusKinds, WritingIsMild DEF s
  <2>4. CASE ~(worker[w] = "sending" /\ message[s] = "sending")
    <3>1. message' = message
      BY <1>0, <2>1, <2>2, <2>4 DEF TypeOK
    <3> QED BY <3>1 DEF Mild
  <2> QED BY <2>3, <2>4
<1>5. \/ GenerateFollowUp(w) \/ ReviewFollowUp(w) \/ SendFollowUp(w) \/ WorkerDies(w)
      \/ UNCHANGED message
  BY DEF FollowUp, FindDue, InvocationRefused, InvocationBlocked, InvocationSuppressed,
     ClaimFollowUp, GenerationFails, ReleaseFollowUpClaim, ApproveExisting,
     SendFollowUpRefused, RescheduleFollowUp, MarkFollowUpHandedBack, mailVars
<1> QED BY <1>1, <1>2, <1>3, <1>4, <1>5 DEF Mild

\* Where a worker goes.
LEMMA WorkerPlace ==
    ASSUME TypeOK, NEW w \in Workers, FollowUp(w), ~ClaimFollowUp(w), ~FindDue(w)
    PROVE  Place
<1>1. CASE InvocationRefused(w) \/ InvocationSuppressed(w) \/ ReleaseFollowUpClaim(w)
           \/ MarkFollowUpHandedBack(w) \/ WorkerDies(w)
  <2>1. Return(w, "idle") \/ Return(w, "down")
    BY <1>1 DEF InvocationRefused, InvocationSuppressed, ReleaseFollowUpClaim,
                MarkFollowUpHandedBack, WorkerDies
  <2> QED BY <2>1, ReturnPlace
<1>2. CASE InvocationBlocked(w)
  <2>1. Goto(w, "blocked") /\ worker[w] = "found"
    BY <1>2 DEF InvocationBlocked
  <2> QED BY <2>1, GotoPlace DEF Going
<1>3. CASE GenerateFollowUp(w) \/ GenerationFails(w) \/ ReviewFollowUp(w) \/ ApproveExisting(w)
           \/ SendFollowUp(w)
  <2>1. \E step : Goto(w, step) /\ step # "found" /\ worker[w] \in {"generate", "review", "approve", "send"}
    BY <1>3 DEF GenerateFollowUp, GenerationFails, ReviewFollowUp, ApproveExisting, SendFollowUp
  <2> QED BY <2>1, GotoPlace DEF Going
<1>4. CASE SendFollowUpRefused(w)
  <2>1. worker[w] = "send"
        /\ (Return(w, "idle") \/ Goto(w, "reschedule") \/ Goto(w, "handBack"))
    BY <1>4 DEF SendFollowUpRefused
  <2> QED BY <2>1, GotoPlace, ReturnPlace DEF Going
<1>5. CASE RescheduleFollowUp(w)
  <2>1. CASE Return(w, "idle")
    BY <2>1, ReturnPlace
  <2>2. CASE ~Return(w, "idle")
    <3>1. PICK over \in SUBSET Workers :
            /\ worker' = [x \in Workers |-> IF x \in over THEN "idle" ELSE worker[x]]
            /\ expected' = [x \in Workers |-> IF x \in over THEN NothingExpected
                                              ELSE expected[x]]
      BY <1>5, <2>2 DEF RescheduleFollowUp
    <3> QED BY <3>1 DEF Place, Going
  <2> QED BY <2>1, <2>2
<1> QED BY <1>1, <1>2, <1>3, <1>4, <1>5 DEF FollowUp

\* An invocation that is found, or claims.
LEMMA FindDueKeeps ==
    ASSUME ScheduleInv, TypeOK', NEW w \in Workers, FindDue(w) PROVE ScheduleInv'
<1>1. UNCHANGED <<enrollment, message>>
  BY DEF FindDue, mailVars
<1>2. /\ worker' = [worker EXCEPT ![w] = "found"]
      /\ expected' = [expected EXCEPT ![w] = [step |-> enrollment.step, token |-> enrollment.token]]
      /\ enrollment.token # 0
  BY DEF FindDue
<1>3. enrollment.step \in Steps
  BY DEF ScheduleInv, SequenceInv
<1>4. WorkInv'
  BY <1>1, <1>2, <1>3 DEF ScheduleInv, WorkInv, TypeOK, Going
<1> QED BY <1>1, <1>4 DEF ScheduleInv, SequenceInv

LEMMA ClaimKeeps ==
    ASSUME ScheduleInv, TypeOK', NEW w \in Workers, ClaimFollowUp(w) PROVE ScheduleInv'
<1> DEFINE e == enrollment
           x == IF e.state = "waiting" THEN "ready_for_review" ELSE e.state
           f == [e EXCEPT !.state = x, !.claim = w, !.lease = TRUE]
<1>1. /\ e' = f /\ InvocationValid(w) /\ worker[w] = "found" /\ UNCHANGED message
      /\ Goto(w, "generate") \/ Goto(w, "handBackReview")
  BY DEF ClaimFollowUp, mailVars
<1>2. /\ e.step > 0 /\ message[e.step - 1] # "none" /\ e.holds = 0
      /\ e.state \in {"waiting", "ready_for_review", "approved"}
      /\ expected[w].step = e.step /\ expected[w].token = e.token
  <2>1. expected[w] = [step |-> e.step, token |-> e.token]
    BY <1>1 DEF InvocationValid
  <2> QED BY <1>1, <2>1 DEF InvocationValid
<1>3. x \in {"ready_for_review", "approved"}
  BY <1>2
<1>4. e \in Rows
  BY DEF ScheduleInv, TypeOK
<1> HIDE DEF x
<1>5. /\ f.claim = w /\ f.state = x /\ f.step = e.step /\ f.token = e.token
      /\ f.holds = e.holds /\ f.prev = e.prev
  BY <1>4 DEF Rows
<1> HIDE DEF f
<1>6. ScheduleOK(e')
  BY <1>1, <1>2, <1>3, <1>5, StateKinds DEF ScheduleInv, ScheduleOK
<1>7. SequenceInv'
  BY <1>1, <1>3, <1>5, StateKinds DEF ScheduleInv, SequenceInv
<1>8. e.token # 0
  BY <1>1, <1>2 DEF ScheduleInv, WorkInv
<1>9. message[e.step - 1] = "sent" /\ e.step \in Steps
  BY <1>2, <1>8 DEF ScheduleInv, SequenceInv
<1>10. WorkInv'
  <2> SUFFICES ASSUME NEW v \in Workers
               PROVE  /\ worker'[v] \notin {"idle", "down"} => expected'[v].step \in Steps
                      /\ worker'[v] = "found" => expected'[v].token # 0
                      /\ (worker'[v] \in Going /\ e'.claim = v) =>
                            /\ expected'[v].step = e'.step /\ e'.step > 0
                            /\ message'[e'.step - 1] = "sent"
    BY DEF WorkInv
  <2>1. expected' = expected /\ (v # w => worker'[v] = worker[v])
        /\ worker'[w] \in {"generate", "handBackReview"}
    BY <1>1 DEF Goto, ScheduleInv, TypeOK
  <2>2. CASE v = w
    BY <1>1, <1>2, <1>5, <1>9, <2>1, <2>2
  <2>3. CASE v # w
    BY <1>1, <1>5, <2>1, <2>3 DEF ScheduleInv, WorkInv
  <2> QED BY <2>2, <2>3
<1> QED BY <1>6, <1>7, <1>10 DEF ScheduleInv

LEMMA FollowUpSchedules ==
    ASSUME ScheduleInv, TypeOK', NEW w \in Workers, FollowUp(w) PROVE ScheduleInv'
<1>1. CASE FindDue(w)
  BY <1>1, FindDueKeeps
<1>2. CASE ClaimFollowUp(w)
  BY <1>2, ClaimKeeps
<1>3. CASE ~FindDue(w) /\ ~ClaimFollowUp(w)
  <2>1. Steady(enrollment, enrollment') /\ Mild
    BY <1>3, WorkerRow, WorkerMild
  <2>2. Place
    BY <1>3, WorkerPlace DEF ScheduleInv
  <2> QED BY <2>1, <2>2, SteadyKeeps
<1> QED BY <1>1, <1>2, <1>3

\* Without a claim there is no work to keep.
LEMMA UnclaimedWorks ==
    ASSUME ScheduleInv, enrollment'.claim = Nobody, Place PROVE WorkInv'
<1>1. \A w \in Workers : w # Nobody
  BY RowAssumption
<1> QED BY <1>1 DEF ScheduleInv, WorkInv, Place

\* The first message turns out dead under a row that stays.
LEMMA DeathKeeps ==
    ASSUME ScheduleInv, TypeOK', ScheduleOK(enrollment'), Stays(enrollment, enrollment'),
           Forgets(enrollment, enrollment'), enrollment'.claim = Nobody, Place,
           message' = [message EXCEPT ![0] = "none"]
    PROVE  ScheduleInv'
<1>1. /\ message'[0] = "none" /\ \A t \in Steps \ {0} : message'[t] = message[t]
  BY StepNumbers DEF ScheduleInv, TypeOK
<1>2. /\ enrollment'.step = enrollment.step /\ enrollment.step \in Steps
      /\ enrollment'.token # 0 \/ enrollment'.prev.token # 0 =>
            enrollment.token # 0 \/ enrollment.prev.token # 0
  BY DEF Stays, ScheduleInv, SequenceInv
<1>3. (enrollment'.state \in Terminal /\ enrollment'.prev.token # 0) =>
          enrollment.state \in Terminal /\ enrollment.prev.token # 0
  BY DEF Forgets
<1>4. /\ \A t \in Steps : message'[t] \in Attempted => t <= enrollment'.step
      /\ \A t \in Steps : message'[t] \in Flight => t = enrollment'.step
  BY <1>1, <1>2, StatusKinds DEF ScheduleInv, SequenceInv
<1>5. ASSUME enrollment.token # 0 \/ enrollment.prev.token # 0
      PROVE  /\ enrollment.step > 0 /\ message'[enrollment.step - 1] \in {"sent", "none"}
             /\ message'[enrollment.step] # "sent"
  <2>1. /\ enrollment.step > 0 /\ message[enrollment.step - 1] \in {"sent", "none"}
        /\ message[enrollment.step] # "sent"
    BY <1>5 DEF ScheduleInv, SequenceInv
  <2>2. enrollment.step - 1 \in Steps
    BY <1>2, <2>1, StepNumbers
  <2> QED BY <1>1, <1>2, <2>1, <2>2
<1>6. (enrollment'.state \in Terminal /\ enrollment'.prev.token # 0) =>
          message'[enrollment.step] \notin Flight
  BY <1>1, <1>2, <1>3, StatusKinds DEF ScheduleInv, SequenceInv
<1>7. SequenceInv'
  BY <1>2, <1>4, <1>5, <1>6 DEF SequenceInv
<1> QED BY <1>7, UnclaimedWorks DEF ScheduleInv

\* A sequence that has nothing outstanding is taken back to the dead step.
LEMMA ParkingKeeps ==
    ASSUME ScheduleInv, TypeOK', NEW s \in Steps, Parked(enrollment, enrollment', s),
           ~OutstandingBeside(s), message' = [message EXCEPT ![s] = "none"], Place
    PROVE  ScheduleInv'
<1>1. /\ message'[s] = "none" /\ \A t \in Steps \ {s} : message'[t] = message[t]
  BY DEF ScheduleInv, TypeOK
<1>2. \A t \in Steps : message'[t] \notin Attempted
  BY <1>1, StatusKinds DEF OutstandingBeside
<1>3. SequenceInv'
  BY <1>2, StatusKinds DEF Parked, SequenceInv
<1>4. WorkInv'
  BY UnclaimedWorks DEF Parked
<1> QED BY <1>3, <1>4, ParkedOK DEF ScheduleInv

\* A confirmation.
LEMMA FinalizeSchedules ==
    ASSUME ScheduleInv, TypeOK', NEW s \in Steps, FinalizeSent(s), message[s] \in Flight, Place
    PROVE  ScheduleInv'
<1> DEFINE e == enrollment
<1>1. /\ e \in Rows /\ ScheduleOK(e) /\ e.step = s /\ s \in Nat /\ minted + 1 \in Nat
      /\ message' = [message EXCEPT ![s] = "sent"] /\ e' = Confirmed(e, s, minted + 1)
  BY StepNumbers DEF ScheduleInv, SequenceInv, TypeOK, FinalizeSent
<1>2. /\ ScheduleOK(e') /\ e'.claim = Nobody
      /\ e.state \in Terminal => Steady(e, e') /\ e'.state = e.state
      /\ e.state \notin Terminal => Moves(e, e', s)
  BY <1>1, ConfirmedMoves
<1>3. /\ message'[s] = "sent" /\ \A t \in Steps \ {s} : message'[t] = message[t]
  BY <1>1 DEF ScheduleInv, TypeOK
<1>4. WorkInv'
  BY <1>2, UnclaimedWorks
<1>5. \A t \in Steps : message'[t] \notin Flight
  BY <1>1, <1>3, StatusKinds DEF ScheduleInv, SequenceInv
<1>6. \A t \in Steps : message'[t] \in Attempted => t <= s
  BY <1>1, <1>3, StepNumbers DEF ScheduleInv, SequenceInv
<1>7. SequenceInv'
  <2>1. CASE e.state \in Terminal
    <3>1. e.token = 0 /\ e.prev.token = 0
      BY <1>1, <2>1 DEF ScheduleInv, SequenceInv, ScheduleOK
    <3>2. e'.token = 0 /\ e'.prev.token = 0 /\ e'.step = s
      BY <1>1, <1>2, <2>1, <3>1 DEF Steady, Stays
    <3> QED BY <1>5, <1>6, <3>2 DEF SequenceInv
  <2>2. CASE e.state \notin Terminal
    <3>1. /\ e'.step = IF s < LastStep THEN s + 1 ELSE s
          /\ e'.token # 0 \/ e'.prev.token # 0 => s < LastStep
      BY <1>2, <2>2 DEF Moves
    <3>2. e'.step \in Steps /\ \A t \in Steps : message'[t] \in Attempted => t <= e'.step
      BY <1>6, <3>1, StepNumbers
    <3>3. ASSUME s < LastStep
          PROVE  /\ e'.step > 0 /\ message'[e'.step - 1] \in {"sent", "none"}
                 /\ message'[e'.step] # "sent"
      <4>1. e'.step \in Steps /\ e'.step = s + 1 /\ e'.step - 1 = s /\ e'.step > s /\ e'.step > 0
        BY <3>1, <3>3, StepNumbers
      <4>2. message'[e'.step] \notin Attempted
        BY <1>1, <1>6, <4>1, StepNumbers
      <4> QED BY <1>3, <4>1, <4>2, StatusKinds
    <3> QED BY <1>5, <3>1, <3>2, <3>3 DEF SequenceInv
  <2> QED BY <2>1, <2>2
<1> QED BY <1>2, <1>4, <1>7 DEF ScheduleInv

\* A refusal, by the server or by a report about the address.
LEMMA RefusalSchedules ==
    ASSUME ScheduleInv, TypeOK', NEW s \in Steps, MarkPermanentlyRejected(s),
           message[s] \in Flight, Place
    PROVE  ScheduleInv'
<1> DEFINE e == enrollment
<1>1. /\ e \in Rows /\ ScheduleOK(e) /\ e.step = s /\ s \in Nat
  BY StepNumbers DEF ScheduleInv, SequenceInv, TypeOK
<1>2. ASSUME NEW b \in BOOLEAN, NEW x \in {"failed", "none"},
             e' = Rejected(e, b), message' = [message EXCEPT ![s] = x]
      PROVE  ScheduleInv'
  <2>1. /\ ScheduleOK(e') /\ Stays(e, e') /\ e'.claim = Nobody
    BY <1>1, <1>2, RejectedSteady
  <2>2. /\ message'[s] = x /\ \A t \in Steps \ {s} : message'[t] = message[t]
    BY <1>2 DEF ScheduleInv, TypeOK
  <2>3. e'.step = s /\ (e'.token # 0 \/ e'.prev.token # 0 => e.token # 0 \/ e.prev.token # 0)
    BY <1>1, <2>1 DEF Stays
  <2>4. \A t \in Steps : message'[t] \notin Flight /\ (message'[t] \in Attempted => t <= s)
    BY <1>1, <2>2, StatusKinds, StepNumbers DEF ScheduleInv, SequenceInv
  <2>5. ASSUME e.token # 0 \/ e.prev.token # 0
        PROVE  s > 0 /\ message'[s - 1] \in {"sent", "none"} /\ message'[s] # "sent"
    <3>1. s > 0 /\ message[s - 1] \in {"sent", "none"}
      BY <1>1, <2>5 DEF ScheduleInv, SequenceInv
    <3>2. s - 1 \in Steps /\ s - 1 # s
      BY <3>1, StepNumbers
    <3> QED BY <2>2, <3>1, <3>2
  <2>6. SequenceInv'
    BY <2>3, <2>4, <2>5 DEF SequenceInv
  <2> QED BY <2>1, <2>6, UnclaimedWorks DEF ScheduleInv
<1>3. CASE /\ message' = [message EXCEPT ![s] = "failed"]
           /\ e' = Rejected(e, FALSE)
  BY <1>2, <1>3
<1>4. CASE /\ message' = [message EXCEPT ![s] = "none"]
           /\ \E verdict \in LadderVerdicts(e, s, FALSE, OutstandingBeside(s)) :
                e' = IF verdict.owns THEN verdict.row ELSE Rejected(e, TRUE)
  <2>1. PICK verdict \in LadderVerdicts(e, s, FALSE, OutstandingBeside(s)) :
          e' = IF verdict.owns THEN verdict.row ELSE Rejected(e, TRUE)
    BY <1>4
  <2>2. CASE ~verdict.owns
    BY <1>2, <1>4, <2>1, <2>2
  <2>3. CASE verdict.owns /\ verdict.row = e /\ e.state = "completed"
    <3>1. Steady(e, e') /\ Mild
      <4>1. e' = e
        BY <2>1, <2>3
      <4>2. "none" \in Statuses /\ "none" \notin Attempted /\ "none" \notin Flight
        BY StatusKinds
      <4> QED BY <1>1, <1>4, <4>1, <4>2, GivingUp, WritingIsMild
    <3> QED BY <3>1, SteadyKeeps
  <2>4. CASE verdict.owns /\ verdict.row = Readdressed(e, s) /\ ~OutstandingBeside(s)
    <3>1. Parked(e, e', s)
      BY <1>1, <2>1, <2>4, ReaddressedParks
    <3> QED BY <1>4, <2>4, <3>1, ParkingKeeps
  <2> QED BY <2>1, <2>2, <2>3, <2>4, VerdictsAre
<1> QED BY <1>3, <1>4 DEF MarkPermanentlyRejected

\* Nobody's place changes when the workers are left alone, or learn how their
\* send went.
LEMMA StillPlace == ASSUME UNCHANGED followUpVars PROVE Place
BY DEF followUpVars, Place

LEMMA SendersPlace ==
    ASSUME TypeOK, NEW step \in {"idle", "handBack"}, Senders(step) PROVE Place
BY DEF Senders, Place, TypeOK, Going

\* Whatever becomes of a send.
LEMMA SendSchedules ==
    ASSUME ScheduleInv, TypeOK', NEW s \in Steps, Send(s) PROVE ScheduleInv'
<1>0. TypeOK /\ Steady(enrollment, enrollment)
  BY GivingUp DEF ScheduleInv, TypeOK
<1>1. CASE OperatorSends(s)
  <2>1. /\ message' = [message EXCEPT ![s] = "sending"] /\ enrollment' = enrollment
        /\ s = enrollment.step /\ enrollment.state = "approved" /\ UNCHANGED followUpVars
    BY <1>1 DEF OperatorSends, Submit, SendAllowed
  <2>2. Mild
    BY <2>1, StatusKinds, StateKinds, WritingIsMild
  <2> QED BY <1>0, <2>1, <2>2, StillPlace, SteadyKeeps
<1>2. CASE SettleSent(s)
  <2>1. message[s] \in Flight /\ FinalizeSent(s) /\ Senders("idle")
    BY <1>2 DEF SettleSent, Flight
  <2> QED BY <1>0, <2>1, SendersPlace, FinalizeSchedules
<1>3. CASE SettleRefused(s)
  <2>1. message[s] \in Flight /\ MarkPermanentlyRejected(s) /\ Senders("handBack")
    BY <1>3 DEF SettleRefused, Flight
  <2> QED BY <1>0, <2>1, SendersPlace, RefusalSchedules
<1>4. CASE SettleUnconfirmed(s)
  <2>1. /\ message[s] \in Flight /\ message' = [message EXCEPT ![s] = "uncertain"]
        /\ enrollment' = enrollment /\ Senders("handBack")
    BY <1>4 DEF SettleUnconfirmed, Flight
  <2>2. s = enrollment.step
    BY <2>1 DEF ScheduleInv, SequenceInv
  <2>3. Mild
    BY <2>1, <2>2, StatusKinds, WritingIsMild
  <2>4. Place
    BY <1>0, <2>1, SendersPlace
  <2> QED BY <1>0, <2>1, <2>3, <2>4, SteadyKeeps
<1>5. CASE ConfirmLate(s)
  <2>1. message[s] \in Flight /\ FinalizeSent(s) /\ UNCHANGED followUpVars
    BY <1>5 DEF ConfirmLate, Flight
  <2> QED BY <2>1, StillPlace, FinalizeSchedules
<1>6. CASE RefuseLate(s)
  <2>1. message[s] \in Flight /\ MarkPermanentlyRejected(s) /\ UNCHANGED followUpVars
    BY <1>6 DEF RefuseLate, Flight
  <2> QED BY <2>1, StillPlace, RefusalSchedules
<1>7. CASE ReleaseUncertain(s)
  <2>1. /\ message[s] \in Flight /\ message' = [message EXCEPT ![s] = "released"]
        /\ enrollment' = enrollment /\ UNCHANGED followUpVars
    BY <1>7 DEF ReleaseUncertain, Flight
  <2>2. s = enrollment.step
    BY <2>1 DEF ScheduleInv, SequenceInv
  <2>3. Mild
    BY <2>1, <2>2, StatusKinds, WritingIsMild
  <2> QED BY <1>0, <2>1, <2>3, StillPlace, SteadyKeeps
<1> QED BY <1>1, <1>2, <1>3, <1>4, <1>5, <1>6, <1>7 DEF Send, Settle

\* What the operator, the clock and the confirmation of a dead message write
\* to the row.
LEMMA OperatorSteady ==
    ASSUME ScheduleInv, Operator \/ ConfirmDead \/ LeaseExpires
    PROVE  Steady(enrollment, enrollment')
<1> DEFINE e == enrollment
<1>0. e \in Rows /\ ScheduleOK(e) /\ Steady(e, e)
  BY GivingUp DEF ScheduleInv, TypeOK
<1>1. CASE Generate
  <2>1. e' = e \/ e' = [e EXCEPT !.state = "ready_for_review"]
    BY <1>1 DEF Generate, AwaitReview
  <2> QED BY <1>0, <2>1, StateSteady
<1>2. ASSUME NEW s \in Steps, Approve(s) PROVE Steady(e, e')
  BY <1>0, <1>2, StateSteady DEF Approve
<1>3. CASE Stop \/ \E s \in Steps : RejectProposal(s)
  <2>1. \E why : e' = EndedBy(e, "stopped", why)
    BY <1>3 DEF Stop, RejectProposal
  <2>2. "stopped" \in Ended
    BY DEF Ended
  <2> QED BY <1>0, <2>1, <2>2, EndedBySteady
<1>4. CASE ConfirmDead
  BY <1>0, <1>4, GivingUp DEF ConfirmDead
<1>5. CASE LeaseExpires
  <2> DEFINE f == [e EXCEPT !.lease = FALSE]
  <2>1. e' = f
    BY <1>5 DEF LeaseExpires
  <2>2. /\ f.claim = e.claim /\ f.state = e.state /\ f.step = e.step /\ f.token = e.token
        /\ f.holds = e.holds /\ f.prev = e.prev /\ f.lastReply = e.lastReply
        /\ f.automatic = e.automatic
    BY <1>0 DEF Rows
  <2> HIDE DEF f
  <2> QED BY <1>0, <2>1, <2>2 DEF Steady, ScheduleOK, Stays, Forgets
<1> QED BY <1>1, <1>2, <1>3, <1>4, <1>5 DEF Operator

\* The operator, the clock, and the confirmation of a dead message.
LEMMA OperatorSchedules ==
    ASSUME ScheduleInv, TypeOK', Operator \/ ConfirmDead \/ LeaseExpires PROVE ScheduleInv'
<1> DEFINE e == enrollment
<1>0. /\ TypeOK /\ e \in Rows /\ ScheduleOK(e) /\ Steady(e, e) /\ e.step \in Steps
  BY GivingUp DEF ScheduleInv, SequenceInv, TypeOK
<1>1. UNCHANGED followUpVars
  BY DEF Operator, Generate, Approve, RejectProposal, Stop, ConfirmDead, LeaseExpires
<1>2. Steady(e, e')
  BY OperatorSteady
<1>3. Mild
  <2>1. CASE Generate
    <3>1. message' = [message EXCEPT ![e.step] = "proposed"]
      BY <2>1 DEF Generate
    <3> QED BY <1>0, <3>1, StatusKinds, WritingIsMild
  <2>2. ASSUME NEW s \in Steps, Approve(s) \/ RejectProposal(s) PROVE Mild
    <3>1. \E x \in {"approved", "cancelled"} : message' = [message EXCEPT ![s] = x]
      BY <2>2 DEF Approve, RejectProposal
    <3>2. message[s] = "proposed"
      BY <2>2 DEF Approve, RejectProposal, Reviewable
    <3> QED BY <3>1, <3>2, StatusKinds, WritingIsMild
  <2>3. CASE Stop \/ ConfirmDead \/ LeaseExpires
    BY <2>3 DEF Stop, ConfirmDead, LeaseExpires, mailVars, Mild
  <2> QED BY <2>1, <2>2, <2>3 DEF Operator
<1> QED BY <1>1, <1>2, <1>3, StillPlace, SteadyKeeps

\* The last transaction of an ingestion.
LEMMA ConcludeSchedules ==
    ASSUME ScheduleInv, TypeOK', NEW category, NEW held \in BOOLEAN,
           Conclude(category, held), UNCHANGED followUpVars
    PROVE  ScheduleInv'
<1> DEFINE e == enrollment
<1>0. e \in Rows /\ ScheduleOK(e) /\ Place /\ 0 \in Steps /\ 0 \in Nat
  BY StillPlace, StepNumbers DEF ScheduleInv, TypeOK
<1>1. LET f == Answered(e, category, held) IN
      /\ ScheduleOK(f) /\ Stays(e, f) /\ Forgets(e, f)
      /\ category = "hard" => f.claim = Nobody
  BY <1>0, AnsweredSteady DEF EndsSequence
<1>2. CASE category # "hard"
  <2>1. e' = Answered(e, category, held) /\ Mild
    BY <1>2 DEF Conclude, Mild
  <2> QED BY <1>0, <1>1, <2>1, StaysKeeps
<1>3. CASE category = "hard"
  <2>1. PICK verdict \in LadderVerdicts(e, 0, Dead, OutstandingBeside(0)) :
          e' = IF ~verdict.owns THEN Answered(e, category, held)
               ELSE IF held
                    THEN [verdict.row EXCEPT
                            !.holds = Fewer(@),
                            !.prev = IF Fewer(e.holds) = 0 THEN NoSnapshot ELSE @]
                    ELSE verdict.row
    BY <1>3 DEF Conclude
  <2>2. message' = IF Dead THEN message ELSE [message EXCEPT ![0] = "none"]
    BY <1>3 DEF Conclude
  <2>3. ASSUME ScheduleOK(e'), Stays(e, e'), Forgets(e, e'), e'.claim = Nobody \/ Dead
        PROVE  ScheduleInv'
    <3>1. CASE Dead
      <4>1. Mild
        BY <2>2, <3>1 DEF Mild
      <4> QED BY <1>0, <2>3, <4>1, StaysKeeps
    <3>2. CASE ~Dead
      BY <1>0, <2>2, <2>3, <3>2, DeathKeeps
    <3> QED BY <3>1, <3>2
  <2>4. CASE ~verdict.owns
    BY <1>1, <1>3, <2>1, <2>3, <2>4
  <2>5. CASE verdict.owns
    <3> DEFINE row == verdict.row
    <3>1. e' = Taken(e, row, held)
      BY <2>1, <2>5 DEF Taken
    <3>2. \/ row = e /\ (Dead \/ e.state = "completed")
          \/ row = Readdressed(e, 0) /\ ~Dead /\ ~OutstandingBeside(0)
      BY <2>5, VerdictsAre
    <3> HIDE DEF row
    <3>3. CASE row = e /\ (Dead \/ e.state = "completed")
      <4>1. /\ ScheduleOK(e') /\ Stays(e, e') /\ Forgets(e, e') /\ e'.claim = e.claim
        BY <1>0, <3>1, <3>3, VerdictSteady
      <4>2. e.state = "completed" => e.claim = Nobody
        BY <1>0, StateKinds DEF ScheduleOK
      <4> QED BY <2>3, <3>3, <4>1, <4>2
    <3>4. CASE row = Readdressed(e, 0) /\ ~Dead /\ ~OutstandingBeside(0)
      <4>1. row \in Rows /\ Parked(e, row, 0) /\ row.holds = e.holds
        BY <1>0, <3>4, ReaddressedParks
      <4>2. ScheduleOK(row)
        BY <4>1, ParkedOK
      <4>3. Parked(e, e', 0)
        BY <1>0, <3>1, <4>1, <4>2, VerdictSteady
      <4> QED BY <1>0, <2>2, <3>4, <4>3, ParkingKeeps
    <3> QED BY <3>2, <3>3, <3>4
  <2> QED BY <2>4, <2>5
<1> QED BY <1>2, <1>3

\* An ingestion.
LEMMA IngestSchedules ==
    ASSUME ScheduleInv, TypeOK', NEW i \in Ingesters, Ingest(i) PROVE ScheduleInv'
<1>0. TypeOK /\ enrollment \in Rows /\ ScheduleOK(enrollment) /\ Steady(enrollment, enrollment)
  BY GivingUp DEF ScheduleInv, TypeOK
<1>1. ASSUME NEW r \in Records, NEW row, StageRow(i, r, row) PROVE ScheduleInv'
  <2>1. /\ UNCHANGED message /\ UNCHANGED followUpVars
        /\ \/ enrollment' = enrollment
           \/ enrollment.state \notin Terminal /\ enrollment' = Hold(enrollment)
    BY <1>1 DEF StageRow, mailVars
  <2>2. Steady(enrollment, enrollment') /\ Mild
    BY <1>0, <2>1, HoldSteady DEF Mild
  <2> QED BY <2>1, <2>2, StillPlace, SteadyKeeps
<1>2. ASSUME NEW r \in Records, Receive(i, r) \/ Redeliver(i, r) \/ Sweep(i, r)
      PROVE  ScheduleInv'
  BY <1>1, <1>2 DEF Receive, Redeliver, Sweep
<1>3. CASE Finish(i)
  <2>1. job[i].held \in BOOLEAN
    BY <1>0 DEF TypeOK, Jobs
  <2> QED BY <1>3, <2>1, ConcludeSchedules DEF Finish
<1>4. CASE Classify(i) \/ ClassifierFails(i) \/ FinishFenced(i) \/ IngesterDies(i)
  <2>1. enrollment' = enrollment /\ Mild /\ UNCHANGED followUpVars
    BY <1>4 DEF Classify, ClassifierFails, FinishFenced, IngesterDies, mailVars, Mild
  <2> QED BY <1>0, <2>1, StillPlace, SteadyKeeps
<1> QED BY <1>2, <1>3, <1>4 DEF Ingest, IngestStep

\* The invariant holds at the start, and every step keeps it.
LEMMA InitSchedules == Init => ScheduleInv
<1> SUFFICES ASSUME Init PROVE ScheduleInv
  OBVIOUS
<1>1. TypeOK
  BY InitTyped
<1>2. /\ enrollment.state = "approved" /\ enrollment.step = 0 /\ enrollment.token = 0
      /\ enrollment.prev = NoSnapshot /\ enrollment.claim = Nobody /\ enrollment.holds = 0
  BY DEF Init
<1>3. ScheduleOK(enrollment)
  BY <1>2, StateKinds, SnapshotColumns DEF ScheduleOK
<1>4. \A s \in Steps : message[s] = IF s = 0 THEN "uncertain" ELSE "none"
  BY DEF Init
<1>5. SequenceInv
  BY <1>2, <1>4, StateKinds, StatusKinds, SnapshotColumns, StepNumbers DEF SequenceInv
<1>6. WorkInv
  BY DEF Init, WorkInv, Going
<1> QED BY <1>1, <1>3, <1>5, <1>6 DEF ScheduleInv

LEMMA NextSchedules == ScheduleInv /\ [Next]_vars => ScheduleInv'
<1> SUFFICES ASSUME ScheduleInv, [Next]_vars PROVE ScheduleInv'
  OBVIOUS
<1>1. TypeOK'
  BY NextTyped DEF ScheduleInv
<1>2. CASE UNCHANGED vars
  BY <1>2 DEF vars, ScheduleInv, TypeOK, SequenceInv, WorkInv
<1>3. ASSUME NEW r \in Records, RecordClaimAges(r) PROVE ScheduleInv'
  <2>1. UNCHANGED <<enrollment, mailVars, followUpVars>>
    BY <1>3 DEF RecordClaimAges
  <2> QED BY <1>1, <2>1 DEF mailVars, followUpVars, ScheduleInv, SequenceInv, WorkInv
<1> QED BY <1>1, <1>2, <1>3, IngestSchedules, FollowUpSchedules, SendSchedules, OperatorSchedules
    DEF Next

\* No schedule an enrollment has, or is given back, is that of a step that was
\* sent, in any campaign.
THEOREM SentStepsAreNeverDue == Spec => []NoScheduleForSentStep
<1>1. ScheduleInv => NoScheduleForSentStep
  BY DEF ScheduleInv, SequenceInv, NoScheduleForSentStep
<1> QED BY <1>1, InitSchedules, NextSchedules, PTL DEF Spec

\* What a worker sends follows a confirmed message to a live address and is of
\* the enrollment's step, whatever claims expired, were taken over or withdrawn
\* and whatever was re-addressed on the way.
THEOREM WorkersSendTheNext == Spec => WorkerSendsNext
<1>1. ScheduleInv /\ [Next]_vars =>
        [\A w \in Workers : WorkerSubmits(w) =>
            /\ expected[w].step = enrollment.step
            /\ message[enrollment.step - 1] = "sent"
            /\ enrollment.state \notin Ended]_vars
  <2> SUFFICES ASSUME ScheduleInv, Next, NEW w \in Workers, WorkerSubmits(w)
               PROVE  /\ expected[w].step = enrollment.step
                      /\ message[enrollment.step - 1] = "sent"
                      /\ enrollment.state \notin Ended
    OBVIOUS
  <2>1. SendFollowUp(w)
    <3>0. worker[w] = "send" /\ worker'[w] = "sending" /\ TypeOK
      BY DEF WorkerSubmits, ScheduleInv
    <3>1. worker' # worker
      BY <3>0
    <3>2. ASSUME NEW x \in Workers, FollowUp(x) PROVE SendFollowUp(w)
      BY <3>0, <3>2 DEF FollowUp, FindDue, InvocationRefused, InvocationBlocked,
         InvocationSuppressed, ClaimFollowUp, GenerateFollowUp, GenerationFails,
         ReleaseFollowUpClaim, ReviewFollowUp, ApproveExisting, SendFollowUp,
         SendFollowUpRefused, RescheduleFollowUp, MarkFollowUpHandedBack, WorkerDies,
         Goto, Return, TypeOK
    <3>3. ASSUME NEW s \in Steps, Send(s) PROVE FALSE
      BY <3>0, <3>1, <3>3 DEF Send, Settle, OperatorSends, SettleSent, SettleRefused,
         SettleUnconfirmed, ConfirmLate, RefuseLate, ReleaseUncertain, Senders, followUpVars
    <3>4. ASSUME NEW i \in Ingesters, Ingest(i) PROVE UNCHANGED worker
      BY <3>4 DEF Ingest, IngestStep, Receive, Redeliver, Sweep, StageRow, Classify,
         ClassifierFails, Finish, FinishFenced, IngesterDies, followUpVars
    <3>5. (\E r \in Records : RecordClaimAges(r)) \/ ConfirmDead \/ LeaseExpires \/ Operator
          => UNCHANGED worker
      BY DEF RecordClaimAges, ConfirmDead, LeaseExpires, Operator, Generate, Approve,
         RejectProposal, Stop, followUpVars
    <3> QED BY <3>1, <3>2, <3>3, <3>4, <3>5 DEF Next
  <2>2. Claims(w) /\ enrollment.state = "approved" /\ worker[w] \in Going
    BY <2>1 DEF SendFollowUp, Submit, SendAllowed, Going
  <2> QED BY <2>2, StateKinds DEF ScheduleInv, WorkInv, Claims
<1> QED BY <1>1, InitSchedules, NextSchedules, PTL DEF Spec, WorkerSendsNext

-----------------------------------------------------------------------------
(* What came in, and what the row remembers of it. *)

\* Only what was processed has a category, and a call that is about to finish
\* has one to give.
Settled ==
    /\ \A r \in Records : record[r].category # "none" => record[r].status = "processed"
    /\ \A i \in Ingesters : ingester[i] = "finish" => job[i].category \in Categories

\* The call's record gets its category, and no other does.
Settles(i) ==
    /\ Finish(i) /\ job[i].record \in Records /\ job[i].category \in Categories
    /\ record[job[i].record].category = "none"
    /\ record'[job[i].record].category = job[i].category
    /\ \A q \in Records \ {job[i].record} : record'[q].category = record[q].category

NoNews == \A r \in Records : record'[r].category = record[r].category

\* The categories by what they say.
LEMMA CategoryKinds ==
    Categories = {"terminal", "neutral", "delayed", "soft", "hard"} /\ "none" \notin Categories
BY DEF Categories

LEMMA StageNews ==
    ASSUME TypeOK, Settled, NEW i \in Ingesters, NEW r \in Records,
           Receive(i, r) \/ Redeliver(i, r) \/ Sweep(i, r)
    PROVE  NoNews /\ Settled'
<1>1. PICK row \in RecordRows : StageRow(i, r, row) /\ row.category = "none"
                                /\ record[r].category = "none"
  <2>1. CASE Receive(i, r)
    <3>1. PICK kind \in Kinds : StageRow(i, r, [NoRecord EXCEPT !.kind = kind])
      BY <2>1 DEF Receive
    <3>2. [NoRecord EXCEPT !.kind = kind] \in RecordRows
          /\ [NoRecord EXCEPT !.kind = kind].category = "none"
      BY DEF NoRecord, RecordRows
    <3> QED BY <2>1, <3>1, <3>2 DEF Receive, Settled
  <2>2. CASE Redeliver(i, r) \/ Sweep(i, r)
    <3>1. StageRow(i, r, record[r]) /\ record[r].status \in {"processing", "failed"}
      BY <2>2 DEF Redeliver, Sweep, Claimable
    <3> QED BY <3>1 DEF Settled, TypeOK
  <2> QED BY <2>1, <2>2
<1> DEFINE held == row.hold \/ (~row.hold /\ enrollment.state \notin Terminal)
           staged == [row EXCEPT !.status = "processing", !.owner = i,
                                 !.fresh = TRUE, !.hold = held]
<1>2. /\ record' = [record EXCEPT ![r] = staged]
      /\ ingester' = [ingester EXCEPT ![i] = "classify"]
      /\ \E x : job' = [job EXCEPT ![i] = x]
  BY <1>1 DEF StageRow
<1>3. staged.category = "none"
  BY <1>1 DEF RecordRows
<1> HIDE DEF staged
<1>4. NoNews
  BY <1>1, <1>2, <1>3 DEF NoNews, TypeOK
<1>5. Settled'
  BY <1>1, <1>2, <1>3 DEF Settled, TypeOK
<1> QED BY <1>4, <1>5

LEMMA NextNews ==
    ASSUME TypeOK, Owners, Settled, Next
    PROVE  /\ Settled'
           /\ (\E i \in Ingesters : Settles(i))
              \/ (NoNews /\ ~\E i \in Ingesters : Finish(i))
<1>1. CASE UNCHANGED inboundVars
  <2>1. ASSUME NEW i \in Ingesters, Finish(i) PROVE FALSE
    BY <1>1, <2>1 DEF Finish, EndCall, inboundVars, TypeOK
  <2> QED BY <1>1, <2>1 DEF inboundVars, Settled, NoNews
<1>2. ASSUME NEW i \in Ingesters, NEW r \in Records,
             Receive(i, r) \/ Redeliver(i, r) \/ Sweep(i, r)
      PROVE  /\ Settled' /\ NoNews
             /\ \A k \in Ingesters : ~Finish(k)
  <2>1. ingester'[i] = "classify" /\ ingester[i] = "idle"
    BY <1>2 DEF Receive, Redeliver, Sweep, StageRow, TypeOK
  <2>2. ASSUME NEW k \in Ingesters, Finish(k) PROVE FALSE
    <3>1. ingester' = [ingester EXCEPT ![k] = "idle"] /\ ingester[k] = "finish"
      BY <2>2 DEF Finish, EndCall
    <3> QED BY <2>1, <3>1 DEF TypeOK
  <2> QED BY <1>2, <2>2, StageNews
<1>3. ASSUME NEW i \in Ingesters, Classify(i)
      PROVE  Settled' /\ NoNews /\ \A k \in Ingesters : ~Finish(k)
  <2>1. PICK category \in Categories :
          /\ job' = [job EXCEPT ![i].category = category]
          /\ ingester' = [ingester EXCEPT ![i] = "finish"]
          /\ ingester[i] = "classify" /\ record' = record
    <3>1. record[job[i].record].kind \in Kinds
      BY <1>3 DEF Classify, TypeOK, RecordRows
    <3> QED BY <1>3, <3>1 DEF Classify, Kinds, Categories
  <2>2. job'[i].category = category /\ \A k \in Ingesters \ {i} : job'[k] = job[k]
    BY <2>1 DEF TypeOK, Jobs
  <2>3. Settled'
    BY <2>1, <2>2 DEF Settled, TypeOK
  <2>4. ASSUME NEW k \in Ingesters, Finish(k) PROVE FALSE
    <3>1. ingester' = [ingester EXCEPT ![k] = "idle"] /\ ingester[k] = "finish"
      BY <2>4 DEF Finish, EndCall
    <3> QED BY <2>1, <3>1 DEF TypeOK
  <2> QED BY <2>1, <2>3, <2>4 DEF NoNews
<1>4. ASSUME NEW i \in Ingesters, ClassifierFails(i) \/ FinishFenced(i) \/ IngesterDies(i)
      PROVE  Settled' /\ NoNews /\ \A k \in Ingesters : ~Finish(k)
  <2> DEFINE r == job[i].record
  <2>1. EndCall(i, "idle") \/ EndCall(i, "down")
    BY <1>4 DEF ClassifierFails, FinishFenced, IngesterDies
  <2>2. \/ record' = record
        \/ /\ ingester[i] = "classify" /\ r \in Records
           /\ record' = [record EXCEPT ![r] =
                            IF record[r].owner = i
                            THEN [record[r] EXCEPT !.status = "failed", !.owner = Nobody,
                                                   !.fresh = FALSE]
                            ELSE record[r]]
    BY <1>4 DEF ClassifierFails, FinishFenced, IngesterDies, TypeOK
  <2>3. \A q \in Records : record'[q].category = record[q].category
                           /\ (record[q].status = "processed" => record'[q].status = "processed")
    <3>1. CASE record' = record
      BY <3>1
    <3>2. CASE record' # record
      <4> DEFINE failed == [record[r] EXCEPT !.status = "failed", !.owner = Nobody,
                                             !.fresh = FALSE]
      <4>1. /\ r \in Records
            /\ record' = [record EXCEPT ![r] = IF record[r].owner = i THEN failed ELSE record[r]]
        BY <2>2, <3>2
      <4>2. failed.category = record[r].category
            /\ (record[r].owner = i => record[r].status = "processing")
        BY <4>1 DEF TypeOK, RecordRows, Owners
      <4> HIDE DEF failed, r
      <4> QED BY <4>1, <4>2 DEF TypeOK
    <3> QED BY <3>1, <3>2
  <2>4. ASSUME NEW k \in Ingesters, Finish(k) PROVE FALSE
    <3>1. EndCall(k, "idle") /\ ingester[k] = "finish" /\ OwnsRecord(k)
          /\ record'[job[k].record].status = "processed" /\ job[k].record \in Records
          /\ record[job[k].record].status = "processing"
      <4> DEFINE q == job[k].record
                 done == [record[q] EXCEPT !.status = "processed", !.owner = Nobody,
                                           !.fresh = FALSE, !.category = job[k].category]
      <4>1. /\ EndCall(k, "idle") /\ ingester[k] = "finish" /\ OwnsRecord(k)
            /\ record' = [record EXCEPT ![q] = done] /\ q \in Records
        BY <2>4 DEF Finish, TypeOK
      <4>2. done.status = "processed" /\ record[q].status = "processing"
        BY <4>1 DEF TypeOK, RecordRows, OwnsRecord, Owners
      <4> HIDE DEF done
      <4> QED BY <4>1, <4>2 DEF TypeOK
    <3>2. record' # record
      BY <3>1
    <3>3. ingester[i] = "classify" /\ i # k
      BY <2>2, <3>1, <3>2
    <3> QED BY <2>1, <3>1, <3>3 DEF EndCall, TypeOK
  <2>5. Settled'
    BY <2>1, <2>3 DEF Settled, EndCall, TypeOK
  <2> QED BY <2>3, <2>4, <2>5 DEF NoNews
<1>5. ASSUME NEW i \in Ingesters, Finish(i) PROVE Settled' /\ Settles(i)
  <2> DEFINE r == job[i].record
             done == [record[r] EXCEPT !.status = "processed", !.owner = Nobody,
                                       !.fresh = FALSE, !.category = job[i].category]
  <2>1. /\ EndCall(i, "idle") /\ ingester[i] = "finish" /\ record[r].owner = i
        /\ record' = [record EXCEPT ![r] = done] /\ r \in Records
    BY <1>5 DEF Finish, OwnsRecord, TypeOK
  <2>2. /\ done.status = "processed" /\ done.category = job[i].category
        /\ record[r].status = "processing"
    BY <2>1 DEF TypeOK, RecordRows, Owners
  <2> HIDE DEF done
  <2>3. Settled'
    BY <2>1, <2>2 DEF Settled, EndCall, TypeOK
  <2>4. Settles(i)
    BY <1>5, <2>1, <2>2 DEF Settles, Settled, TypeOK
  <2> QED BY <2>3, <2>4
<1>6. ASSUME NEW r \in Records, RecordClaimAges(r)
      PROVE  Settled' /\ NoNews /\ \A k \in Ingesters : ~Finish(k)
  <2>1. \A q \in Records : record'[q].category = record[q].category
                           /\ record'[q].status = record[q].status
    BY <1>6 DEF RecordClaimAges, TypeOK, RecordRows
  <2>2. UNCHANGED <<ingester, job>>
    BY <1>6 DEF RecordClaimAges
  <2>3. ASSUME NEW k \in Ingesters, Finish(k) PROVE FALSE
    BY <2>2, <2>3 DEF Finish, EndCall, TypeOK
  <2> QED BY <2>1, <2>2, <2>3 DEF Settled, NoNews
<1> QED BY <1>1, <1>2, <1>3, <1>4, <1>5, <1>6, InboundAlone DEF Ingest, IngestStep

-----------------------------------------------------------------------------
(* What was sent stays sent, and what ended stays ended. *)

\* What was submitted is not forgotten: it is confirmed, refused, or its
\* address is dead.
LEMMA StatusStands ==
    ASSUME TypeOK, Next, NEW t \in Steps, message[t] \in {"uncertain", "sent"}
    PROVE  \/ /\ message'[t] \in {"uncertain", "sent"}
              /\ message[t] = "sent" => message'[t] = "sent"
           \/ message[t] = "uncertain" /\ MayBeRefused(t)
           \/ t = 0 /\ Dead'
<1> DEFINE Stands == /\ message'[t] \in {"uncertain", "sent"}
                     /\ message[t] = "sent" => message'[t] = "sent"
<1>1. CASE UNCHANGED message
  BY <1>1
<1>2. ASSUME NEW s \in Steps, message[s] \notin {"uncertain", "sent"},
             NEW x, message' = [message EXCEPT ![s] = x]
      PROVE  Stands
  BY <1>2 DEF TypeOK
<1>3. ASSUME NEW i \in Ingesters, Ingest(i) PROVE Stands \/ (t = 0 /\ Dead')
  <2>1. UNCHANGED message \/ (message' = [message EXCEPT ![0] = "none"] /\ Dead')
    BY <1>3 DEF Ingest, IngestStep, Receive, Redeliver, Sweep, StageRow, Classify,
                ClassifierFails, Finish, FinishFenced, IngesterDies, Conclude, mailVars, Dead
  <2> QED BY <1>1, <2>1 DEF TypeOK
<1>4. ASSUME NEW w \in Workers, FollowUp(w) PROVE Stands
  <2>1. CASE GenerateFollowUp(w)
    BY <2>1 DEF GenerateFollowUp, Generated, TypeOK
  <2>2. CASE ReviewFollowUp(w)
    BY <2>2 DEF ReviewFollowUp, Reviewable, TypeOK
  <2>3. CASE SendFollowUp(w)
    BY <2>3 DEF SendFollowUp, Submit, SendAllowed, TypeOK
  <2>4. CASE WorkerDies(w)
    BY <2>4 DEF WorkerDies, TypeOK
  <2>5. \/ GenerateFollowUp(w) \/ ReviewFollowUp(w) \/ SendFollowUp(w) \/ WorkerDies(w)
        \/ UNCHANGED message
    BY <1>4 DEF FollowUp, FindDue, InvocationRefused, InvocationBlocked, InvocationSuppressed,
       ClaimFollowUp, GenerationFails, ReleaseFollowUpClaim, ApproveExisting,
       SendFollowUpRefused, RescheduleFollowUp, MarkFollowUpHandedBack, mailVars
  <2> QED BY <2>1, <2>2, <2>3, <2>4, <2>5
<1>5. ASSUME NEW s \in Steps, Send(s)
      PROVE  Stands \/ (message[t] = "uncertain" /\ MayBeRefused(t))
  <2>1. CASE OperatorSends(s) \/ SettleUnconfirmed(s)
    BY <2>1 DEF OperatorSends, Submit, SendAllowed, SettleUnconfirmed, TypeOK
  <2>2. CASE SettleSent(s) \/ ConfirmLate(s)
    BY <2>2 DEF SettleSent, ConfirmLate, FinalizeSent, TypeOK
  <2>3. CASE SettleRefused(s) \/ RefuseLate(s) \/ ReleaseUncertain(s)
    <3>1. /\ message[s] \in {"sending", "uncertain"} /\ MayBeRefused(s)
          /\ \E x : message' = [message EXCEPT ![s] = x]
      BY <2>3 DEF SettleRefused, RefuseLate, ReleaseUncertain, MarkPermanentlyRejected
    <3> QED BY <3>1 DEF TypeOK
  <2> QED BY <1>5, <2>1, <2>2, <2>3 DEF Send, Settle
<1>6. CASE Operator
  BY <1>6 DEF Operator, Generate, Generated, Approve, RejectProposal, Reviewable, Stop, mailVars,
              TypeOK
<1>7. (\E r \in Records : RecordClaimAges(r)) \/ ConfirmDead \/ LeaseExpires
      => UNCHANGED message
  BY DEF RecordClaimAges, ConfirmDead, LeaseExpires, mailVars
<1> QED BY <1>1, <1>3, <1>4, <1>5, <1>6, <1>7 DEF Next

\* Only a report on the first message's address makes it dead, for good.
LEMMA DeathsAreReported ==
    ASSUME Next, Dead \/ Dead'
    PROVE  /\ Dead'
           /\ Dead \/ \E i \in Ingesters : Finish(i) /\ job[i].category = "hard"
<1>1. CASE UNCHANGED original
  BY <1>1 DEF Dead
<1>2. ASSUME NEW i \in Ingesters, Finish(i)
      PROVE  Dead' /\ (Dead \/ job[i].category = "hard")
  BY <1>2 DEF Finish, Conclude, Dead
<1>3. CASE ConfirmDead
  BY <1>3 DEF ConfirmDead, Dead
<1>4. ASSUME NEW i \in Ingesters, Ingest(i), ~Finish(i) PROVE UNCHANGED original
  BY <1>4 DEF Ingest, IngestStep, Receive, Redeliver, Sweep, StageRow, Classify,
              ClassifierFails, FinishFenced, IngesterDies, mailVars
<1>5. ASSUME NEW w \in Workers, FollowUp(w) PROVE UNCHANGED original
  BY <1>5 DEF FollowUp, FindDue, InvocationRefused, InvocationBlocked, InvocationSuppressed,
       ClaimFollowUp, GenerateFollowUp, GenerationFails, ReleaseFollowUpClaim, ReviewFollowUp,
       ApproveExisting, SendFollowUp, Submit, SendFollowUpRefused, RescheduleFollowUp,
       MarkFollowUpHandedBack, WorkerDies, mailVars
<1>6. ASSUME NEW s \in Steps, Send(s) PROVE UNCHANGED original
  BY <1>6 DEF Send, Settle, OperatorSends, Submit, SettleSent, SettleRefused,
       SettleUnconfirmed, ConfirmLate, RefuseLate, ReleaseUncertain, FinalizeSent,
       MarkPermanentlyRejected
<1>7. (\E r \in Records : RecordClaimAges(r)) \/ LeaseExpires \/ Operator => UNCHANGED original
  BY DEF RecordClaimAges, LeaseExpires, Operator, Generate, Approve, RejectProposal, Stop,
         mailVars
<1> QED BY <1>1, <1>2, <1>3, <1>4, <1>5, <1>6, <1>7 DEF Next

\* A step that completes no sequence and forgets no reply.
Quiet ==
    /\ enrollment'.lastReply = enrollment.lastReply
    /\ enrollment'.state = "completed" \/ enrollment'.prev.state = "completed" =>
          enrollment.state = "completed" \/ enrollment.prev.state = "completed"

\* A step that confirms the message of the enrollment's step.
Advances(s) ==
    /\ Moves(enrollment, enrollment', s) /\ enrollment'.lastReply = enrollment.lastReply
    /\ enrollment.state \notin Terminal /\ message'[s] = "sent"

\* A step that takes back a sequence with nothing outstanding.
Resumes(s) ==
    /\ Parked(enrollment, enrollment', s) /\ enrollment.state \notin Ended
    /\ ~OutstandingBeside(s)

TerminalStays == enrollment.state \in Terminal => enrollment'.state = enrollment.state

LEMMA SteadyIsQuiet == ASSUME Steady(enrollment, enrollment') PROVE Quiet
BY DEF Steady, Stays, Quiet

\* Over a confirmed message the row moves on, unless the sequence was over.
LEMMA FinalizeRow ==
    ASSUME ScheduleInv, NEW s \in Steps, FinalizeSent(s)
    PROVE  TerminalStays /\ (Quiet \/ Advances(s))
<1> DEFINE e == enrollment
<1>1. /\ e \in Rows /\ ScheduleOK(e) /\ s \in Nat /\ minted + 1 \in Nat
      /\ message'[s] = "sent" /\ e' = Confirmed(e, s, minted + 1)
  BY StepNumbers DEF ScheduleInv, TypeOK, FinalizeSent
<1>2. /\ e'.lastReply = e.lastReply
      /\ e.state \in Terminal => Steady(e, e') /\ e'.state = e.state
      /\ e.state \notin Terminal => Moves(e, e', s)
  BY <1>1, ConfirmedMoves
<1> QED BY <1>1, <1>2, SteadyIsQuiet DEF Advances, TerminalStays

\* Over a refusal it is parked, ended or taken back.
LEMMA RefusalRow ==
    ASSUME ScheduleInv, NEW s \in Steps, MarkPermanentlyRejected(s)
    PROVE  Resumes(s) \/ (Quiet /\ TerminalStays)
<1> DEFINE e == enrollment
<1>1. e \in Rows /\ ScheduleOK(e) /\ s \in Nat
  BY StepNumbers DEF ScheduleInv, TypeOK
<1>2. ASSUME NEW b \in BOOLEAN, e' = Rejected(e, b) PROVE Quiet /\ TerminalStays
  <2>1. Stays(e, e') /\ e'.lastReply = e.lastReply
    BY <1>1, <1>2, RejectedSteady
  <2>2. e.state \in Terminal => e' = e
    BY <1>2 DEF Rejected
  <2> QED BY <2>1, <2>2 DEF Stays, Quiet, TerminalStays
<1>3. \/ e' = Rejected(e, FALSE)
      \/ \E verdict \in LadderVerdicts(e, s, FALSE, OutstandingBeside(s)) :
           e' = IF verdict.owns THEN verdict.row ELSE Rejected(e, TRUE)
  BY DEF MarkPermanentlyRejected
<1>4. ASSUME NEW verdict \in LadderVerdicts(e, s, FALSE, OutstandingBeside(s)),
             verdict.owns, e' = verdict.row
      PROVE  Resumes(s) \/ (Quiet /\ TerminalStays)
  <2>1. \/ e' = e
        \/ e' = Readdressed(e, s) /\ ~OutstandingBeside(s) /\ e.state \notin Ended
    BY <1>4, VerdictsAre
  <2> QED BY <1>1, <2>1, ReaddressedParks DEF Resumes, Quiet, TerminalStays
<1> QED BY <1>2, <1>3, <1>4

\* What a report or a reply does to it.
LEMMA FinishRow ==
    ASSUME ScheduleInv, NEW i \in Ingesters, Finish(i)
    PROVE  LET c == job[i].category IN
           \/ c = "hard" /\ ~Dead /\ Resumes(0) /\ message' = [message EXCEPT ![0] = "none"]
           \/ /\ TerminalStays /\ Stays(enrollment, enrollment') /\ Forgets(enrollment, enrollment')
              /\ EndsSequence(c) => \/ Dead /\ enrollment'.state = enrollment.state
                                    \/ /\ enrollment'.state \in Terminal
                                       /\ enrollment'.state = "completed" =>
                                            enrollment.state = "completed"
              /\ c # "hard" => enrollment'.lastReply = Said(c)
              /\ c = "terminal" => enrollment'.state \in Terminal
<1> DEFINE e == enrollment
           c == job[i].category
           held == job[i].held
<1>1. /\ e \in Rows /\ ScheduleOK(e) /\ 0 \in Nat /\ held \in BOOLEAN
      /\ Conclude(c, held)
  BY StepNumbers DEF ScheduleInv, TypeOK, Finish, Jobs
<1> HIDE DEF c, held
<1>2. LET f == Answered(e, c, held) IN
      /\ Stays(e, f) /\ Forgets(e, f) /\ f.lastReply = Said(c)
      /\ EndsSequence(c) => f.state \in Terminal /\ (f.state = "completed" => e.state = "completed")
      /\ e.state \in Terminal => f.state = e.state
  BY <1>1, AnsweredSteady
<1>3. CASE c # "hard"
  BY <1>1, <1>2, <1>3 DEF Conclude, TerminalStays, EndsSequence, c
<1>4. CASE c = "hard"
  <2>1. PICK verdict \in LadderVerdicts(e, 0, Dead, OutstandingBeside(0)) :
          e' = IF ~verdict.owns THEN Answered(e, c, held) ELSE Taken(e, verdict.row, held)
    BY <1>1, <1>4 DEF Conclude, Taken
  <2>2. message' = IF Dead THEN message ELSE [message EXCEPT ![0] = "none"]
    BY <1>1, <1>4 DEF Conclude
  <2>3. CASE ~verdict.owns
    BY <1>2, <1>4, <2>1, <2>3 DEF TerminalStays, c
  <2>4. CASE verdict.owns
    <3> DEFINE row == verdict.row
    <3>1. e' = Taken(e, row, held)
      BY <2>1, <2>4
    <3>2. \/ row = e /\ (Dead \/ e.state = "completed")
          \/ row = Readdressed(e, 0) /\ ~Dead /\ ~OutstandingBeside(0) /\ e.state \notin Ended
      BY <2>4, VerdictsAre
    <3> HIDE DEF row
    <3>3. CASE row = e /\ (Dead \/ e.state = "completed")
      <4>1. Stays(e, e') /\ Forgets(e, e') /\ e'.state = e.state
        BY <1>1, <3>1, <3>3, VerdictSteady
      <4> QED BY <1>4, <3>3, <4>1, StateKinds DEF TerminalStays, c
    <3>4. CASE row = Readdressed(e, 0) /\ ~Dead /\ ~OutstandingBeside(0) /\ e.state \notin Ended
      <4>1. row \in Rows /\ Parked(e, row, 0) /\ row.holds = e.holds
        BY <1>1, <3>4, ReaddressedParks
      <4>2. ScheduleOK(row)
        BY <4>1, ParkedOK
      <4>3. Parked(e, e', 0)
        BY <1>1, <3>1, <4>1, <4>2, VerdictSteady
      <4> QED BY <1>4, <2>2, <3>4, <4>3 DEF Resumes, c
    <3> QED BY <3>2, <3>3, <3>4
  <2> QED BY <2>3, <2>4
<1> QED BY <1>3, <1>4

\* What the operator, the clock and the confirmation of a dead message write
\* to the row.
LEMMA OperatorRow ==
    ASSUME ScheduleInv, Operator \/ ConfirmDead \/ LeaseExpires
    PROVE  Quiet /\ TerminalStays
<1> DEFINE e == enrollment
<1>1. /\ e \in Rows /\ ScheduleOK(e) /\ e.step \in Steps
  BY DEF ScheduleInv, SequenceInv, TypeOK
<1>2. CASE ConfirmDead
  <2>1. e' = Unclaimed(e)
    BY <1>2 DEF ConfirmDead
  <2> QED BY <1>1, <2>1, ClaimColumns DEF Quiet, TerminalStays
<1>3. CASE LeaseExpires
  <2> DEFINE f == [e EXCEPT !.lease = FALSE]
  <2>1. e' = f
    BY <1>3 DEF LeaseExpires
  <2>2. f.state = e.state /\ f.prev = e.prev /\ f.lastReply = e.lastReply
    BY <1>1 DEF Rows
  <2> HIDE DEF f
  <2> QED BY <2>1, <2>2 DEF Quiet, TerminalStays
<1>4. CASE Generate
  <2>1. e' = e \/ e' = [e EXCEPT !.state = "ready_for_review"]
    BY <1>4 DEF Generate, AwaitReview
  <2>2. e.state \notin Terminal
    BY <1>4 DEF Generate, MayGenerate
  <2> QED BY <1>1, <2>1, <2>2, GivingUp, StateSteady, SteadyIsQuiet DEF TerminalStays
<1>5. ASSUME NEW s \in Steps, Approve(s) PROVE Quiet /\ TerminalStays
  <2>1. e' = [e EXCEPT !.state = "approved"] /\ e.state \notin Terminal
    BY <1>5, StateKinds DEF Approve, Reviewable
  <2> QED BY <1>1, <2>1, StateSteady, SteadyIsQuiet DEF TerminalStays
<1>6. CASE Stop \/ \E s \in Steps : RejectProposal(s)
  <2>1. /\ (\E why : e' = EndedBy(e, "stopped", why)) /\ "stopped" \in Ended
        /\ e.state \notin Terminal
    BY <1>6, StateKinds DEF Stop, RejectProposal, Reviewable
  <2> QED BY <1>1, <2>1, EndedBySteady, SteadyIsQuiet, StateKinds DEF TerminalStays
<1> QED BY <1>2, <1>3, <1>4, <1>5, <1>6 DEF Operator

\* What a worker writes to it.
LEMMA WorkerQuiet ==
    ASSUME ScheduleInv, NEW w \in Workers, FollowUp(w)
    PROVE  Quiet /\ (worker[w] # "approve" => TerminalStays)
<1> DEFINE e == enrollment
<1>1. e \in Rows
  BY DEF ScheduleInv, TypeOK
<1>2. CASE ClaimFollowUp(w)
  <2> DEFINE x == IF e.state = "waiting" THEN "ready_for_review" ELSE e.state
             f == [e EXCEPT !.state = x, !.claim = w, !.lease = TRUE]
  <2>1. e' = f /\ e.state \notin Terminal
    BY <1>2, StateKinds DEF ClaimFollowUp, InvocationValid
  <2>2. x # "completed"
    BY <2>1, StateKinds
  <2> HIDE DEF x
  <2>3. f.state = x /\ f.prev = e.prev /\ f.lastReply = e.lastReply
    BY <1>1 DEF Rows
  <2> HIDE DEF f
  <2> QED BY <2>1, <2>2, <2>3 DEF Quiet, TerminalStays
<1>3. CASE ~ClaimFollowUp(w)
  <2>1. Quiet
    BY <1>3, WorkerRow, SteadyIsQuiet
  <2>2. ASSUME worker[w] # "approve", e.state \in Terminal PROVE e'.state = e.state
    <3>1. ~ApproveExisting(w) /\ ~InvocationSuppressed(w)
      BY <2>2, StateKinds DEF ApproveExisting, InvocationSuppressed, InvocationValid
    <3>2. ~GenerateFollowUp(w) /\ (ReviewFollowUp(w) => e' = e)
      BY <2>2, StateKinds DEF GenerateFollowUp, MayGenerate, ReviewFollowUp, Reviewable
    <3>3. RescheduleFollowUp(w) \/ MarkFollowUpHandedBack(w) => e' = e
      BY <2>2 DEF RescheduleFollowUp, MarkFollowUpHandedBack
    <3>4. ReleaseFollowUpClaim(w) => e' = e \/ e' = Unclaimed(e)
      BY DEF ReleaseFollowUpClaim
    <3>5. FindDue(w) \/ InvocationRefused(w) \/ InvocationBlocked(w) \/ GenerationFails(w)
          \/ SendFollowUp(w) \/ SendFollowUpRefused(w) \/ WorkerDies(w) => e' = e
      BY DEF FindDue, InvocationRefused, InvocationBlocked, GenerationFails, SendFollowUp,
         Submit, SendFollowUpRefused, WorkerDies
    <3> QED BY <1>1, <1>3, <3>1, <3>2, <3>3, <3>4, <3>5, ClaimColumns DEF FollowUp
  <2> QED BY <2>1, <2>2 DEF TerminalStays
<1> QED BY <1>2, <1>3

\* Every step but the end of an ingestion.
LEMMA OtherStepsRow ==
    ASSUME ScheduleInv, Next, ~\E i \in Ingesters : Finish(i)
    PROVE  \/ Quiet /\ ((\A w \in Workers : worker[w] # "approve") => TerminalStays)
           \/ TerminalStays /\ \E s \in Steps : message[s] \in Flight /\ Advances(s)
           \/ \E s \in Steps : message[s] \in Flight /\ MayBeRefused(s) /\ Resumes(s)
<1> DEFINE e == enrollment
<1>0. e \in Rows /\ ScheduleOK(e)
  BY DEF ScheduleInv, TypeOK
<1>1. ASSUME NEW i \in Ingesters, Ingest(i) PROVE Quiet /\ TerminalStays
  <2>1. ASSUME NEW r \in Records, Receive(i, r) \/ Redeliver(i, r) \/ Sweep(i, r)
        PROVE  e' = e \/ (e.state \notin Terminal /\ e' = Hold(e))
    BY <2>1 DEF Receive, Redeliver, Sweep, StageRow
  <2>2. CASE Classify(i) \/ ClassifierFails(i) \/ FinishFenced(i) \/ IngesterDies(i)
    BY <2>2 DEF Classify, ClassifierFails, FinishFenced, IngesterDies, Quiet, TerminalStays
  <2>3. CASE e' = e \/ (e.state \notin Terminal /\ e' = Hold(e))
    BY <1>0, <2>3, HoldSteady, SteadyIsQuiet DEF Quiet, TerminalStays
  <2> QED BY <1>1, <2>1, <2>2, <2>3 DEF Ingest, IngestStep
<1>2. ASSUME NEW s \in Steps, Send(s)
      PROVE  \/ Quiet /\ TerminalStays
             \/ TerminalStays /\ message[s] \in Flight /\ Advances(s)
             \/ message[s] \in Flight /\ MayBeRefused(s) /\ Resumes(s)
  <2>1. CASE OperatorSends(s) \/ SettleUnconfirmed(s) \/ ReleaseUncertain(s)
    BY <2>1 DEF OperatorSends, Submit, SettleUnconfirmed, ReleaseUncertain, Quiet, TerminalStays
  <2>2. CASE SettleSent(s) \/ ConfirmLate(s)
    <3>1. message[s] \in Flight /\ FinalizeSent(s)
      BY <2>2 DEF SettleSent, ConfirmLate, Flight
    <3> QED BY <3>1, FinalizeRow
  <2>3. CASE SettleRefused(s) \/ RefuseLate(s)
    <3>1. message[s] \in Flight /\ MarkPermanentlyRejected(s) /\ MayBeRefused(s)
      BY <2>3 DEF SettleRefused, RefuseLate, MarkPermanentlyRejected, Flight
    <3> QED BY <3>1, RefusalRow
  <2> QED BY <1>2, <2>1, <2>2, <2>3 DEF Send, Settle
<1>3. ASSUME NEW r \in Records, RecordClaimAges(r) PROVE Quiet /\ TerminalStays
  BY <1>3 DEF RecordClaimAges, Quiet, TerminalStays
<1> QED BY <1>1, <1>2, <1>3, WorkerQuiet, OperatorRow DEF Next

-----------------------------------------------------------------------------
(* The invariant. *)

\* The first message is on its way or was confirmed, unless its address is
\* dead, and then some report said so.
AddressKnown ==
    /\ ~Dead => message[0] \in {"uncertain", "sent"}
    /\ Dead => \E r \in Records : record[r].category = "hard"

\* The row remembers a final answer that nothing came after.
AnswerKept == RepliedTo /\ ~OtherNews => enrollment.lastReply = "terminal"

\* What completed a sequence was its last message, and stays sent.
CompletedSent ==
    LastStep > 0 /\ (enrollment.state = "completed" \/ enrollment.prev.state = "completed") =>
        message[LastStep] = "sent"

\* A final answer ends the sequence for good.
AnswerEnds == LastStep > 0 /\ ~enrollment.automatic /\ RepliedTo => enrollment.state \in Terminal

ReplyInv ==
    /\ ScheduleInv /\ HoldsInv /\ Settled
    /\ AddressKnown /\ AnswerKept /\ CompletedSent /\ AnswerEnds

LEMMA InitReplies == Init => ReplyInv
<1> SUFFICES ASSUME Init PROVE ReplyInv
  OBVIOUS
<1>1. \A r \in Records : record[r].category = "none"
  BY DEF Init, NoRecord
<1>2. \A i \in Ingesters : ingester[i] = "idle"
  BY DEF Init
<1>3. message[0] = "uncertain" /\ ~Dead /\ enrollment.state = "approved"
      /\ enrollment.prev.state = "none"
  BY StepNumbers, SnapshotColumns DEF Init, Dead
<1>4. Settled /\ AddressKnown /\ AnswerKept /\ AnswerEnds /\ CompletedSent
  BY <1>1, <1>2, <1>3 DEF Settled, AddressKnown, AnswerKept, AnswerEnds, CompletedSent, RepliedTo
<1> QED BY <1>4, InitHolds, InitSchedules DEF ReplyInv

\* A sequence is taken back only where its first message's address is dead.
LEMMA ResumesDead ==
    ASSUME ReplyInv, NEW s \in Steps, MayBeRefused(s), Resumes(s)
    PROVE  Dead /\ OtherNews
<1>1. Dead
  <2>1. CASE s # 0
    <3>1. 0 \in Steps \ {s}
      BY <2>1, StepNumbers
    <3> QED BY <3>1, StatusKinds DEF Resumes, OutstandingBeside, ReplyInv, AddressKnown
  <2>2. CASE s = 0
    BY <2>2 DEF MayBeRefused
  <2> QED BY <2>1, <2>2
<1> QED BY <1>1 DEF ReplyInv, AddressKnown, OtherNews

\* No sequence that is over is taken back, in a campaign of several steps.
LEMMA ResumesLive ==
    ASSUME ReplyInv, NEW s \in Steps, s = 0 \/ message[s] \in Flight, Resumes(s), LastStep > 0
    PROVE  enrollment.state \notin Terminal
<1> SUFFICES ASSUME enrollment.state = "completed" PROVE FALSE
  BY DEF Resumes, Terminal
<1>1. message[LastStep] = "sent"
  BY DEF ReplyInv, CompletedSent
<1>2. LastStep \in Steps \ {s}
  BY <1>1, StepNumbers, StatusKinds
<1> QED BY <1>1, <1>2, StatusKinds DEF Resumes, OutstandingBeside

\* The last message stays sent.
LEMMA LastStaysSent ==
    ASSUME TypeOK, Next, LastStep > 0, message[LastStep] = "sent" PROVE message'[LastStep] = "sent"
<1>1. LastStep \in Steps /\ LastStep # 0
  BY StepNumbers
<1> QED BY <1>1, StatusStands

LEMMA NextReplies == ReplyInv /\ [Next]_vars => ReplyInv'
<1> SUFFICES ASSUME ReplyInv, [Next]_vars PROVE ReplyInv'
  OBVIOUS
<1> DEFINE e == enrollment
<1>1. CASE UNCHANGED vars
  <2>1. ScheduleInv' /\ HoldsInv'
    BY <1>1, NextSchedules, NextHolds DEF ReplyInv
  <2> QED BY <1>1, <2>1 DEF vars, ReplyInv, Settled, AddressKnown, AnswerKept, CompletedSent,
       AnswerEnds, Dead, RepliedTo, OtherNews
<1>2. CASE Next
  <2>0. TypeOK /\ Owners /\ Settled /\ ScheduleInv
    BY DEF ReplyInv, ScheduleInv, HoldsInv
  <2>1. ScheduleInv' /\ HoldsInv' /\ Settled'
    BY <1>2, <2>0, NextSchedules, NextHolds, NextNews DEF ReplyInv
  <2>2. e'.automatic = e.automatic /\ (~e.automatic => \A w \in Workers : worker[w] # "approve")
    BY <1>2, AutomaticKept DEF ReplyInv, HoldsInv, ManualHolds
  <2>3. \/ \E i \in Ingesters : Settles(i)
        \/ NoNews /\ ~\E i \in Ingesters : Finish(i)
    BY <1>2, <2>0, NextNews
  <2>4. \A r \in Records : record[r].category # "none" => record'[r].category = record[r].category
    BY <2>3 DEF Settles, NoNews
  <2>5. AddressKnown'
    <3>1. ~Dead' => message'[0] \in {"uncertain", "sent"}
      <4>1. ~Dead' => ~Dead /\ message[0] \in {"uncertain", "sent"}
        BY <1>2, DeathsAreReported DEF ReplyInv, AddressKnown
      <4> QED BY <1>2, <2>0, <4>1, StatusStands, StepNumbers DEF MayBeRefused
    <3>2. ASSUME Dead' PROVE \E r \in Records : record'[r].category = "hard"
      <4>1. CASE Dead
        BY <2>4, <4>1 DEF ReplyInv, AddressKnown
      <4>2. CASE ~Dead
        <5>1. PICK i \in Ingesters : Finish(i) /\ job[i].category = "hard"
          BY <1>2, <3>2, <4>2, DeathsAreReported
        <5>2. PICK k \in Ingesters : Settles(k)
          BY <2>3, <5>1
        <5>3. i = k
          <6>1. EndCall(i, "idle") /\ EndCall(k, "idle")
                /\ ingester[i] = "finish" /\ ingester[k] = "finish"
            BY <5>1, <5>2 DEF Settles, Finish
          <6> QED BY <2>0, <6>1 DEF EndCall, TypeOK
        <5> QED BY <5>1, <5>2, <5>3 DEF Settles
      <4> QED BY <4>1, <4>2
    <3> QED BY <3>1, <3>2 DEF AddressKnown
  <2>6. CASE \E i \in Ingesters : Settles(i)
    <3> PICK i \in Ingesters : Settles(i)
      BY <2>6
    <3> DEFINE c == job[i].category
               r == job[i].record
    <3>1. /\ r \in Records /\ c \in Categories /\ record'[r].category = c
          /\ \A q \in Records \ {r} : record'[q].category = record[q].category
          /\ Finish(i)
      BY DEF Settles
    <3>2. \/ c = "hard" /\ Resumes(0)
          \/ /\ TerminalStays /\ Stays(e, e')
             /\ c # "hard" => e'.lastReply = Said(c)
             /\ c = "terminal" => e'.state \in Terminal
      BY <2>0, <3>1, FinishRow
    <3> HIDE DEF c, r
    <3>3. c # "terminal" => OtherNews'
      BY <3>1, CategoryKinds DEF OtherNews
    <3>4. AnswerKept'
      BY <3>2, <3>3 DEF AnswerKept, Said
    <3>5. CompletedSent'
      <4> SUFFICES ASSUME LastStep > 0, e'.state = "completed" \/ e'.prev.state = "completed"
                   PROVE  message'[LastStep] = "sent"
        BY DEF CompletedSent
      <4>1. ~Resumes(0)
        BY DEF Resumes, Parked
      <4>2. e.state = "completed" \/ e.prev.state = "completed"
        BY <3>2, <4>1 DEF Stays
      <4> QED BY <1>2, <2>0, <4>2, LastStaysSent DEF ReplyInv, CompletedSent
    <3>6. AnswerEnds'
      <4> SUFFICES ASSUME LastStep > 0, ~e'.automatic, RepliedTo' PROVE e'.state \in Terminal
        BY DEF AnswerEnds
      <4>1. CASE c = "terminal"
        BY <3>2, <4>1
      <4>2. CASE c # "terminal"
        <5>1. RepliedTo
          BY <3>1, <4>2 DEF RepliedTo
        <5>2. e.state \in Terminal
          BY <2>2, <5>1 DEF ReplyInv, AnswerEnds
        <5>3. ~Resumes(0)
          BY <5>2, ResumesLive, StepNumbers
        <5> QED BY <3>2, <5>2, <5>3 DEF TerminalStays
      <4> QED BY <4>1, <4>2
    <3> QED BY <2>1, <2>5, <3>4, <3>5, <3>6 DEF ReplyInv
  <2>7. CASE NoNews /\ ~\E i \in Ingesters : Finish(i)
    <3>1. (RepliedTo' <=> RepliedTo) /\ (OtherNews' <=> OtherNews)
      BY <2>7 DEF NoNews, RepliedTo, OtherNews
    <3>2. \/ Quiet /\ ((\A w \in Workers : worker[w] # "approve") => TerminalStays)
          \/ TerminalStays /\ \E s \in Steps : message[s] \in Flight /\ Advances(s)
          \/ \E s \in Steps : message[s] \in Flight /\ MayBeRefused(s) /\ Resumes(s)
      BY <1>2, <2>0, <2>7, OtherStepsRow
    <3>3. AnswerKept'
      BY <3>1, <3>2, ResumesDead DEF AnswerKept, Quiet, Advances, ReplyInv
    <3>4. CompletedSent'
      <4> SUFFICES ASSUME LastStep > 0, e'.state = "completed" \/ e'.prev.state = "completed"
                   PROVE  message'[LastStep] = "sent"
        BY DEF CompletedSent
      <4>1. CASE e.state = "completed" \/ e.prev.state = "completed"
        BY <1>2, <2>0, <4>1, LastStaysSent DEF ReplyInv, CompletedSent
      <4>2. CASE ~(e.state = "completed" \/ e.prev.state = "completed")
        <5>1. ~Quiet /\ \A s \in Steps : ~Resumes(s)
          BY <4>2 DEF Quiet, Resumes, Parked
        <5>2. PICK s \in Steps : Advances(s)
          BY <3>2, <5>1
        <5>3. ~(s < LastStep) /\ message'[s] = "sent"
          BY <4>2, <5>2 DEF Advances, Moves
        <5>4. s \in Nat /\ LastStep \in Nat /\ s <= LastStep
          BY StepNumbers
        <5>5. s = LastStep
          BY <5>3, <5>4
        <5> QED BY <5>3, <5>5
      <4> QED BY <4>1, <4>2
    <3>5. AnswerEnds'
      <4> SUFFICES ASSUME LastStep > 0, ~e'.automatic, RepliedTo' PROVE e'.state \in Terminal
        BY DEF AnswerEnds
      <4>1. e.state \in Terminal
        BY <2>2, <3>1 DEF ReplyInv, AnswerEnds
      <4>2. \A s \in Steps : message[s] \in Flight => ~Resumes(s)
        BY <4>1, ResumesLive
      <4> QED BY <2>2, <3>2, <4>1, <4>2 DEF TerminalStays
    <3> QED BY <2>1, <2>5, <3>3, <3>4, <3>5 DEF ReplyInv
  <2> QED BY <2>3, <2>6, <2>7
<1> QED BY <1>1, <1>2

\* Nobody who answered for good is written to again, in any campaign whose
\* operator approves the follow-ups of a sequence of several steps; elsewhere,
\* only after something else came in as well.
THEOREM FinalAnswersAreFinal == Spec => NoSubmitAfterTerminalReply
<1>1. ReplyInv /\ [Next]_vars =>
        [\A s \in Steps : Submits(s) /\ RepliedTo =>
            OtherNews /\ (enrollment.automatic \/ LastStep = 0)]_vars
  <2> SUFFICES ASSUME ReplyInv, Next, NEW s \in Steps, Submits(s), RepliedTo
               PROVE  OtherNews /\ (enrollment.automatic \/ LastStep = 0)
    OBVIOUS
  <2>1. enrollment.state = "approved" /\ enrollment.lastReply # "terminal"
    BY SubmissionsSubmit DEF ReplyInv, HoldsInv, SendAllowed
  <2>2. OtherNews
    BY <2>1 DEF ReplyInv, AnswerKept
  <2>3. enrollment.automatic \/ ~(LastStep > 0)
    BY <2>1, StateKinds DEF ReplyInv, AnswerEnds
  <2> QED BY <2>2, <2>3, StepNumbers
<1> QED BY <1>1, InitReplies, NextReplies, PTL DEF Spec, NoSubmitAfterTerminalReply

-----------------------------------------------------------------------------
(* The lifecycle implements OutreachSequence. *)

\* Nothing is under way where a sequence is completed, or will be once its
\* holds are released: then its last message is confirmed.
DoneInv ==
    /\ enrollment.state = "completed" => \A t \in Steps : message[t] \notin Flight
    /\ enrollment.state \in Terminal => enrollment.prev.state # "completed"
    /\ enrollment.prev.state = "completed" =>
          enrollment.step = LastStep /\ message[LastStep] = "sent"

KeptInv == ReplyInv /\ DoneInv

\* The row stays at its step, completes only by giving back a completion, and
\* what is over stays so where somebody looks.
Remains ==
    /\ enrollment'.step = enrollment.step /\ enrollment'.automatic = enrollment.automatic
    /\ enrollment'.state = "completed" =>
          enrollment.state = "completed" \/ enrollment.prev.state = "completed"
    /\ enrollment'.prev.state = "completed" =>
          /\ enrollment.prev.state = "completed"
          /\ enrollment'.state \in Terminal => enrollment.state \in Terminal
    /\ enrollment.state \in Terminal =>
          \/ enrollment'.state = enrollment.state
          \/ enrollment.automatic /\ enrollment'.state \notin Terminal

\* No message goes out, arrives or is refused.
SameMail == \A t \in Steps : MailOf(message'[t]) = MailOf(message[t])

\* A step the sequence does not see, but for its outcome.
Idles == Remains /\ SameMail /\ (Dead' <=> Dead)

\* What the statuses and the states are to the sequence.
LEMMA MailKinds ==
    /\ \A x : MailOf(x) = "handed" <=> x \in Flight
    /\ \A x : MailOf(x) = "confirmed" <=> x = "sent"
    /\ \A x : x \notin Attempted => MailOf(x) = "unsent"
    /\ MailOf("failed") = "refused" /\ MailOf("released") = "unsent"
BY StatusKinds DEF MailOf

LEMMA OutcomeKinds ==
    /\ \A x : OutcomeOf(x) = "open" <=> x \notin Terminal
    /\ \A x : OutcomeOf(x) = "ended" <=> x \in Ended
    /\ \A x : OutcomeOf(x) = "completed" <=> x = "completed"
BY StateKinds DEF OutcomeOf

LEMMA StaysRemains ==
    ASSUME Stays(enrollment, enrollment'), Forgets(enrollment, enrollment'), TerminalStays
    PROVE  Remains
BY DEF Stays, Forgets, TerminalStays, Remains

\* Only a submission of the worker's is seen.
LEMMA WorkerIdles ==
    ASSUME ReplyInv, NEW w \in Workers, FollowUp(w), ~SendFollowUp(w)
    PROVE  Remains /\ SameMail
<1> DEFINE e == enrollment
<1>0. TypeOK /\ e \in Rows /\ ScheduleInv
  BY DEF ReplyInv, ScheduleInv, TypeOK
<1>1. Remains
  <2>1. CASE ClaimFollowUp(w)
    <3> DEFINE x == IF e.state = "waiting" THEN "ready_for_review" ELSE e.state
               f == [e EXCEPT !.state = x, !.claim = w, !.lease = TRUE]
    <3>1. e' = f /\ e.state \notin Terminal
      BY <2>1, StateKinds DEF ClaimFollowUp, InvocationValid
    <3>2. x \notin Terminal
      BY <3>1, StateKinds
    <3> HIDE DEF x
    <3>3. f.state = x /\ f.prev = e.prev /\ f.step = e.step /\ f.automatic = e.automatic
      BY <1>0 DEF Rows
    <3> HIDE DEF f
    <3> QED BY <3>1, <3>2, <3>3, StateKinds DEF Remains
  <2>2. CASE ApproveExisting(w)
    <3>1. Steady(e, e') /\ e.automatic
      BY <1>0, <2>2, WorkerRow DEF ApproveExisting, ClaimFollowUp, ReplyInv, HoldsInv, ManualHolds
    <3>2. e'.state = "approved" /\ "approved" \notin Terminal
      BY <1>0, <2>2, StateKinds DEF ApproveExisting, Rows
    <3> QED BY <3>1, <3>2, StateKinds DEF Steady, Stays, Remains
  <2>3. CASE ~ClaimFollowUp(w) /\ ~ApproveExisting(w)
    <3>1. Steady(e, e') /\ (worker[w] # "approve" => TerminalStays)
      BY <1>0, <2>3, WorkerRow, WorkerQuiet
    <3>2. CASE worker[w] = "approve"
      <4>1. WorkerDies(w)
        BY <2>3, <3>2 DEF FollowUp, FindDue, InvocationRefused, InvocationBlocked,
           InvocationSuppressed, GenerateFollowUp, GenerationFails, ReleaseFollowUpClaim,
           ReviewFollowUp, SendFollowUp, SendFollowUpRefused, RescheduleFollowUp,
           MarkFollowUpHandedBack
      <4>2. TerminalStays
        BY <4>1 DEF WorkerDies, TerminalStays
      <4> QED BY <3>1, <4>2, StaysRemains DEF Steady
    <3> QED BY <3>1, <3>2, StaysRemains DEF Steady
  <2> QED BY <2>1, <2>2, <2>3
<1>2. SameMail
  <2>1. ASSUME NEW s \in Steps, NEW x, message[s] \notin Attempted, x \notin Attempted,
               message' = [message EXCEPT ![s] = x]
        PROVE  SameMail
    BY <1>0, <2>1, MailKinds DEF TypeOK, SameMail
  <2>2. UNCHANGED message => SameMail
    BY DEF SameMail
  <2>3. CASE GenerateFollowUp(w)
    <3> DEFINE s == expected[w].step
    <3>1. s \in Steps /\ message' = [message EXCEPT ![s] = Generated(s)]
      BY <1>0, <2>3, ClaimsStep DEF GenerateFollowUp, Going
    <3>2. CASE message[s] = "none"
      <4>1. Generated(s) = "proposed" /\ "proposed" \notin Attempted /\ message[s] \notin Attempted
        BY <3>2, StatusKinds DEF Generated
      <4> QED BY <2>1, <3>1, <4>1
    <3>3. CASE message[s] # "none"
      BY <1>0, <2>2, <3>1, <3>3 DEF Generated, TypeOK
    <3> QED BY <3>2, <3>3
  <2>4. CASE ReviewFollowUp(w)
    <3> DEFINE s == expected[w].step
    <3>1. CASE Reviewable(s) /\ Claims(w)
      <4>1. s \in Steps /\ message' = [message EXCEPT ![s] = "approved"]
            /\ message[s] = "proposed"
        BY <1>0, <2>4, <3>1, ClaimsStep DEF ReviewFollowUp, Reviewable, Going
      <4>2. "approved" \notin Attempted /\ message[s] \notin Attempted
        BY <4>1, StatusKinds
      <4> HIDE DEF s
      <4> QED BY <2>1, <4>1, <4>2
    <3>2. CASE ~(Reviewable(s) /\ Claims(w))
      BY <2>2, <2>4, <3>2 DEF ReviewFollowUp
    <3> QED BY <3>1, <3>2
  <2>5. CASE WorkerDies(w)
    BY <2>5, MailKinds, StatusKinds DEF WorkerDies, SameMail, MailOf
  <2>6. GenerateFollowUp(w) \/ ReviewFollowUp(w) \/ WorkerDies(w) \/ UNCHANGED message
    BY DEF FollowUp, FindDue, InvocationRefused, InvocationBlocked, InvocationSuppressed,
       ClaimFollowUp, GenerationFails, ReleaseFollowUpClaim, ApproveExisting,
       SendFollowUpRefused, RescheduleFollowUp, MarkFollowUpHandedBack, mailVars
  <2> QED BY <2>2, <2>3, <2>4, <2>5, <2>6
<1> QED BY <1>1, <1>2

\* Nor is what the operator, the clock and the confirmation of a dead message do.
LEMMA OperatorIdles ==
    ASSUME ReplyInv, Operator \/ ConfirmDead \/ LeaseExpires PROVE Remains /\ SameMail
<1> DEFINE e == enrollment
<1>0. TypeOK /\ ScheduleInv /\ e.step \in Steps
  BY DEF ReplyInv, ScheduleInv, SequenceInv
<1>1. Remains
  BY <1>0, OperatorSteady, OperatorRow, StaysRemains DEF Steady
<1>2. ASSUME NEW s \in Steps, NEW x, message[s] \notin Attempted, x \notin Attempted,
             message' = [message EXCEPT ![s] = x]
      PROVE  SameMail
  BY <1>0, <1>2, MailKinds DEF TypeOK, SameMail
<1>3. CASE Generate
  <2> DEFINE s == e.step
  <2>1. /\ s \in Steps /\ message' = [message EXCEPT ![s] = "proposed"]
        /\ message[s] \notin Attempted /\ "proposed" \notin Attempted
    BY <1>0, <1>3, StatusKinds DEF Generate, Generated
  <2> HIDE DEF s
  <2> QED BY <1>1, <1>2, <2>1
<1>4. ASSUME NEW s \in Steps, Approve(s) \/ RejectProposal(s) PROVE SameMail
  <2>1. /\ \E x \in {"approved", "cancelled"} : message' = [message EXCEPT ![s] = x]
        /\ message[s] = "proposed"
    BY <1>4 DEF Approve, RejectProposal, Reviewable
  <2> QED BY <1>2, <2>1, StatusKinds
<1>5. Stop \/ ConfirmDead \/ LeaseExpires => SameMail
  BY DEF Stop, ConfirmDead, LeaseExpires, mailVars, SameMail
<1> QED BY <1>1, <1>3, <1>4, <1>5 DEF Operator

\* A report that an address is dead, which no report said before.
Reported(i) == Finish(i) /\ job[i].category = "hard" /\ ~Dead

\* An ingestion is seen only where it ends with such a report.
LEMMA IngestIdles ==
    ASSUME ReplyInv, NEW i \in Ingesters, Ingest(i), ~Reported(i) PROVE Remains /\ SameMail
<1> DEFINE e == enrollment
<1>0. e \in Rows /\ ScheduleOK(e) /\ ScheduleInv
  BY DEF ReplyInv, ScheduleInv, TypeOK
<1>1. UNCHANGED message
  BY DEF Ingest, IngestStep, Receive, Redeliver, Sweep, StageRow, Classify,
         ClassifierFails, Finish, FinishFenced, IngesterDies, Conclude, Reported, mailVars
<1>2. Stays(e, e') /\ Forgets(e, e') /\ TerminalStays
  <2>1. CASE Finish(i)
    BY <1>0, <2>1, FinishRow DEF Reported
  <2>2. CASE ~Finish(i)
    <3>1. e' = e \/ (e.state \notin Terminal /\ e' = Hold(e))
      BY <2>2 DEF Ingest, IngestStep, Receive, Redeliver, Sweep, StageRow, Classify,
         ClassifierFails, FinishFenced, IngesterDies
    <3> QED BY <1>0, <3>1, HoldSteady, GivingUp DEF Steady, TerminalStays
  <2> QED BY <2>1, <2>2
<1> QED BY <1>1, <1>2, StaysRemains DEF SameMail

\* What a send does is seen: it goes out, is confirmed, or refused or given
\* back.  One without a verdict stays under way.
Confirms(s) == message[s] \in Flight /\ FinalizeSent(s)
Refuses(s) == message[s] \in Flight /\ (MarkPermanentlyRejected(s) \/ ReleaseUncertain(s))

\* Which steps there are.
LEMMA StepKinds ==
    ASSUME ReplyInv, Next
    PROVE  \/ Idles
           \/ \E i \in Ingesters : Reported(i)
           \/ \E s \in Steps : /\ Submit(s) \/ Confirms(s) \/ Refuses(s)
                               /\ Dead' <=> Dead
<1>1. (\E i \in Ingesters : Reported(i)) \/ (Dead' <=> Dead)
  BY DeathsAreReported DEF Reported
<1>2. ASSUME NEW w \in Workers, FollowUp(w)
      PROVE  (Remains /\ SameMail) \/ \E s \in Steps : Submit(s)
  <2>1. CASE SendFollowUp(w)
    <3>1. expected[w].step \in Steps
      BY <2>1, ClaimsStep DEF SendFollowUp, Going, ReplyInv
    <3> QED BY <2>1, <3>1 DEF SendFollowUp
  <2> QED BY <1>2, <2>1, WorkerIdles
<1>3. ASSUME NEW s \in Steps, Send(s)
      PROVE  (Remains /\ SameMail) \/ Submit(s) \/ Confirms(s) \/ Refuses(s)
  <2>1. CASE SettleUnconfirmed(s)
    <3>1. \A t \in Steps : message'[t] = message[t] \/ (message[t] \in Flight /\ message'[t] \in Flight)
      BY <2>1, StatusKinds DEF SettleUnconfirmed, ReplyInv, ScheduleInv, TypeOK
    <3>2. SameMail
      BY <3>1, MailKinds DEF SameMail
    <3> QED BY <2>1, <3>2 DEF SettleUnconfirmed, Remains
  <2> QED BY <1>3, <2>1 DEF Send, Settle, OperatorSends, SettleSent, ConfirmLate, SettleRefused,
       RefuseLate, ReleaseUncertain, Confirms, Refuses, Flight
<1>4. ASSUME NEW r \in Records, RecordClaimAges(r) PROVE Remains /\ SameMail
  BY <1>4 DEF RecordClaimAges, mailVars, Remains, SameMail
<1> QED BY <1>1, <1>2, <1>3, <1>4, IngestIdles, OperatorIdles DEF Next, Idles

\* Each kind of step keeps the invariant.
LEMMA IdlesDone == ASSUME KeptInv, Idles PROVE DoneInv'
<1> DEFINE e == enrollment
<1>0. DoneInv /\ Remains /\ e.step \in Steps /\ LastStep \in Steps
  BY StepNumbers DEF KeptInv, Idles, ReplyInv, ScheduleInv, SequenceInv
<1>1. \A t \in Steps : /\ message'[t] \in Flight <=> message[t] \in Flight
                       /\ message'[t] = "sent" <=> message[t] = "sent"
  BY MailKinds DEF Idles, SameMail
<1>2. \A t \in Steps : message[t] \in Flight => t = e.step
  BY DEF KeptInv, ReplyInv, ScheduleInv, SequenceInv
<1>3. e'.state = "completed" => \A t \in Steps : message[t] \notin Flight
  BY <1>0, <1>2, StatusKinds DEF Remains, DoneInv
<1> QED BY <1>0, <1>1, <1>3 DEF Remains, DoneInv

LEMMA SubmitDone == ASSUME KeptInv, NEW s \in Steps, Submit(s) PROVE DoneInv'
<1> DEFINE e == enrollment
<1>1. /\ e' = e /\ e.state = "approved" /\ e.step = s /\ message[s] \in {"approved", "released"}
  BY DEF Submit, SendAllowed
<1>2. e.prev.state # "completed"
  BY <1>1 DEF KeptInv, DoneInv
<1> QED BY <1>1, <1>2, StateKinds DEF DoneInv

\* Where a message is under way, nothing was completed.
LEMMA UnderWay ==
    ASSUME KeptInv, NEW s \in Steps, message[s] \in Flight
    PROVE  /\ enrollment.step = s
           /\ enrollment.state # "completed" /\ enrollment.prev.state # "completed"
BY StatusKinds DEF KeptInv, DoneInv, ReplyInv, ScheduleInv, SequenceInv

LEMMA ConfirmedDone == ASSUME KeptInv, NEW s \in Steps, Confirms(s) PROVE DoneInv'
<1> DEFINE e == enrollment
<1>1. /\ e \in Rows /\ ScheduleOK(e) /\ e.step = s /\ s \in Nat /\ minted + 1 \in Nat
      /\ e.state # "completed" /\ e.prev.state # "completed"
      /\ e' = Confirmed(e, s, minted + 1) /\ message' = [message EXCEPT ![s] = "sent"]
  BY UnderWay, StepNumbers DEF KeptInv, ReplyInv, ScheduleInv, TypeOK, Confirms, FinalizeSent
<1>2. /\ e.state \in Terminal => Steady(e, e') /\ e'.state = e.state
      /\ e.state \notin Terminal => Moves(e, e', s)
  BY <1>1, ConfirmedMoves
<1>3. message'[s] = "sent" /\ \A t \in Steps : message'[t] \notin Flight
  BY <1>1, StatusKinds DEF KeptInv, ReplyInv, ScheduleInv, SequenceInv, TypeOK
<1>4. CASE e.state \in Terminal
  BY <1>1, <1>2, <1>3, <1>4 DEF Steady, Stays, DoneInv
<1>5. CASE e.state \notin Terminal
  <2>1. e'.state \in Terminal => e'.prev.state # "completed"
    BY <1>2, <1>5 DEF Moves
  <2>2. e'.prev.state = "completed" => s = LastStep /\ e'.step = s
    BY <1>1, <1>2, <1>5, StepNumbers DEF Moves
  <2> QED BY <1>3, <2>1, <2>2 DEF DoneInv
<1> QED BY <1>4, <1>5

\* A row that was refused or taken back has nothing completed.
LEMMA RefusedDone ==
    ASSUME enrollment'.state # "completed", enrollment'.prev.state # "completed" PROVE DoneInv'
BY DEF DoneInv

\* What a refusal, or a release, does to the row.
LEMMA RefusedRow ==
    ASSUME KeptInv, NEW s \in Steps, Refuses(s)
    PROVE  \E x \in {"failed", "none", "released"} :
             /\ message' = [message EXCEPT ![s] = x]
             /\ enrollment'.step = s /\ enrollment'.automatic = enrollment.automatic
             /\ enrollment'.state # "completed" /\ enrollment'.prev.state # "completed"
             /\ \/ enrollment'.state = enrollment.state
                \/ enrollment.state \notin Terminal /\ enrollment'.state \notin Terminal
                \/ /\ enrollment.state \notin Terminal /\ enrollment'.state \in Ended
                   /\ x = "none"
<1> DEFINE e == enrollment
<1>1. /\ e \in Rows /\ ScheduleOK(e) /\ e.step = s /\ s \in Nat
      /\ e.state # "completed" /\ e.prev.state # "completed"
  BY UnderWay, StepNumbers DEF KeptInv, ReplyInv, ScheduleInv, TypeOK, Refuses
<1>2. ASSUME NEW b \in BOOLEAN, e' = Rejected(e, b)
      PROVE  /\ e'.step = s /\ e'.automatic = e.automatic
             /\ e'.state # "completed" /\ e'.prev.state # "completed"
             /\ \/ e'.state = e.state
                \/ e.state \notin Terminal /\ e'.state \notin Terminal
                \/ e.state \notin Terminal /\ e'.state \in Ended /\ b
  <2>1. Stays(e, e') /\ (e'.state \notin Terminal \/ b \/ e' = e)
    BY <1>1, <1>2, RejectedSteady
  <2>2. e.state \in Terminal => e' = e
    BY <1>2 DEF Rejected
  <2> QED BY <1>1, <2>1, <2>2, StateKinds DEF Stays
<1>3. CASE message' = [message EXCEPT ![s] = "failed"] /\ e' = Rejected(e, FALSE)
  BY <1>2, <1>3
<1>4. CASE /\ message' = [message EXCEPT ![s] = "none"]
           /\ \E verdict \in LadderVerdicts(e, s, FALSE, OutstandingBeside(s)) :
                e' = IF verdict.owns THEN verdict.row ELSE Rejected(e, TRUE)
  <2>1. PICK verdict \in LadderVerdicts(e, s, FALSE, OutstandingBeside(s)) :
          e' = IF verdict.owns THEN verdict.row ELSE Rejected(e, TRUE)
    BY <1>4
  <2>2. CASE ~verdict.owns
    BY <1>2, <1>4, <2>1, <2>2
  <2>3. CASE verdict.owns
    <3>1. \/ verdict.row = e /\ (verdict.owns => FALSE \/ e.state = "completed")
          \/ verdict.row = Readdressed(e, s) /\ e.state \notin Ended
      BY VerdictsAre
    <3>2. Parked(e, e', s) /\ e.state \notin Terminal
      BY <1>1, <2>1, <2>3, <3>1, StateKinds, ReaddressedParks
    <3> QED BY <1>4, <3>2, StateKinds DEF Parked
  <2> QED BY <2>2, <2>3
<1>5. CASE ReleaseUncertain(s)
  BY <1>1, <1>5 DEF ReleaseUncertain
<1> QED BY <1>3, <1>4, <1>5 DEF Refuses, MarkPermanentlyRejected

\* What a report does.
LEMMA ReportedRow ==
    ASSUME KeptInv, NEW i \in Ingesters, Reported(i)
    PROVE  /\ message' = [message EXCEPT ![0] = "none"]
           /\ \/ Resumes(0)
              \/ /\ Remains
                 /\ enrollment'.state \in Terminal
                 /\ enrollment'.state = "completed" => enrollment.state = "completed"
                 /\ enrollment.state \in Terminal => enrollment'.state = enrollment.state
<1>1. message' = [message EXCEPT ![0] = "none"]
  BY DEF Reported, Finish, Conclude
<1>2. EndsSequence(job[i].category) /\ Finish(i) /\ ~Dead /\ ScheduleInv
  BY DEF Reported, EndsSequence, KeptInv, ReplyInv
<1>3. CASE Resumes(0)
  BY <1>1, <1>3
<1>4. CASE ~Resumes(0)
  <2>1. /\ TerminalStays /\ Stays(enrollment, enrollment') /\ Forgets(enrollment, enrollment')
        /\ enrollment'.state \in Terminal
        /\ enrollment'.state = "completed" => enrollment.state = "completed"
    BY <1>2, <1>4, FinishRow
  <2> QED BY <1>1, <2>1, StaysRemains DEF TerminalStays
<1> QED BY <1>3, <1>4

LEMMA ReportedDone == ASSUME KeptInv, NEW i \in Ingesters, Reported(i) PROVE DoneInv'
<1> DEFINE e == enrollment
<1>1. CASE Resumes(0)
  BY <1>1, RefusedDone DEF Resumes, Parked
<1>2. CASE ~Resumes(0)
  <2>1. /\ Remains /\ e'.state \in Terminal
        /\ e'.state = "completed" => e.state = "completed"
        /\ message' = [message EXCEPT ![0] = "none"]
    BY <1>2, ReportedRow
  <2>2. \A t \in Steps : message'[t] \in Flight => message[t] \in Flight
    BY <2>1, StatusKinds DEF KeptInv, ReplyInv, ScheduleInv, TypeOK
  <2>3. e'.prev.state # "completed"
    BY <2>1 DEF Remains, KeptInv, DoneInv
  <2> QED BY <2>1, <2>2, <2>3 DEF KeptInv, DoneInv
<1> QED BY <1>1, <1>2

LEMMA InitDone == Init => KeptInv
<1> SUFFICES ASSUME Init PROVE DoneInv
  BY InitReplies DEF KeptInv
<1> QED BY StateKinds, SnapshotColumns DEF Init, DoneInv

LEMMA NextDone == KeptInv /\ [Next]_vars => KeptInv'
<1> SUFFICES ASSUME KeptInv, [Next]_vars PROVE DoneInv'
  BY NextReplies DEF KeptInv
<1>1. CASE UNCHANGED vars
  BY <1>1 DEF vars, KeptInv, DoneInv
<1>2. CASE Next
  <2>1. ASSUME NEW s \in Steps, Refuses(s) PROVE DoneInv'
    BY <2>1, RefusedRow, RefusedDone
  <2> QED BY <1>2, <2>1, StepKinds, IdlesDone, SubmitDone, ConfirmedDone, ReportedDone
          DEF KeptInv
<1> QED BY <1>1, <1>2

-----------------------------------------------------------------------------
(* Every step is a step of the sequence, or none. *)

\* One message is written.
LEMMA MailSet ==
    ASSUME TypeOK, NEW s \in Steps, NEW x, message' = [message EXCEPT ![s] = x]
    PROVE  Mail' = [Mail EXCEPT ![s] = MailOf(x)]
BY DEF TypeOK, Mail

LEMMA IdlesKeeps ==
    ASSUME KeptInv, Idles PROVE [Sequence!SequenceNext]_(Sequence!sequenceVars)
<1> DEFINE e == enrollment
<1>1. /\ Mail' = Mail /\ Dead' = Dead /\ e'.step = e.step /\ e'.automatic = e.automatic
      /\ e.step \in Steps
  BY DEF Idles, SameMail, Mail, Remains, Dead, KeptInv, ReplyInv, ScheduleInv, SequenceInv
<1>2. CASE OutcomeOf(e'.state) = OutcomeOf(e.state)
  BY <1>1, <1>2 DEF Sequence!sequenceVars
<1>3. CASE OutcomeOf(e'.state) # OutcomeOf(e.state)
  <2>1. CASE e.state \in Terminal
    <3>1. e.automatic /\ e'.state \notin Terminal
      BY <1>3, <2>1 DEF Idles, Remains
    <3>2. Sequence!Reopen
      BY <1>1, <2>1, <3>1, OutcomeKinds DEF Sequence!Reopen
    <3> QED BY <3>2 DEF Sequence!SequenceNext
  <2>2. CASE e.state \notin Terminal /\ e'.state \in Ended
    <3>1. Sequence!End
      BY <1>1, <2>2, OutcomeKinds DEF Sequence!End
    <3> QED BY <3>1 DEF Sequence!SequenceNext
  <2>3. CASE e.state \notin Terminal /\ e'.state = "completed"
    <3>1. e.step = LastStep /\ message[LastStep] = "sent" /\ LastStep \in Steps
      BY <2>3, StateKinds, StepNumbers DEF Idles, Remains, KeptInv, DoneInv
    <3>2. Mail[LastStep] = "confirmed"
      BY <3>1, MailKinds DEF Mail
    <3>3. Sequence!Complete
      BY <1>1, <2>3, <3>1, <3>2, OutcomeKinds DEF Sequence!Complete
    <3> QED BY <3>3 DEF Sequence!SequenceNext
  <2>4. e.state \in Terminal \/ e'.state \in Ended \/ e'.state = "completed"
    BY <1>3, OutcomeKinds, StateKinds
  <2> QED BY <2>1, <2>2, <2>3, <2>4
<1> QED BY <1>2, <1>3

LEMMA SubmitKeeps ==
    ASSUME KeptInv, NEW s \in Steps, Submit(s), Dead' <=> Dead PROVE Sequence!HandOver
<1> DEFINE e == enrollment
<1>1. /\ e' = e /\ e.state = "approved" /\ e.step = s /\ message[s] \in {"approved", "released"}
      /\ message' = [message EXCEPT ![s] = "sending"] /\ LocksFree /\ TypeOK
  BY DEF Submit, SendAllowed, KeptInv, ReplyInv, ScheduleInv
<1>2. \A t \in Steps : message[t] \notin Flight
  BY <1>1, StatusKinds DEF KeptInv, ReplyInv, ScheduleInv, SequenceInv
<1>3. Mail[s] = "unsent" /\ \A t \in 0..LastStep : Mail[t] # "handed"
  BY <1>1, <1>2, MailKinds, StatusKinds DEF Mail, Steps
<1>4. Mail' = [Mail EXCEPT ![s] = "handed"]
  <2>1. Mail' = [Mail EXCEPT ![s] = MailOf("sending")]
    BY <1>1, MailSet
  <2> QED BY <2>1, MailKinds, StatusKinds
<1>5. OutcomeOf(e.state) = "open" /\ Dead' = Dead
  BY <1>1, OutcomeKinds, StateKinds DEF Dead
<1> QED BY <1>1, <1>3, <1>4, <1>5 DEF Sequence!HandOver

LEMMA ConfirmKeeps ==
    ASSUME KeptInv, NEW s \in Steps, Confirms(s), Dead' <=> Dead PROVE Sequence!Confirm
<1> DEFINE e == enrollment
<1>1. /\ e \in Rows /\ ScheduleOK(e) /\ e.step = s /\ s \in Nat /\ minted + 1 \in Nat
      /\ e.state # "completed" /\ e.prev.state # "completed" /\ TypeOK
      /\ e' = Confirmed(e, s, minted + 1) /\ message' = [message EXCEPT ![s] = "sent"]
      /\ message[s] \in Flight
  BY UnderWay, StepNumbers DEF KeptInv, ReplyInv, ScheduleInv, TypeOK, Confirms, FinalizeSent
<1>2. /\ e.state \in Terminal => Steady(e, e') /\ e'.state = e.state
      /\ e.state \notin Terminal => Moves(e, e', s)
  BY <1>1, ConfirmedMoves
<1>3. Mail[s] = "handed" /\ Mail' = [Mail EXCEPT ![s] = "confirmed"] /\ Dead' = Dead
  <2>1. Mail' = [Mail EXCEPT ![s] = MailOf("sent")]
    BY <1>1, MailSet
  <2>2. Mail[s] = "handed" /\ Dead' = Dead
    BY <1>1, MailKinds DEF Mail, Dead
  <2> QED BY <2>1, <2>2, MailKinds
<1>4. CASE e.state \in Terminal
  <2>1. e'.step = e.step /\ e'.automatic = e.automatic
    BY <1>2, <1>4 DEF Steady, Stays
  <2>2. OutcomeOf(e.state) # "open" /\ OutcomeOf(e'.state) = OutcomeOf(e.state)
    BY <1>2, <1>4, OutcomeKinds
  <2> QED BY <1>1, <1>3, <2>1, <2>2 DEF Sequence!Confirm
<1>5. CASE e.state \notin Terminal
  <2>1. /\ e'.step = IF s < LastStep THEN s + 1 ELSE s
        /\ e'.automatic = e.automatic /\ e'.state \notin Ended
        /\ e'.state = "completed" => ~(s < LastStep)
    BY <1>1, <1>2, <1>5 DEF Moves
  <2>2. OutcomeOf(e.state) = "open"
    BY <1>5, OutcomeKinds
  <2>3. \/ OutcomeOf(e'.state) = OutcomeOf(e.state)
        \/ s = LastStep /\ OutcomeOf(e'.state) = "completed"
    BY <2>1, <2>2, OutcomeKinds, StateKinds, StepNumbers
  <2> QED BY <1>1, <1>3, <2>1, <2>2, <2>3 DEF Sequence!Confirm
<1> QED BY <1>4, <1>5

LEMMA RefuseKeeps ==
    ASSUME KeptInv, NEW s \in Steps, Refuses(s), Dead' <=> Dead PROVE Sequence!Refuse
<1> DEFINE e == enrollment
<1>1. e.step = s /\ TypeOK /\ Mail[s] = "handed" /\ Dead' = Dead
  BY UnderWay, MailKinds DEF Refuses, KeptInv, ReplyInv, ScheduleInv, Mail, Dead
<1>2. PICK x \in {"failed", "none", "released"} :
        /\ message' = [message EXCEPT ![s] = x]
        /\ e'.step = s /\ e'.automatic = e.automatic
        /\ \/ e'.state = e.state
           \/ e.state \notin Terminal /\ e'.state \notin Terminal
           \/ e.state \notin Terminal /\ e'.state \in Ended /\ x = "none"
  BY RefusedRow
<1>3. Mail' = [Mail EXCEPT ![s] = IF x = "failed" THEN "refused" ELSE "unsent"]
  <2>1. Mail' = [Mail EXCEPT ![s] = MailOf(x)]
    BY <1>1, <1>2, MailSet
  <2> QED BY <2>1, MailKinds, StatusKinds
<1>4. \/ OutcomeOf(e'.state) = OutcomeOf(e.state)
      \/ x = "none" /\ OutcomeOf(e.state) = "open" /\ OutcomeOf(e'.state) = "ended"
  BY <1>2, OutcomeKinds
<1> QED BY <1>1, <1>2, <1>3, <1>4 DEF Sequence!Refuse

LEMMA ReportKeeps ==
    ASSUME KeptInv, NEW i \in Ingesters, Reported(i) PROVE Sequence!Bounce
<1> DEFINE e == enrollment
<1>1. ~Dead /\ TypeOK /\ message[0] \in {"uncertain", "sent"} /\ 0 \in Steps
  BY StepNumbers DEF Reported, KeptInv, ReplyInv, ScheduleInv, AddressKnown
<1>2. Dead = FALSE /\ Dead' = TRUE
  <2>1. Dead'
    BY DEF Reported, Finish, Conclude, Dead
  <2> QED BY <1>1, <2>1 DEF Dead
<1>3. Mail[0] \in {"handed", "confirmed"} /\ Mail' = [Mail EXCEPT ![0] = "unsent"]
  <2>1. Mail' = [Mail EXCEPT ![0] = MailOf("none")]
    BY <1>1, ReportedRow, MailSet
  <2>2. Mail[0] \in {"handed", "confirmed"}
    BY <1>1, MailKinds, StatusKinds DEF Mail
  <2> QED BY <2>1, <2>2, MailKinds, StatusKinds
<1>4. CASE Resumes(0)
  <2>1. /\ e'.step = 0 /\ e'.automatic = e.automatic
        /\ OutcomeOf(e.state) # "ended" /\ OutcomeOf(e'.state) = "open"
    BY <1>4, OutcomeKinds, StateKinds DEF Resumes, Parked
  <2>2. \A t \in 1..LastStep : Mail[t] = "unsent"
    <3>1. \A t \in 1..LastStep : t \in Steps \ {0}
      BY StepNumbers DEF Steps
    <3>2. \A t \in Steps \ {0} : message[t] \notin Attempted
      BY <1>4 DEF Resumes, OutstandingBeside
    <3> QED BY <3>1, <3>2, MailKinds DEF Mail
  <2> QED BY <1>2, <1>3, <2>1, <2>2 DEF Sequence!Bounce
<1>5. CASE ~Resumes(0)
  <2>1. /\ e'.step = e.step /\ e'.automatic = e.automatic /\ e'.state \in Terminal
        /\ e'.state = "completed" => e.state = "completed"
        /\ e.state \in Terminal => e'.state = e.state
    BY <1>5, ReportedRow DEF Remains
  <2>2. OutcomeOf(e'.state) = IF OutcomeOf(e.state) = "open" THEN "ended" ELSE OutcomeOf(e.state)
    BY <2>1, OutcomeKinds, StateKinds
  <2> QED BY <1>2, <1>3, <2>1, <2>2 DEF Sequence!Bounce
<1> QED BY <1>4, <1>5

LEMMA NextKeeps ==
    KeptInv /\ [Next]_vars => [Sequence!SequenceNext]_(Sequence!sequenceVars)
<1> SUFFICES ASSUME KeptInv, [Next]_vars
             PROVE  [Sequence!SequenceNext]_(Sequence!sequenceVars)
  OBVIOUS
<1>1. CASE UNCHANGED vars
  BY <1>1 DEF vars, Mail, Dead, Sequence!sequenceVars
<1>2. CASE Next
  BY <1>2, StepKinds, IdlesKeeps, SubmitKeeps, ConfirmKeeps, RefuseKeeps, ReportKeeps
     DEF KeptInv, Sequence!SequenceNext
<1> QED BY <1>1, <1>2

LEMMA InitKeeps == Init => Sequence!SequenceInit
<1> SUFFICES ASSUME Init PROVE Sequence!SequenceInit
  OBVIOUS
<1>1. /\ enrollment.step = 0 /\ enrollment.state = "approved" /\ Dead = FALSE
      /\ enrollment.automatic \in BOOLEAN
  BY LifecycleAssumption DEF Init, Dead
<1>2. Mail = [s \in 0..LastStep |-> IF s = 0 THEN "handed" ELSE "unsent"]
  BY MailKinds, StatusKinds DEF Init, Mail, Steps
<1>3. OutcomeOf(enrollment.state) = "open"
  BY <1>1, OutcomeKinds, StateKinds
<1> QED BY <1>1, <1>2, <1>3 DEF Sequence!SequenceInit

\* Whatever interleaves, the enrollment implements OutreachSequence, in every
\* campaign.
THEOREM SequenceIsKept == Spec => KeepsInStep
BY InitDone, NextDone, InitKeeps, NextKeeps, PTL DEF Spec, KeepsInStep, Sequence!SequenceSpec

\* What is behind the enrollment's step was confirmed, unless its address is
\* dead: a consequence of the sequence's steps alone.
THEOREM StepsAreNeverSkipped == Spec => []NothingIsSkipped
<1> DEFINE Behind == \A t \in Steps : t < enrollment.step =>
                        Mail[t] = "confirmed" \/ (t = 0 /\ Dead)
<1>1. KeptInv => (Behind <=> NothingIsSkipped)
  BY MailKinds DEF Mail, NothingIsSkipped
<1>2. Init => Behind
  BY StepNumbers DEF Init
<1>3. KeptInv /\ Behind /\ [Next]_vars => Behind'
  <2> SUFFICES ASSUME KeptInv, Behind, [Next]_vars PROVE Behind'
    OBVIOUS
  <2>1. enrollment.step \in Steps /\ Steps = 0..LastStep
    BY DEF KeptInv, ReplyInv, ScheduleInv, SequenceInv, Steps
  <2>2. CASE UNCHANGED Sequence!sequenceVars
    BY <2>2 DEF Sequence!sequenceVars
  <2>3. CASE Sequence!SequenceNext
    <3> DEFINE p == enrollment.step
    <3>1. CASE Sequence!Confirm
      <4>1. /\ Mail' = [Mail EXCEPT ![p] = "confirmed"] /\ (Dead' <=> Dead)
            /\ p' = p \/ p' = p + 1
        BY <3>1 DEF Sequence!Confirm
      <4>2. /\ Mail'[p] = "confirmed" /\ \A t \in Steps \ {p} : Mail'[t] = Mail[t]
        BY <2>1, <4>1 DEF Mail
      <4>3. \A t \in Steps : t < p' => t = p \/ t < p
        BY <2>1, <4>1, StepNumbers
      <4> QED BY <4>1, <4>2, <4>3
    <3>2. CASE Sequence!Bounce
      <4>1. /\ Mail' = [Mail EXCEPT ![0] = "unsent"] /\ Dead'
            /\ p' = p \/ p' = 0
        BY <3>2 DEF Sequence!Bounce
      <4>2. \A t \in Steps \ {0} : Mail'[t] = Mail[t]
        BY <2>1, <4>1, StepNumbers DEF Mail
      <4>3. \A t \in Steps : t < p' => t < p
        BY <2>1, <4>1, StepNumbers
      <4> QED BY <4>1, <4>2, <4>3
    <3>3. CASE Sequence!HandOver \/ Sequence!Refuse
      <4>1. /\ \E x \in {"handed", "refused", "unsent"} : Mail' = [Mail EXCEPT ![p] = x]
            /\ p' = p /\ (Dead' <=> Dead)
        BY <3>3 DEF Sequence!HandOver, Sequence!Refuse
      <4>2. PICK x \in {"handed", "refused", "unsent"} : Mail' = [Mail EXCEPT ![p] = x]
        BY <4>1
      <4>3. \A t \in Steps \ {p} : Mail'[t] = Mail[t]
        BY <2>1, <4>2 DEF Mail
      <4>4. \A t \in Steps : t < p => t # p
        BY <2>1, StepNumbers
      <4> QED BY <4>1, <4>3, <4>4
    <3>4. CASE Sequence!Complete \/ Sequence!End \/ Sequence!Reopen
      BY <3>4 DEF Sequence!Complete, Sequence!End, Sequence!Reopen
    <3> QED BY <2>3, <3>1, <3>2, <3>3, <3>4 DEF Sequence!SequenceNext
  <2> QED BY <2>2, <2>3, NextKeeps
<1> QED BY <1>1, <1>2, <1>3, InitDone, NextDone, PTL DEF Spec
=============================================================================
