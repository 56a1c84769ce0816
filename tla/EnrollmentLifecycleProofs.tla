---------------------- MODULE EnrollmentLifecycleProofs ----------------------
(* Proofs about EnrollmentLifecycle, for every number of records, ingestions *)
(* and follow-up invocations.                                                *)
EXTENDS EnrollmentLifecycle, FiniteSetTheorems, TLAPS

-----------------------------------------------------------------------------
(* The writes to a row leave a row. *)

\* The states a write may name are states of a row.
LEMMA NamedStates ==
    /\ {"manual_review", "waiting", "ready_for_review", "approved", "completed"}
           \subseteq Live \cup Terminal
    /\ Ended \subseteq Live \cup Terminal
    /\ "manual_review" \notin Terminal /\ "completed" \notin Ended
BY DEF Live, Terminal, Ended

\* The type of the inboundHoldPrevious* columns.
Snapshots == [state : Live \cup Terminal \cup {"none"}, due : BOOLEAN, token : Nat]

\* The columns of a row.
LEMMA RowFields ==
    ASSUME NEW e \in Rows
    PROVE  /\ e.state \in Live \cup Terminal /\ e.step \in Nat /\ e.due \in BOOLEAN
           /\ e.token \in Nat /\ e.holds \in Nat /\ e.prev \in Snapshots
           /\ e.claim \in Workers \cup {Nobody} /\ e.lease \in BOOLEAN
           /\ e.automatic \in BOOLEAN
BY DEF Rows, Snapshots

\* The snapshots the writes take are snapshots.
LEMMA SnapshotsTyped ==
    /\ NoSnapshot \in Snapshots
    /\ ManualSnapshot \in Snapshots
    /\ \A e \in Rows : SnapshotOf(e) \in Snapshots
BY RowFields, NamedStates DEF NoSnapshot, ManualSnapshot, SnapshotOf, Snapshots

\* Setting columns of a row leaves a row.
LEMMA Unscheduling == ASSUME NEW e \in Rows PROVE Unscheduled(e) \in Rows
BY DEF Unscheduled, Rows
\* Giving the workflow claim up leaves a row.
LEMMA Unclaiming == ASSUME NEW e \in Rows PROVE Unclaimed(e) \in Rows
BY DEF Unclaimed, Rows
\* Setting the state leaves a row.
LEMMA SettingState ==
    ASSUME NEW e \in Rows, NEW x \in Live \cup Terminal
    PROVE  [e EXCEPT !.state = x] \in Rows
BY DEF Rows
\* Setting the state and the hold columns leaves a row.
LEMMA SettingStateHoldsPrev ==
    ASSUME NEW e \in Rows, NEW x \in Live \cup Terminal, NEW n \in Nat, NEW p \in Snapshots
    PROVE  [e EXCEPT !.state = x, !.holds = n, !.prev = p] \in Rows
BY DEF Rows, Snapshots

\* Taking a hold leaves a row.
LEMMA HoldTyped == ASSUME NEW e \in Rows PROVE Hold(e) \in Rows
<1> DEFINE f == Unscheduled(e)
           p == IF e.holds = 0 THEN SnapshotOf(e) ELSE e.prev
<1>1. f \in Rows /\ f.holds = e.holds /\ f.prev = e.prev
  BY Unscheduling DEF Unscheduled, Rows
<1>2. p \in Snapshots /\ e.holds + 1 \in Nat
  BY RowFields, SnapshotsTyped
<1>3. Hold(e) = [f EXCEPT !.state = "manual_review", !.holds = e.holds + 1, !.prev = p]
  BY <1>1 DEF Hold
<1>4. "manual_review" \in Live \cup Terminal
  BY NamedStates
<1> HIDE DEF f, p
<1>5. [f EXCEPT !.state = "manual_review", !.holds = e.holds + 1, !.prev = p] \in Rows
  BY <1>1, <1>2, <1>4, SettingStateHoldsPrev
<1> QED BY <1>3, <1>5

\* Ending a sequence leaves a row.
LEMMA EndedByTyped ==
    ASSUME NEW e \in Rows, NEW state \in Ended,
           NEW why \in {"manual_stop", "reply", "hard_bounce", "other"}
    PROVE  EndedBy(e, state, why) \in Rows
<1> DEFINE f == Unclaimed(Unscheduled(e))
<1>1. f \in Rows
  BY Unscheduling, Unclaiming
<1> HIDE DEF f
<1>2. state \in Live \cup Terminal
  BY NamedStates
<1>3. [f EXCEPT !.state = state, !.stop = why, !.holds = 0, !.prev = NoSnapshot] \in Rows
  BY <1>1, <1>2, SnapshotsTyped DEF Rows, Snapshots
<1> QED BY <1>3 DEF EndedBy, f

\* Giving back what a hold interrupted leaves a row.
LEMMA RestoredTyped == ASSUME NEW e \in Rows PROVE Restored(e) \in Rows
<1> DEFINE x == IF e.prev.state = "none" THEN "waiting" ELSE e.prev.state
           y == IF e.prev.state = "completed" THEN "sequence_complete" ELSE e.stop
<1>1. x \in Live \cup Terminal /\ e.prev.due \in BOOLEAN /\ e.prev.token \in Nat
  BY RowFields, NamedStates DEF Snapshots
<1>2. y \in {"none", "manual_stop", "sequence_complete", "reply", "hard_bounce", "other"}
  BY DEF Rows
<1> HIDE DEF x, y
<1>3. [e EXCEPT !.state = x, !.due = e.prev.due, !.token = e.prev.token, !.stop = y,
                !.holds = 0, !.prev = NoSnapshot] \in Rows
  BY <1>1, <1>2, SnapshotsTyped DEF Rows, Snapshots
<1> QED BY <1>3 DEF Restored, x, y

\* Giving up a hold leaves a row.
LEMMA ReleasedTyped ==
    ASSUME NEW e \in Rows, NEW category PROVE Released(e, category) \in Rows
<1> DEFINE p == CASE Fewer(e.holds) = 0 -> NoSnapshot
                  [] OutcomeState(category) = "manual_review" -> ManualSnapshot
                  [] OTHER -> e.prev
<1>1. p \in Snapshots /\ Fewer(e.holds) \in Nat
  BY RowFields, SnapshotsTyped DEF Fewer
<1> HIDE DEF p
<1>2. [e EXCEPT !.holds = Fewer(e.holds), !.prev = p] \in Rows
  BY <1>1 DEF Rows, Snapshots
<1> QED BY <1>2 DEF Released, p

\* The states of an outcome.
LEMMA OutcomeStates ==
    ASSUME NEW category
    PROVE  /\ OutcomeState(category) \in {"replied", "bounced", "manual_review", "none"}
           /\ EndsSequence(category) => OutcomeState(category) \in Ended
           /\ ~EndsSequence(category) => OutcomeState(category) \in {"manual_review", "none"}
BY DEF OutcomeState, EndsSequence, Ended

\* Noting what a reply said leaves a row.
LEMMA ClassifiedTyped ==
    ASSUME NEW e \in Rows, NEW category PROVE Classified(e, category) \in Rows
<1> DEFINE x == IF category = "terminal" THEN "terminal" ELSE "other"
<1>1. x \in {"none", "terminal", "other"}
  OBVIOUS
<1> HIDE DEF x
<1>2. [e EXCEPT !.lastReply = x] \in Rows
  BY <1>1 DEF Rows
<1> QED BY <1>2 DEF Classified, x

\* Applying a reply leaves a row.
LEMMA AnsweredTyped ==
    ASSUME NEW e \in Rows, NEW category, NEW held \in BOOLEAN
    PROVE  Answered(e, category, held) \in Rows
<1> DEFINE classified == Classified(e, category)
           parked == IF ClearsSchedule(category) THEN Unscheduled(classified) ELSE classified
           x == IF OutcomeState(category) = "none" THEN parked.state ELSE OutcomeState(category)
           moved == [parked EXCEPT !.state = x]
<1>1. classified \in Rows
  BY ClassifiedTyped
<1>2. parked \in Rows
  BY <1>1, Unscheduling
<1>3. ASSUME ~EndsSequence(category) PROVE moved \in Rows
  <2>1. x \in Live \cup Terminal
    BY <1>2, <1>3, OutcomeStates, RowFields, NamedStates
  <2> QED BY <1>2, <2>1, SettingState
<1>4. Answered(e, category, held) =
        CASE e.state \in Terminal -> classified
          [] e.state \notin Terminal /\ EndsSequence(category) ->
                EndedBy(classified, OutcomeState(category), StopReason(category))
          [] e.state \notin Terminal /\ MayRestore(e, category, held) -> Restored(classified)
          [] OTHER -> IF held THEN Released(moved, category) ELSE moved
  BY DEF Answered
<1> HIDE DEF moved, classified
<1>5. CASE e.state \in Terminal
  BY <1>1, <1>4, <1>5
<1>6. CASE e.state \notin Terminal /\ EndsSequence(category)
  <2>1. EndedBy(classified, OutcomeState(category), StopReason(category)) \in Rows
    BY <1>1, <1>6, OutcomeStates, EndedByTyped DEF StopReason
  <2>2. ~MayRestore(e, category, held)
    BY <1>6, OutcomeStates DEF MayRestore, Ended
  <2> QED BY <1>4, <1>6, <2>1, <2>2
<1>7. CASE e.state \notin Terminal /\ ~EndsSequence(category) /\ MayRestore(e, category, held)
  BY <1>1, <1>4, <1>7, RestoredTyped
<1>8. CASE e.state \notin Terminal /\ ~EndsSequence(category) /\ ~MayRestore(e, category, held)
  BY <1>3, <1>4, <1>8, ReleasedTyped
<1> QED BY <1>5, <1>6, <1>7, <1>8

\* A re-addressed enrollment is a row.
LEMMA ReaddressedTyped ==
    ASSUME NEW e \in Rows, NEW step \in Nat PROVE Readdressed(e, step) \in Rows
<1> DEFINE f == Unclaimed(Unscheduled(e))
           p == IF e.holds > 0 THEN ManualSnapshot ELSE NoSnapshot
<1>1. f \in Rows /\ p \in Snapshots
  BY Unscheduling, Unclaiming, SnapshotsTyped
<1> HIDE DEF f, p
<1>2. [f EXCEPT !.state = "manual_review", !.step = step, !.stop = "none",
                !.lastReply = "other", !.prev = p] \in Rows
  BY <1>1, NamedStates DEF Rows, Snapshots
<1> QED BY <1>2 DEF Readdressed, f, p

\* Whatever the ladder decides leaves a row.
LEMMA VerdictsTyped ==
    ASSUME NEW e \in Rows, NEW step \in Nat, NEW dead, NEW outstanding,
           NEW verdict \in LadderVerdicts(e, step, dead, outstanding)
    PROVE  verdict.row \in Rows
BY ReaddressedTyped DEF LadderVerdicts

\* A confirmation leaves a row.
LEMMA ConfirmedTyped ==
    ASSUME NEW e \in Rows, NEW step \in Nat, NEW token \in Nat
    PROVE  Confirmed(e, step, token) \in Rows
<1> DEFINE next == Progressed(e, step, token)
           f == Unscheduled(next)
           p == IF f.prev.state = "manual_review" THEN f.prev ELSE SnapshotOf(next)
<1>1. next \in Rows
  <2>1. [e EXCEPT !.state = "waiting", !.step = step + 1, !.due = TRUE,
                  !.token = token, !.stop = "none"] \in Rows
    <3>1. step + 1 \in Nat
      OBVIOUS
    <3>2. [e EXCEPT !.state = "waiting"] \in Rows
      BY NamedStates, SettingState
    <3> QED BY <3>1, <3>2, NamedStates DEF Rows
  <2> DEFINE g == Unscheduled(e)
  <2>2. g \in Rows
    BY Unscheduling
  <2> HIDE DEF g
  <2>3. [g EXCEPT !.state = "completed", !.step = step, !.stop = "sequence_complete"] \in Rows
    BY <2>2, NamedStates DEF Rows
  <2> QED BY <2>1, <2>3 DEF Progressed, g
<1>2. f \in Rows /\ p \in Snapshots
  BY <1>1, Unscheduling, RowFields, SnapshotsTyped
<1> HIDE DEF next, f, p
<1>3. [f EXCEPT !.state = "manual_review", !.stop = "none", !.prev = p] \in Rows
  BY <1>2, NamedStates DEF Rows, Snapshots
<1> USE DEF p, f, next
<1> QED BY <1>1, <1>3, Unclaiming DEF Confirmed

\* A refusal leaves a row.
LEMMA RejectedTyped ==
    ASSUME NEW e \in Rows, NEW hardBounce \in BOOLEAN
    PROVE  Rejected(e, hardBounce) \in Rows
<1> DEFINE f == Unclaimed(Unscheduled(e))
           x == IF hardBounce THEN "bounced" ELSE "manual_review"
           y == IF hardBounce THEN "hard_bounce" ELSE f.stop
<1>1. f \in Rows
  BY Unscheduling, Unclaiming
<1>2. x \in Live \cup Terminal
  BY NamedStates DEF Ended
<1> HIDE DEF f, x
<1>3. [f EXCEPT !.state = x, !.stop = y] \in Rows
  BY <1>1, <1>2 DEF Rows
<1> QED BY <1>3 DEF Rejected, f, x

-----------------------------------------------------------------------------
(* Types. *)

\* Where the ingestions are, and the rows they work on.
InboundTyped ==
    /\ record \in [Records -> RecordRows]
    /\ ingester \in [Ingesters -> IngesterSteps]
    /\ job \in [Ingesters -> Jobs]
    /\ \A i \in Ingesters : ingester[i] \in {"classify", "finish"} => job[i].record \in Records

\* The messages of the steps.
MailTyped ==
    /\ message \in [Steps -> Statuses]
    /\ original \in Originals
    /\ minted \in Nat

\* Where the follow-up invocations are.
FollowUpTyped ==
    /\ worker \in [Workers -> WorkerSteps]
    /\ expected \in [Workers -> [step : Nat, token : Nat]]

\* TypeOK is the conjunction of the four parts,
LEMMA TypeParts ==
    TypeOK <=> enrollment \in Rows /\ InboundTyped /\ MailTyped /\ FollowUpTyped
BY DEF TypeOK, InboundTyped, MailTyped, FollowUpTyped

\* and so it is after a step.
LEMMA TypePartsNext ==
    TypeOK' <=> enrollment' \in Rows /\ InboundTyped' /\ MailTyped' /\ FollowUpTyped'
BY DEF TypeOK, InboundTyped, MailTyped, FollowUpTyped

\* What an action leaves alone stays typed.
LEMMA InboundUnchanged == ASSUME InboundTyped, UNCHANGED inboundVars PROVE InboundTyped'
BY DEF InboundTyped, inboundVars
\* The messages were left alone.
LEMMA MailUnchanged == ASSUME MailTyped, UNCHANGED mailVars PROVE MailTyped'
BY DEF MailTyped, mailVars
\* The invocations were left alone.
LEMMA FollowUpUnchanged == ASSUME FollowUpTyped, UNCHANGED followUpVars PROVE FollowUpTyped'
BY DEF FollowUpTyped, followUpVars

\* A step's message changes to another status.
LEMMA MessageSet ==
    ASSUME MailTyped, NEW s, NEW x \in Statuses, message' = [message EXCEPT ![s] = x],
           original' \in Originals, minted' \in Nat
    PROVE  MailTyped'
BY DEF MailTyped

\* The enrollment starts with the types it keeps.
LEMMA InitTyped == Init => TypeOK
<1> SUFFICES ASSUME Init PROVE TypeOK
  OBVIOUS
<1>1. enrollment \in Rows
  <2>1. PICK a \in AutomaticFollowUps :
          enrollment = [state |-> "approved", step |-> 0, due |-> FALSE, token |-> 0,
                        holds |-> 0, prev |-> NoSnapshot, claim |-> Nobody, lease |-> FALSE,
                        stop |-> "none", lastReply |-> "none", automatic |-> a]
    BY DEF Init
  <2>2. a \in BOOLEAN
    BY LifecycleAssumption
  <2>3. NoSnapshot \in Snapshots /\ "approved" \in Live \cup Terminal
    BY SnapshotsTyped, NamedStates
  <2> QED BY <2>1, <2>2, <2>3 DEF Rows, Snapshots
<1>2. InboundTyped
  BY DEF Init, InboundTyped, RecordRows, NoRecord, Kinds, IngesterSteps, Jobs, NoJob
<1>3. MailTyped
  BY DEF Init, MailTyped, Statuses, Originals
<1>4. FollowUpTyped
  BY DEF Init, FollowUpTyped, WorkerSteps, NothingExpected
<1> QED BY <1>1, <1>2, <1>3, <1>4, TypeParts

-----------------------------------------------------------------------------

\* A function with one value changed.
LEMMA UpdateTyped ==
    ASSUME NEW S, NEW T, NEW f \in [S -> T], NEW x, NEW y \in T
    PROVE  [f EXCEPT ![x] = y] \in [S -> T]
OBVIOUS

\* A staging transaction keeps the types.
LEMMA StageTyped ==
    ASSUME TypeOK, NEW i \in Ingesters, NEW r \in Records, NEW row \in RecordRows,
           StageRow(i, r, row)
    PROVE  TypeOK'
<1> DEFINE takesHold == ~row.hold /\ enrollment.state \notin Terminal
           held == row.hold \/ takesHold
           staged == [row EXCEPT !.status = "processing", !.owner = i,
                                 !.fresh = TRUE, !.hold = held]
<1>1. enrollment' \in Rows
  BY HoldTyped DEF StageRow, TypeOK
<1>2. held \in BOOLEAN
  BY DEF RecordRows
<1> HIDE DEF held
<1>3. staged \in RecordRows
  BY <1>2 DEF RecordRows
<1>4. /\ record' = [record EXCEPT ![r] = staged]
      /\ ingester' = [ingester EXCEPT ![i] = "classify"]
      /\ job' = [job EXCEPT ![i] = [record |-> r, held |-> held, category |-> "none"]]
      /\ UNCHANGED <<mailVars, followUpVars>>
  BY DEF StageRow, held
<1> HIDE DEF staged
<1>5. InboundTyped'
  <2> DEFINE read == [record |-> r, held |-> held, category |-> "none"]
  <2>1. read \in Jobs /\ read.record = r /\ "classify" \in IngesterSteps
    BY <1>2 DEF Jobs, IngesterSteps
  <2>2. job' = [job EXCEPT ![i] = read]
    BY <1>4
  <2> HIDE DEF read
  <2>3. record' \in [Records -> RecordRows] /\ job' \in [Ingesters -> Jobs]
        /\ ingester' \in [Ingesters -> IngesterSteps]
    BY <1>3, <1>4, <2>1, <2>2, UpdateTyped DEF TypeOK
  <2>4. ASSUME NEW k \in Ingesters, ingester'[k] \in {"classify", "finish"}
        PROVE  job'[k].record \in Records
    BY <1>4, <2>1, <2>2, <2>4 DEF TypeOK
  <2> QED BY <2>3, <2>4 DEF InboundTyped
<1> QED BY <1>1, <1>4, <1>5, TypeParts, TypePartsNext, MailUnchanged, FollowUpUnchanged

\* The end of a call keeps the types of what the calls read.
LEMMA EndCallTyped ==
    ASSUME InboundTyped, NEW i \in Ingesters, NEW as \in {"idle", "down"}, EndCall(i, as),
           record' \in [Records -> RecordRows]
    PROVE  InboundTyped'
<1>1. NoJob \in Jobs /\ as \in IngesterSteps
  BY DEF NoJob, Jobs, IngesterSteps
<1>2. job' \in [Ingesters -> Jobs] /\ ingester' \in [Ingesters -> IngesterSteps]
  BY <1>1, UpdateTyped DEF EndCall, InboundTyped
<1>3. ASSUME NEW k \in Ingesters, ingester'[k] \in {"classify", "finish"}
      PROVE  job'[k].record \in Records
  BY <1>3 DEF EndCall, InboundTyped
<1> QED BY <1>2, <1>3 DEF InboundTyped

\* What an ingestion concludes keeps the types.
LEMMA ConcludeTyped ==
    ASSUME TypeOK, NEW category, NEW held \in BOOLEAN, Conclude(category, held),
           minted' = minted
    PROVE  enrollment' \in Rows /\ MailTyped'
<1>1. CASE category # "hard"
  BY <1>1, AnsweredTyped DEF Conclude, TypeOK, MailTyped
<1>2. CASE category = "hard"
  <2>1. PICK verdict \in LadderVerdicts(enrollment, 0, Dead, OutstandingBeside(0)) :
          enrollment' = IF ~verdict.owns THEN Answered(enrollment, category, held)
                        ELSE IF held
                             THEN [verdict.row EXCEPT
                                     !.holds = Fewer(@),
                                     !.prev = IF Fewer(enrollment.holds) = 0
                                              THEN NoSnapshot ELSE @]
                             ELSE verdict.row
    BY <1>2 DEF Conclude
  <2> DEFINE row == verdict.row
             p == IF Fewer(enrollment.holds) = 0 THEN NoSnapshot ELSE row.prev
  <2>2. row \in Rows
    BY VerdictsTyped DEF TypeOK
  <2>3. p \in Snapshots /\ Fewer(row.holds) \in Nat
    BY <2>2, RowFields, SnapshotsTyped DEF Fewer
  <2>4. enrollment' = IF ~verdict.owns THEN Answered(enrollment, category, held)
                      ELSE IF held THEN [row EXCEPT !.holds = Fewer(row.holds), !.prev = p]
                      ELSE row
    BY <2>1
  <2>5. Answered(enrollment, category, held) \in Rows
    BY AnsweredTyped DEF TypeOK
  <2> HIDE DEF row, p
  <2>6. [row EXCEPT !.holds = Fewer(row.holds), !.prev = p] \in Rows
    BY <2>2, <2>3 DEF Rows, Snapshots
  <2>7. enrollment' \in Rows
    BY <2>2, <2>4, <2>5, <2>6
  <2>8. MailTyped'
    BY <1>2 DEF Conclude, TypeOK, MailTyped, Statuses, Originals
  <2> QED BY <2>7, <2>8
<1> QED BY <1>1, <1>2

\* The steps of an ingestion keep the types.
LEMMA IngestTyped ==
    ASSUME TypeOK, NEW i \in Ingesters, Ingest(i)
    PROVE  TypeOK'
<1> USE TypeParts, TypePartsNext
<1>1. ASSUME NEW r \in Records, Receive(i, r) PROVE TypeOK'
  <2>1. PICK kind \in Kinds : StageRow(i, r, [NoRecord EXCEPT !.kind = kind])
    BY <1>1 DEF Receive
  <2>2. [NoRecord EXCEPT !.kind = kind] \in RecordRows
    BY DEF NoRecord, RecordRows
  <2> QED BY <2>1, <2>2, StageTyped
<1>2. ASSUME NEW r \in Records, Redeliver(i, r) \/ Sweep(i, r) PROVE TypeOK'
  <2>1. StageRow(i, r, record[r]) /\ record[r] \in RecordRows
    BY <1>2 DEF Redeliver, Sweep, TypeOK
  <2> QED BY <2>1, StageTyped
<1>3. CASE Classify(i)
  <2>1. PICK category \in Categories :
          /\ job' = [job EXCEPT ![i].category = category]
          /\ ingester' = [ingester EXCEPT ![i] = "finish"]
          /\ ingester[i] = "classify"
          /\ UNCHANGED <<enrollment, mailVars, record, followUpVars>>
    <3>1. /\ {"terminal", "neutral"} \subseteq Categories
          /\ ingester[i] = "classify" /\ job[i].record \in Records
      BY <1>3 DEF Classify, Categories, TypeOK
    <3>2. record[job[i].record].kind # "message" => record[job[i].record].kind \in Categories
      BY <3>1 DEF TypeOK, RecordRows, Kinds, Categories
    <3> QED BY <1>3, <3>1, <3>2 DEF Classify
  <2> DEFINE read == [job[i] EXCEPT !.category = category]
  <2>2. /\ read \in Jobs /\ read.record = job[i].record /\ "finish" \in IngesterSteps
        /\ job' = [job EXCEPT ![i] = read]
    <3>1. job[i] \in Jobs
      BY DEF TypeOK
    <3> QED BY <2>1, <3>1 DEF Jobs, IngesterSteps
  <2> HIDE DEF read
  <2>3. /\ job' \in [Ingesters -> Jobs] /\ ingester' \in [Ingesters -> IngesterSteps]
        /\ record' \in [Records -> RecordRows]
    <3>1. job \in [Ingesters -> Jobs] /\ ingester \in [Ingesters -> IngesterSteps]
      BY DEF TypeOK
    <3>2. job' \in [Ingesters -> Jobs]
      BY <2>2, <3>1, UpdateTyped
    <3>3. ingester' \in [Ingesters -> IngesterSteps]
      BY <2>1, <2>2, <3>1, UpdateTyped
    <3> QED BY <2>1, <3>2, <3>3 DEF TypeOK
  <2>4. ASSUME NEW k \in Ingesters, ingester'[k] \in {"classify", "finish"}
        PROVE  job'[k].record \in Records
    BY <2>1, <2>2, <2>4 DEF TypeOK
  <2>5. InboundTyped'
    BY <2>3, <2>4 DEF InboundTyped
  <2> QED BY <2>1, <2>5, MailUnchanged, FollowUpUnchanged
<1>4. CASE ClassifierFails(i)
  <2>1. record' \in [Records -> RecordRows]
    <3> DEFINE r == job[i].record
               row == IF record[r].owner = i
                      THEN [record[r] EXCEPT !.status = "failed", !.owner = Nobody, !.fresh = FALSE]
                      ELSE record[r]
    <3>1. r \in Records /\ record[r] \in RecordRows
      BY <1>4 DEF ClassifierFails, TypeOK
    <3>2. row \in RecordRows
      BY <3>1 DEF RecordRows
    <3>3. record' = [record EXCEPT ![r] = row]
      BY <1>4 DEF ClassifierFails
    <3> HIDE DEF row
    <3> QED BY <3>2, <3>3, UpdateTyped DEF TypeOK
  <2> QED BY <1>4, <2>1, EndCallTyped, MailUnchanged, FollowUpUnchanged DEF ClassifierFails
<1>5. CASE Finish(i)
  <2> DEFINE r == job[i].record
             done == [record[r] EXCEPT !.status = "processed", !.owner = Nobody,
                                       !.fresh = FALSE, !.category = job[i].category]
  <2>1. r \in Records /\ job[i].held \in BOOLEAN /\ job[i].category \in Categories \cup {"none"}
    BY <1>5 DEF Finish, TypeOK, Jobs
  <2>2. done \in RecordRows
    <3>1. record[r] \in RecordRows
      BY <2>1 DEF TypeOK
    <3> QED BY <2>1, <3>1 DEF RecordRows
  <2>3. record' = [record EXCEPT ![r] = done] /\ EndCall(i, "idle") /\ minted' = minted
        /\ Conclude(job[i].category, job[i].held) /\ UNCHANGED followUpVars
    BY <1>5 DEF Finish
  <2> HIDE DEF done, r
  <2>4. record' \in [Records -> RecordRows]
    BY <2>2, <2>3, UpdateTyped DEF TypeOK
  <2> QED BY <2>1, <2>3, <2>4, ConcludeTyped, EndCallTyped, FollowUpUnchanged
<1>6. CASE FinishFenced(i)
  BY <1>6, EndCallTyped, MailUnchanged, FollowUpUnchanged DEF FinishFenced, TypeOK
<1>7. CASE IngesterDies(i)
  BY <1>7, EndCallTyped, MailUnchanged, FollowUpUnchanged DEF IngesterDies, TypeOK
<1> QED BY <1>1, <1>2, <1>3, <1>4, <1>5, <1>6, <1>7 DEF Ingest, IngestStep

\* A confirmation or a refusal keeps the types of row and messages.
LEMMA FinalizeTyped ==
    ASSUME TypeOK, NEW s \in Steps, FinalizeSent(s) \/ MarkPermanentlyRejected(s)
    PROVE  enrollment' \in Rows /\ MailTyped'
<1>1. s \in Nat /\ minted + 1 \in Nat /\ MailTyped /\ enrollment \in Rows
  BY LifecycleAssumption, RowAssumption, TypeParts DEF Steps, MailTyped
<1>2. CASE FinalizeSent(s)
  BY <1>1, <1>2, ConfirmedTyped, MessageSet DEF FinalizeSent, MailTyped, Statuses
<1>3. CASE MarkPermanentlyRejected(s)
  <2>1. CASE /\ message' = [message EXCEPT ![s] = "failed"]
             /\ enrollment' = Rejected(enrollment, FALSE)
    BY <1>1, <1>3, <2>1, RejectedTyped, MessageSet DEF MarkPermanentlyRejected, MailTyped, Statuses
  <2>2. CASE /\ message' = [message EXCEPT ![s] = "none"]
             /\ \E verdict \in LadderVerdicts(enrollment, s, FALSE, OutstandingBeside(s)) :
                  enrollment' = IF verdict.owns THEN verdict.row
                                ELSE Rejected(enrollment, TRUE)
    <3>1. PICK verdict \in LadderVerdicts(enrollment, s, FALSE, OutstandingBeside(s)) :
            enrollment' = IF verdict.owns THEN verdict.row ELSE Rejected(enrollment, TRUE)
      BY <2>2
    <3>2. verdict.row \in Rows /\ Rejected(enrollment, TRUE) \in Rows
      BY <1>1, RejectedTyped, VerdictsTyped
    <3>3. MailTyped'
      BY <1>1, <1>3, <2>2, MessageSet DEF MarkPermanentlyRejected, MailTyped, Statuses
    <3> QED BY <3>1, <3>2, <3>3
  <2> QED BY <1>3, <2>1, <2>2 DEF MarkPermanentlyRejected
<1> QED BY <1>2, <1>3

\* The worker that sent goes on.
LEMMA SendersTyped ==
    ASSUME TypeOK, NEW step \in {"idle", "handBack"}, Senders(step) PROVE FollowUpTyped'
BY DEF Senders, TypeOK, FollowUpTyped, WorkerSteps, NothingExpected

\* A submission keeps the types of row and messages.
LEMMA SubmitTyped ==
    ASSUME TypeOK, NEW s, Submit(s) PROVE enrollment' \in Rows /\ MailTyped'
BY MessageSet DEF Submit, TypeOK, MailTyped, Statuses

\* The steps of a send keep the types.
LEMMA SendTyped ==
    ASSUME TypeOK, NEW s \in Steps, Send(s)
    PROVE  TypeOK'
<1> USE TypeParts, TypePartsNext
<1>1. CASE OperatorSends(s)
  BY <1>1, SubmitTyped, InboundUnchanged, FollowUpUnchanged DEF OperatorSends
<1>2. CASE SettleSent(s)
  BY <1>2, FinalizeTyped, SendersTyped, InboundUnchanged DEF SettleSent
<1>3. CASE SettleRefused(s)
  BY <1>3, FinalizeTyped, SendersTyped, InboundUnchanged DEF SettleRefused
<1>4. CASE SettleUnconfirmed(s)
  <2>1. MailTyped'
    BY <1>4, MessageSet DEF SettleUnconfirmed, MailTyped, Statuses
  <2> QED BY <1>4, <2>1, SendersTyped, InboundUnchanged DEF SettleUnconfirmed
<1>5. CASE ConfirmLate(s)
  BY <1>5, FinalizeTyped, InboundUnchanged, FollowUpUnchanged DEF ConfirmLate
<1>6. CASE RefuseLate(s)
  BY <1>6, FinalizeTyped, InboundUnchanged, FollowUpUnchanged DEF RefuseLate
<1>7. CASE ReleaseUncertain(s)
  <2>1. MailTyped'
    BY <1>7, MessageSet DEF ReleaseUncertain, MailTyped, Statuses
  <2> QED BY <1>7, <2>1, InboundUnchanged, FollowUpUnchanged DEF ReleaseUncertain
<1> QED BY <1>1, <1>2, <1>3, <1>4, <1>5, <1>6, <1>7 DEF Send, Settle

\* An invocation that goes on, or ends, keeps the types.
LEMMA GotoTyped ==
    ASSUME FollowUpTyped, NEW w \in Workers, NEW step \in WorkerSteps,
           Goto(w, step) \/ Return(w, step)
    PROVE  FollowUpTyped'
<1>1. NothingExpected \in [step : Nat, token : Nat]
  BY DEF NothingExpected
<1>2. /\ worker \in [Workers -> WorkerSteps] /\ expected \in [Workers -> [step : Nat, token : Nat]]
      /\ worker' = [worker EXCEPT ![w] = step]
  BY DEF Goto, Return, FollowUpTyped
<1>3. expected' \in [Workers -> [step : Nat, token : Nat]]
  BY <1>1, <1>2, UpdateTyped DEF Goto, Return
<1>4. worker' \in [Workers -> WorkerSteps]
  BY <1>2, UpdateTyped
<1> QED BY <1>3, <1>4 DEF FollowUpTyped

\* Claiming a row, and parking it, leaves a row.
LEMMA ClaimTyped ==
    ASSUME NEW e \in Rows, NEW w \in Workers, NEW x \in Live \cup Terminal
    PROVE  [e EXCEPT !.state = x, !.claim = w, !.lease = TRUE] \in Rows
<1>1. [e EXCEPT !.state = x] \in Rows
  BY SettingState
<1> QED BY <1>1 DEF Rows

\* The promotion before a review leaves a row.
LEMMA AwaitReviewTyped == ASSUME NEW e \in Rows PROVE AwaitReview(e) \in Rows
BY SettingState, NamedStates DEF AwaitReview

\* Generating leaves a message with a status.
LEMMA GeneratedStatus ==
    ASSUME MailTyped, NEW s, s \in Steps PROVE Generated(s) \in Statuses
BY DEF Generated, MailTyped, Statuses

\* What a worker writes to the row leaves a row.
LEMMA WorkerRowTyped ==
    ASSUME TypeOK, NEW w \in Workers,
           \/ FindDue(w) \/ InvocationRefused(w) \/ InvocationBlocked(w)
           \/ InvocationSuppressed(w) \/ ClaimFollowUp(w) \/ GenerateFollowUp(w)
           \/ GenerationFails(w) \/ ReleaseFollowUpClaim(w) \/ ReviewFollowUp(w)
           \/ ApproveExisting(w) \/ SendFollowUp(w) \/ SendFollowUpRefused(w)
           \/ RescheduleFollowUp(w) \/ MarkFollowUpHandedBack(w) \/ WorkerDies(w)
    PROVE  enrollment' \in Rows
<1> DEFINE e == enrollment
<1>1. e \in Rows
  BY DEF TypeOK
<1>2. \A x \in Live \cup Terminal : [e EXCEPT !.state = x] \in Rows
  BY <1>1, SettingState
<1>3. CASE UNCHANGED enrollment
  BY <1>1, <1>3
<1>4. CASE InvocationSuppressed(w)
  BY <1>1, <1>4, EndedByTyped DEF InvocationSuppressed, Ended
<1>5. CASE ClaimFollowUp(w)
  <2> DEFINE x == IF e.state = "waiting" THEN "ready_for_review" ELSE e.state
  <2>1. x \in Live \cup Terminal
    BY <1>1, RowFields, NamedStates
  <2>2. e' = [e EXCEPT !.state = x, !.claim = w, !.lease = TRUE]
    BY <1>5 DEF ClaimFollowUp
  <2> HIDE DEF x
  <2> QED BY <1>1, <2>1, <2>2, ClaimTyped
<1>6. CASE GenerateFollowUp(w)
  BY <1>1, <1>6, AwaitReviewTyped DEF GenerateFollowUp
<1>7. CASE ReleaseFollowUpClaim(w)
  BY <1>1, <1>7, Unclaiming DEF ReleaseFollowUpClaim
<1>8. CASE ReviewFollowUp(w)
  BY <1>1, <1>2, <1>8, NamedStates DEF ReviewFollowUp
<1>9. CASE ApproveExisting(w)
  BY <1>1, <1>2, <1>9, NamedStates DEF ApproveExisting
<1>10. CASE RescheduleFollowUp(w)
  <2> DEFINE f == Unclaimed(e)
  <2>1. f \in Rows
    BY <1>1, Unclaiming
  <2>2. e' = e \/ e' = [f EXCEPT !.state = "waiting", !.due = TRUE]
    BY <1>10 DEF RescheduleFollowUp
  <2> HIDE DEF f
  <2>3. [f EXCEPT !.state = "waiting", !.due = TRUE] \in Rows
    BY <2>1, NamedStates DEF Rows
  <2> QED BY <1>1, <2>2, <2>3
<1>11. CASE MarkFollowUpHandedBack(w)
  <2> DEFINE f == Unclaimed(Unscheduled(e))
             x == IF worker[w] = "handBack" THEN "manual_review" ELSE "ready_for_review"
  <2>1. f \in Rows /\ x \in Live \cup Terminal
    BY <1>1, Unclaiming, Unscheduling, NamedStates
  <2>2. e' = e \/ e' = [f EXCEPT !.state = x]
    BY <1>11 DEF MarkFollowUpHandedBack
  <2> HIDE DEF f, x
  <2> QED BY <1>1, <2>1, <2>2, SettingState
<1> QED
  <2>1. \/ FindDue(w) \/ InvocationRefused(w) \/ InvocationBlocked(w) \/ GenerationFails(w)
        \/ SendFollowUp(w) \/ SendFollowUpRefused(w) \/ WorkerDies(w)
        => UNCHANGED enrollment
    BY DEF FindDue, InvocationRefused, InvocationBlocked, GenerationFails, SendFollowUp, Submit,
           SendFollowUpRefused, WorkerDies
  <2> QED BY <1>3, <1>4, <1>5, <1>6, <1>7, <1>8, <1>9, <1>10, <1>11, <2>1

\* What a worker does to the messages keeps their types.
LEMMA WorkerMailTyped ==
    ASSUME TypeOK, NEW w \in Workers,
           \/ GenerateFollowUp(w) \/ ReviewFollowUp(w) \/ SendFollowUp(w) \/ WorkerDies(w)
    PROVE  MailTyped'
<1>1. MailTyped
  BY TypeParts
<1>2. CASE GenerateFollowUp(w)
  <2> DEFINE s == expected[w].step
  <2>1. /\ message' = [message EXCEPT ![s] = Generated(s)] /\ UNCHANGED <<original, minted>>
    BY <1>2 DEF GenerateFollowUp
  <2>2. CASE s \in Steps
    BY <1>1, <2>1, <2>2, GeneratedStatus, MessageSet DEF MailTyped
  <2>3. CASE s \notin Steps
    <3>1. message' = message
      BY <1>1, <2>1, <2>3 DEF MailTyped
    <3> QED BY <1>1, <2>1, <3>1 DEF MailTyped
  <2> QED BY <2>2, <2>3
<1>3. CASE ReviewFollowUp(w)
  <2>1. CASE UNCHANGED message
    BY <1>1, <1>3, <2>1 DEF ReviewFollowUp, MailTyped
  <2>2. CASE message' = [message EXCEPT ![expected[w].step] = "approved"]
    BY <1>1, <1>3, <2>2, MessageSet DEF ReviewFollowUp, MailTyped, Statuses
  <2> QED BY <1>3, <2>1, <2>2 DEF ReviewFollowUp
<1>4. CASE SendFollowUp(w)
  BY <1>4, SubmitTyped DEF SendFollowUp
<1>5. CASE WorkerDies(w)
  BY <1>1, <1>5 DEF WorkerDies, MailTyped, Statuses
<1> QED BY <1>2, <1>3, <1>4, <1>5

\* The steps of a follow-up invocation keep the types.
LEMMA WorkerTyped == ASSUME TypeOK, NEW w \in Workers, FollowUp(w) PROVE TypeOK'
<1> USE TypeParts, TypePartsNext
<1>1. enrollment' \in Rows
  BY WorkerRowTyped DEF FollowUp
<1>2. InboundTyped'
  <2>1. UNCHANGED inboundVars
    BY DEF FollowUp, FindDue, InvocationRefused, InvocationBlocked, InvocationSuppressed,
           ClaimFollowUp, GenerateFollowUp, GenerationFails, ReleaseFollowUpClaim,
           ReviewFollowUp, ApproveExisting, SendFollowUp, SendFollowUpRefused,
           RescheduleFollowUp, MarkFollowUpHandedBack, WorkerDies, inboundVars
  <2> QED BY <2>1, InboundUnchanged
<1>3. MailTyped'
  <2>1. \/ UNCHANGED mailVars
        \/ GenerateFollowUp(w) \/ ReviewFollowUp(w) \/ SendFollowUp(w) \/ WorkerDies(w)
    BY DEF FollowUp, FindDue, InvocationRefused, InvocationBlocked, InvocationSuppressed,
           ClaimFollowUp, GenerationFails, ReleaseFollowUpClaim, ApproveExisting,
           SendFollowUpRefused, RescheduleFollowUp, MarkFollowUpHandedBack
  <2> QED BY <2>1, WorkerMailTyped, MailUnchanged
<1>4. FollowUpTyped'
  <2>1. CASE FindDue(w)
    <3> DEFINE due == [step |-> enrollment.step, token |-> enrollment.token]
    <3>1. due \in [step : Nat, token : Nat] /\ "found" \in WorkerSteps
      BY RowFields DEF WorkerSteps
    <3>2. expected' = [expected EXCEPT ![w] = due] /\ worker' = [worker EXCEPT ![w] = "found"]
      BY <2>1 DEF FindDue
    <3> HIDE DEF due
    <3> QED BY <3>1, <3>2, UpdateTyped DEF FollowUpTyped
  <2>2. CASE RescheduleFollowUp(w)
    <3>1. CASE Return(w, "idle")
      BY <3>1, GotoTyped DEF WorkerSteps
    <3>2. CASE ~Return(w, "idle")
      <4> DEFINE over == {x \in Workers : x = w \/ worker[x] = "found"}
      <4>1. /\ worker' = [x \in Workers |-> IF x \in over THEN "idle" ELSE worker[x]]
            /\ expected' = [x \in Workers |-> IF x \in over THEN NothingExpected
                                              ELSE expected[x]]
        BY <2>2, <3>2 DEF RescheduleFollowUp
      <4> QED BY <4>1 DEF FollowUpTyped, WorkerSteps, NothingExpected
    <3> QED BY <3>1, <3>2
  <2>3. CASE ~FindDue(w) /\ ~RescheduleFollowUp(w)
    <3>1. \E step \in WorkerSteps : Goto(w, step) \/ Return(w, step)
      BY <2>3 DEF FollowUp, InvocationRefused, InvocationBlocked, InvocationSuppressed,
           ClaimFollowUp, GenerateFollowUp, GenerationFails, ReleaseFollowUpClaim,
           ReviewFollowUp, ApproveExisting, SendFollowUp, SendFollowUpRefused,
           MarkFollowUpHandedBack, WorkerDies, WorkerSteps
    <3> QED BY <3>1, GotoTyped
  <2> QED BY <2>1, <2>2, <2>3
<1> QED BY <1>1, <1>2, <1>3, <1>4

\* The operator's steps keep the types.
LEMMA OperatorTyped == ASSUME TypeOK, Operator PROVE TypeOK'
<1> USE TypeParts, TypePartsNext
<1>1. enrollment \in Rows /\ MailTyped
  OBVIOUS
<1>2. UNCHANGED inboundVars /\ UNCHANGED followUpVars
  BY DEF Operator, Generate, Approve, RejectProposal, Stop
<1>3. enrollment' \in Rows
  <2>1. [enrollment EXCEPT !.state = "approved"] \in Rows
    BY <1>1, SettingState, NamedStates
  <2>2. \A why \in {"manual_stop", "other"} : EndedBy(enrollment, "stopped", why) \in Rows
    BY <1>1, EndedByTyped DEF Ended
  <2> QED BY <1>1, <2>1, <2>2, AwaitReviewTyped DEF Operator, Generate, Approve, RejectProposal, Stop
<1>4. MailTyped'
  <2>1. \/ UNCHANGED mailVars
        \/ \E s, x : /\ message' = [message EXCEPT ![s] = x]
                     /\ x \in Statuses /\ UNCHANGED <<original, minted>>
    BY DEF Operator, Generate, Approve, RejectProposal, Stop, Statuses
  <2> QED BY <1>1, <2>1, MessageSet, MailUnchanged DEF MailTyped
<1> QED BY <1>2, <1>3, <1>4, InboundUnchanged, FollowUpUnchanged

\* The passing of time, and a late confirmation of a dead message, keep them.
LEMMA OthersTyped ==
    ASSUME TypeOK, (\E r \in Records : RecordClaimAges(r)) \/ ConfirmDead \/ LeaseExpires
    PROVE  TypeOK'
<1> USE TypeParts, TypePartsNext
<1>1. ASSUME NEW r \in Records, RecordClaimAges(r) PROVE TypeOK'
  <2>1. [record[r] EXCEPT !.fresh = FALSE] \in RecordRows
    <3>1. record[r] \in RecordRows
      BY DEF TypeOK
    <3> QED BY <3>1 DEF RecordRows
  <2>2. record' \in [Records -> RecordRows]
    BY <1>1, <2>1, UpdateTyped DEF RecordClaimAges, TypeOK
  <2>3. InboundTyped'
    BY <1>1, <2>2 DEF RecordClaimAges, InboundTyped
  <2> QED BY <1>1, <2>3, MailUnchanged, FollowUpUnchanged DEF RecordClaimAges
<1>2. CASE ConfirmDead
  <2>1. MailTyped'
    BY <1>2 DEF ConfirmDead, MailTyped, Originals
  <2> QED BY <1>2, <2>1, Unclaiming, InboundUnchanged, FollowUpUnchanged DEF ConfirmDead
<1>3. CASE LeaseExpires
  <2>1. [enrollment EXCEPT !.lease = FALSE] \in Rows
    <3>1. enrollment \in Rows
      OBVIOUS
    <3> QED BY <3>1 DEF Rows
  <2> QED BY <1>3, <2>1, MailUnchanged, InboundUnchanged, FollowUpUnchanged DEF LeaseExpires
<1> QED BY <1>1, <1>2, <1>3

\* Every step keeps the types.
LEMMA NextTyped == TypeOK /\ [Next]_vars => TypeOK'
<1> SUFFICES ASSUME TypeOK, [Next]_vars PROVE TypeOK'
  OBVIOUS
<1>1. CASE UNCHANGED vars
  BY <1>1 DEF vars, TypeOK
<1>2. CASE Next
  BY <1>2, IngestTyped, WorkerTyped, SendTyped, OperatorTyped, OthersTyped DEF Next
<1> QED BY <1>1, <1>2

\* The row, the records and the calls stay what the schema and the code say
\* they are, whichever transactions of whichever process interleave.
THEOREM LifecycleTypeCorrect == Spec => []TypeOK
<1> QED BY InitTyped, NextTyped, PTL DEF Spec
=============================================================================
