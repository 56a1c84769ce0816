------------------------- MODULE EnrollmentLifecycle -------------------------
(***************************************************************************)
(* One enrollment from the moment its first message was submitted:         *)
(* replies and delivery reports about that message being ingested          *)
(* (inbound-service.ts), follow-ups being worked off                       *)
(* (follow-up-service.ts), sends being confirmed or refused late           *)
(* (send-service.ts), the address ladder (ladder-service.ts) and the       *)
(* operator (review-service.ts, lifecycle-service.ts), all writing the     *)
(* same row.                                                               *)
(*                                                                         *)
(* One action is one PostgreSQL transaction.  An ingestion is three of     *)
(* them with a classifier call between; a follow-up is up to five.  The    *)
(* details of a send are SendService's: here it is a submission under the  *)
(* action locks and an outcome, which may come long after.                 *)
(***************************************************************************)
EXTENDS EnrollmentRow

CONSTANTS
    Ingesters,          \* ingestInboundMessage calls that may be in progress
    Mortal,             \* the processes that may die on the way
    Records,            \* inbound messages and delivery reports
    AutomaticFollowUps  \* what campaign configurations say of automaticFollowUps

ASSUME LifecycleAssumption ==
    /\ Nobody \notin Ingesters \cup Records
    /\ AutomaticFollowUps \subseteq BOOLEAN
    /\ IsFiniteSet(Records)

VARIABLES
    enrollment,     \* the row
    message,        \* status of each step's live message
    original,       \* whether the first message's address is proven dead
    minted,         \* how many follow-up tokens were made
    record,         \* the inbound_records rows, with their replies rows
    ingester,       \* where each ingestion is
    job,            \* what it has read so far
    worker,         \* where each follow-up invocation is
    expected        \* the schedule it was started for

vars == <<enrollment, message, original, minted, record, ingester, job, worker, expected>>

-----------------------------------------------------------------------------
(* Rows *)

\* "none": the step has no message, or only one whose address is dead.
\* "released": drafted again after an attempt that the provider never took.
Statuses == {"none", "proposed", "approved", "cancelled",
             "sending", "uncertain", "sent", "failed", "released"}

\* The messages with a sendAttemptedAt, which a release keeps.
Attempted == {"sending", "uncertain", "sent", "failed", "released"}

\* A dead first message may still be waiting for its confirmation.
Originals == {"live", "dead", "deadUnconfirmed"}
Dead == original # "live"

Kinds == {"message", "delayed", "soft", "hard"}

\* fresh: the classification claim is younger than five minutes.
\* category is the reply's classification, once there is one.
RecordRows == [status : {"absent", "processing", "failed", "processed"},
               kind : Kinds, hold : BOOLEAN,
               owner : Ingesters \cup {Nobody}, fresh : BOOLEAN,
               category : Categories \cup {"none"}]

NoRecord == [status |-> "absent", kind |-> "message", hold |-> FALSE,
             owner |-> Nobody, fresh |-> FALSE, category |-> "none"]

\* held: the record's hold is this call's to release.
Jobs == [record : Records \cup {Nobody}, held : BOOLEAN,
         category : Categories \cup {"none"}]
NoJob == [record |-> Nobody, held |-> FALSE, category |-> "none"]
NothingExpected == [step |-> 0, token |-> 0]

IngesterSteps == {"idle", "classify", "finish", "down"}
WorkerSteps == {"idle", "found", "blocked", "generate", "review", "approve", "send",
                "sending", "release", "reschedule", "handBack", "handBackReview", "down"}

TypeOK ==
    /\ enrollment \in Rows
    /\ message \in [Steps -> Statuses]
    /\ original \in Originals
    /\ minted \in Nat
    /\ record \in [Records -> RecordRows]
    /\ ingester \in [Ingesters -> IngesterSteps]
    /\ job \in [Ingesters -> Jobs]
    /\ \A i \in Ingesters : ingester[i] \in {"classify", "finish"} => job[i].record \in Records
    /\ worker \in [Workers -> WorkerSteps]
    /\ expected \in [Workers -> [step : Nat, token : Nat]]

\* The first message was submitted and is not confirmed yet.
Init ==
    /\ enrollment \in [state : {"approved"}, step : {0}, due : {FALSE}, token : {0},
                       holds : {0}, prev : {NoSnapshot}, claim : {Nobody}, lease : {FALSE},
                       stop : {"none"}, lastReply : {"none"}, automatic : AutomaticFollowUps]
    /\ message = [s \in Steps |-> IF s = 0 THEN "uncertain" ELSE "none"]
    /\ original = "live"
    /\ minted = 0
    /\ record = [r \in Records |-> NoRecord]
    /\ ingester = [i \in Ingesters |-> "idle"]
    /\ job = [i \in Ingesters |-> NoJob]
    /\ worker = [w \in Workers |-> "idle"]
    /\ expected = [w \in Workers |-> NothingExpected]

\* A send in progress holds the mailbox, enrollment and recipient locks that
\* the inbound transactions and the operator's stop take.
LocksFree == \A s \in Steps : message[s] # "sending"

mailVars == <<message, original, minted>>
inboundVars == <<record, ingester, job>>
followUpVars == <<worker, expected>>

-----------------------------------------------------------------------------
(* ingestInboundMessage *)

\* The call ends, and with it all it had read.
EndCall(i, as) ==
    /\ ingester' = [ingester EXCEPT ![i] = as]
    /\ job' = [job EXCEPT ![i] = NoJob]

\* The staging transaction, on the row as the insert-if-absent left it.
StageRow(i, r, row) ==
    LET takesHold == ~row.hold /\ enrollment.state \notin Terminal
        held == row.hold \/ takesHold
    IN  /\ ingester[i] = "idle" /\ LocksFree
        /\ record' = [record EXCEPT ![r] = [row EXCEPT !.status = "processing", !.owner = i,
                                                       !.fresh = TRUE, !.hold = held]]
        /\ enrollment' = IF takesHold THEN Hold(enrollment) ELSE enrollment
        /\ job' = [job EXCEPT ![i] = [record |-> r, held |-> held, category |-> "none"]]
        /\ ingester' = [ingester EXCEPT ![i] = "classify"]
        /\ UNCHANGED <<mailVars, followUpVars>>

\* A webhook or a mailbox round brings a message in that answers the first
\* message; what answers no message of the program's is ignored before this
\* (ingestMatchedInboundMessage).
Receive(i, r) ==
    /\ record[r].status = "absent"
    /\ \E kind \in Kinds : StageRow(i, r, [NoRecord EXCEPT !.kind = kind])

\* A processed record or a fresh claim ends the call with nothing written.
Claimable(r) ==
    /\ record[r].status \in {"processing", "failed"}
    /\ record[r].owner = Nobody \/ ~record[r].fresh

\* The message comes again.
Redeliver(i, r) ==
    /\ Claimable(r)
    /\ StageRow(i, r, record[r])

\* Mutant: the sweep looks for failed records only.
SweepFailedOnly(i, r) ==
    /\ Claimable(r) /\ record[r].status = "failed"
    /\ StageRow(i, r, record[r])

\* reconcilePendingInboundRecords, as recover-stale-work calls it: one record a
\* run, a failed one before one whose ingestion never ended.
Sweep(i, r) ==
    /\ Claimable(r)
    /\ record[r].status = "processing" =>
          \A q \in Records : Claimable(q) => record[q].status # "failed"
    /\ StageRow(i, r, record[r])

\* A delivery report needs no classifier; otherwise its answer is taken,
\* whatever it is.
Classify(i) ==
    /\ ingester[i] = "classify"
    /\ \E category \in IF record[job[i].record].kind = "message" THEN {"terminal", "neutral"}
                        ELSE {record[job[i].record].kind} :
            job' = [job EXCEPT ![i].category = category]
    /\ ingester' = [ingester EXCEPT ![i] = "finish"]
    /\ UNCHANGED <<enrollment, mailVars, record, followUpVars>>

\* The classifier failed: the claim is given up, if it is still this call's.
ClassifierFails(i) ==
    LET r == job[i].record IN
    /\ ingester[i] = "classify"
    /\ record[r].kind = "message"
    /\ record' = [record EXCEPT ![r] =
                    IF @.owner = i THEN [@ EXCEPT !.status = "failed", !.owner = Nobody,
                                                  !.fresh = FALSE]
                    ELSE @]
    /\ EndCall(i, "idle")
    /\ UNCHANGED <<enrollment, mailVars, followUpVars>>

OwnsRecord(i) == record[job[i].record].owner = i

OutstandingBeside(step) == \E s \in Steps \ {step} : message[s] \in Attempted

\* The enrollment after the last transaction, and whether the first message is
\* dead from now on.
Conclude(category, held) ==
    IF category # "hard"
    THEN enrollment' = Answered(enrollment, category, held) /\ UNCHANGED <<message, original>>
    ELSE /\ \E verdict \in LadderVerdicts(enrollment, 0, Dead, OutstandingBeside(0)) :
              enrollment' =
                IF ~verdict.owns THEN Answered(enrollment, category, held)
                ELSE IF held
                     THEN [verdict.row EXCEPT
                             !.holds = Fewer(@),
                             !.prev = IF Fewer(enrollment.holds) = 0 THEN NoSnapshot ELSE @]
                     ELSE verdict.row
         /\ original' = IF Dead THEN original
                        ELSE IF message[0] = "uncertain" THEN "deadUnconfirmed" ELSE "dead"
         /\ message' = IF Dead THEN message ELSE [message EXCEPT ![0] = "none"]

\* The last transaction.
Finish(i) ==
    LET r == job[i].record IN
    /\ ingester[i] = "finish" /\ LocksFree
    /\ OwnsRecord(i)
    /\ Conclude(job[i].category, job[i].held)
    /\ record' = [record EXCEPT ![r] = [@ EXCEPT !.status = "processed", !.owner = Nobody,
                                                 !.fresh = FALSE, !.category = job[i].category]]
    /\ EndCall(i, "idle")
    /\ UNCHANGED <<minted, followUpVars>>

\* Another call took the claim over: nothing is written.
FinishFenced(i) ==
    /\ ingester[i] = "finish" /\ LocksFree
    /\ ~OwnsRecord(i)
    /\ EndCall(i, "idle")
    /\ UNCHANGED <<enrollment, mailVars, record, followUpVars>>

\* Five minutes pass since the claim; a slow classifier may still be at work.
RecordClaimAges(r) ==
    /\ record[r].fresh
    /\ record' = [record EXCEPT ![r].fresh = FALSE]
    /\ UNCHANGED <<enrollment, mailVars, ingester, job, followUpVars>>

-----------------------------------------------------------------------------
(* The send, as the enrollment sees it. *)

\* evaluateSendPolicy, as far as it reads this enrollment.
SendAllowed(s) ==
    /\ message[s] \in {"approved", "released"}
    /\ enrollment.state = "approved" /\ enrollment.step = s
    /\ enrollment.stop \notin {"manual_stop", "hard_bounce"}
    /\ enrollment.holds = 0
    /\ enrollment.lastReply # "terminal"

Submit(s) ==
    /\ LocksFree
    /\ SendAllowed(s)
    /\ message' = [message EXCEPT ![s] = "sending"]
    /\ UNCHANGED <<enrollment, original, minted>>

OperatorSends(s) ==
    /\ Submit(s)
    /\ UNCHANGED <<inboundVars, followUpVars>>

\* The first message, when it is still the one that was submitted at Init,
\* reached the server, as the replies and reports about it prove: it is neither
\* refused nor taken for one that was never sent.
MayBeRefused(s) == s # 0 \/ Dead

FinalizeSent(s) ==
    /\ message' = [message EXCEPT ![s] = "sent"]
    /\ enrollment' = Confirmed(enrollment, s, minted + 1)
    /\ minted' = minted + 1
    /\ UNCHANGED original

\* A refusal of the address itself asks the ladder, any other parks the
\* enrollment.
MarkPermanentlyRejected(s) ==
    /\ MayBeRefused(s)
    /\ \/ /\ message' = [message EXCEPT ![s] = "failed"]
          /\ enrollment' = Rejected(enrollment, FALSE)
       \/ /\ message' = [message EXCEPT ![s] = "none"]
          /\ \E verdict \in LadderVerdicts(enrollment, s, FALSE, OutstandingBeside(s)) :
               enrollment' = IF verdict.owns THEN verdict.row
                             ELSE Rejected(enrollment, TRUE)
    /\ UNCHANGED <<original, minted>>

\* The worker that sent, if one did, learns how it went.
Senders(step) ==
    /\ worker' = [w \in Workers |-> IF worker[w] = "sending" THEN step ELSE worker[w]]
    /\ expected' = [w \in Workers |-> IF worker[w] = "sending" /\ step = "idle"
                                      THEN NothingExpected ELSE expected[w]]

SettleSent(s) ==
    /\ message[s] = "sending"
    /\ FinalizeSent(s) /\ Senders("idle")
    /\ UNCHANGED inboundVars

SettleRefused(s) ==
    /\ message[s] = "sending"
    /\ MarkPermanentlyRejected(s) /\ Senders("handBack")
    /\ UNCHANGED inboundVars

\* No verdict: the locks are released and the message stays uncertain.
SettleUnconfirmed(s) ==
    /\ message[s] = "sending"
    /\ message' = [message EXCEPT ![s] = "uncertain"]
    /\ Senders("handBack")
    /\ UNCHANGED <<enrollment, original, minted, inboundVars>>

\* A later reconciliation of an uncertain message, under no lock of the
\* enrollment's.
ConfirmLate(s) ==
    /\ message[s] = "uncertain"
    /\ FinalizeSent(s)
    /\ UNCHANGED <<inboundVars, followUpVars>>

RefuseLate(s) ==
    /\ message[s] = "uncertain" /\ LocksFree
    /\ MarkPermanentlyRejected(s)
    /\ UNCHANGED <<inboundVars, followUpVars>>

\* The provider proves that it never took the message, which only SMTP's journal
\* can: it is drafted again, and may be sent again.  A release that a submission
\* still under way overtakes is SendService's (SentIsFinal), not this module's.
ReleaseUncertain(s) ==
    /\ message[s] = "uncertain" /\ MayBeRefused(s)
    /\ message' = [message EXCEPT ![s] = "released"]
    /\ UNCHANGED <<enrollment, original, minted, inboundVars, followUpVars>>

\* The message of a dead address is confirmed: the sequence does not move.
ConfirmDead ==
    /\ original = "deadUnconfirmed"
    /\ original' = "dead"
    /\ enrollment' = Unclaimed(enrollment)
    /\ UNCHANGED <<message, minted, inboundVars, followUpVars>>

-----------------------------------------------------------------------------
(* processFollowUpInvocation *)

\* The invocation goes on, or ends and forgets what it was for.
Goto(w, step) ==
    /\ worker' = [worker EXCEPT ![w] = step]
    /\ UNCHANGED expected
Return(w, as) ==
    /\ worker' = [worker EXCEPT ![w] = as]
    /\ expected' = [expected EXCEPT ![w] = NothingExpected]

Claims(w) == enrollment.claim = w

\* findDueEnrollments; ready_for_review only when the step has no message.
FindDue(w) ==
    /\ worker[w] = "idle"
    /\ enrollment.due /\ enrollment.token # 0
    /\ \/ enrollment.state \in {"waiting", "approved"}
       \/ enrollment.state = "ready_for_review" /\ message[enrollment.step] = "none"
    /\ worker' = [worker EXCEPT ![w] = "found"]
    /\ expected' = [expected EXCEPT ![w] = [step |-> enrollment.step,
                                            token |-> enrollment.token]]
    /\ UNCHANGED <<enrollment, mailVars, inboundVars>>

\* validateWorkflowInvocation, after the previous step's live message was found
\* and no reply is pending.
InvocationValid(w) ==
    /\ enrollment.step > 0 /\ message[enrollment.step - 1] # "none"
    /\ enrollment.holds = 0
    /\ enrollment.state \in {"waiting", "ready_for_review", "approved"}
    /\ enrollment.due
    /\ [step |-> enrollment.step, token |-> enrollment.token] = expected[w]
    /\ enrollment.claim = Nobody \/ ~enrollment.lease

\* Also an inactive professional relevance, which writes nothing.
InvocationRefused(w) ==
    /\ worker[w] = "found"
    /\ Return(w, "idle")
    /\ UNCHANGED <<enrollment, mailVars, inboundVars>>

\* Campaign not active, emergency pause or mailbox unavailable.
InvocationBlocked(w) ==
    /\ worker[w] = "found" /\ InvocationValid(w)
    /\ Goto(w, "blocked")
    /\ UNCHANGED <<enrollment, mailVars, inboundVars>>

InvocationSuppressed(w) ==
    /\ worker[w] = "found" /\ InvocationValid(w)
    /\ enrollment' = EndedBy(enrollment, "stopped", "other")
    /\ Return(w, "idle")
    /\ UNCHANGED <<mailVars, inboundVars>>

ClaimFollowUp(w) ==
    /\ worker[w] = "found" /\ InvocationValid(w)
    /\ enrollment' = [enrollment EXCEPT
                        !.state = IF @ = "waiting" THEN "ready_for_review" ELSE @,
                        !.claim = w, !.lease = TRUE]
    /\ \/ Goto(w, "generate")
       \/ Goto(w, "handBackReview")     \* the step declares personalization
    /\ UNCHANGED <<mailVars, inboundVars>>

\* generateOutreachProposal for the worker.  Nothing it finds in the states it
\* accepts needs the promotion that awaitReview makes for the others.
AwaitReview(e) ==
    IF e.state \in {"waiting", "approved", "ready_for_review"} THEN e
    ELSE [e EXCEPT !.state = "ready_for_review"]

MayGenerate == enrollment.holds = 0 /\ enrollment.state \notin Terminal

\* The message the step has, or a new proposal.
Generated(s) == IF message[s] = "none" THEN "proposed" ELSE message[s]

GenerateFollowUp(w) ==
    LET s == expected[w].step IN
    /\ worker[w] = "generate"
    /\ MayGenerate /\ Claims(w)
    /\ message' = [message EXCEPT ![s] = Generated(s)]
    /\ enrollment' = IF message'[s] = "proposed" THEN AwaitReview(enrollment) ELSE enrollment
    /\ \/ ~enrollment.automatic /\ Goto(w, "release")
       \/ enrollment.automatic /\ Goto(w, CASE message'[s] = "proposed" -> "review"
                                          [] message'[s] \in {"approved", "released"} -> "approve"
                                          [] OTHER -> "send")
       \/ enrollment.automatic /\ Goto(w, "handBackReview")   \* agent-written fields
    /\ UNCHANGED <<original, minted, inboundVars>>

\* A template error, or one of the refusals above.
GenerationFails(w) ==
    /\ worker[w] = "generate"
    /\ Goto(w, "handBack")
    /\ UNCHANGED <<enrollment, mailVars, inboundVars>>

ReleaseFollowUpClaim(w) ==
    /\ worker[w] = "release"
    /\ enrollment' = IF Claims(w) THEN Unclaimed(enrollment) ELSE enrollment
    /\ Return(w, "idle")
    /\ UNCHANGED <<mailVars, inboundVars>>

Reviewable(s) ==
    /\ enrollment.state = "ready_for_review" /\ enrollment.holds = 0
    /\ message[s] = "proposed"

ReviewFollowUp(w) ==
    LET s == expected[w].step IN
    /\ worker[w] = "review"
    /\ IF Reviewable(s) /\ Claims(w)
       THEN /\ message' = [message EXCEPT ![s] = "approved"]
            /\ enrollment' = [enrollment EXCEPT !.state = "approved"]
            /\ Goto(w, "send")
       ELSE Goto(w, "handBack") /\ UNCHANGED <<enrollment, message>>
    /\ UNCHANGED <<original, minted, inboundVars>>

\* The step's message was approved before: the update has no condition but the
\* enrollment's id.
ApproveExisting(w) ==
    /\ worker[w] = "approve"
    /\ enrollment' = [enrollment EXCEPT !.state = "approved"]
    /\ Goto(w, "send")
    /\ UNCHANGED <<mailVars, inboundVars>>

SendFollowUp(w) ==
    /\ worker[w] = "send" /\ Claims(w)
    /\ Submit(expected[w].step)
    /\ Goto(w, "sending")
    /\ UNCHANGED inboundVars

\* Every other answer of sendApprovedMessage: already sent, refused for now, or
\* refused.
SendFollowUpRefused(w) ==
    /\ worker[w] = "send"
    /\ \/ Claims(w) /\ message[expected[w].step] = "sent" /\ Return(w, "idle")
       \/ Goto(w, "reschedule")
       \/ Goto(w, "handBack")
    /\ UNCHANGED <<enrollment, mailVars, inboundVars>>

\* rescheduleFollowUp, with the claim id or, when there never was a claim,
\* without.  Invocations found for the old due date are stale.
RescheduleFollowUp(w) ==
    /\ worker[w] \in {"blocked", "reschedule"}
    /\ IF enrollment.state \in Terminal \/ (worker[w] = "reschedule" /\ ~Claims(w))
       THEN Return(w, "idle") /\ UNCHANGED enrollment
       ELSE /\ enrollment' = [Unclaimed(enrollment) EXCEPT !.state = "waiting", !.due = TRUE]
            /\ LET over == {x \in Workers : x = w \/ worker[x] = "found"} IN
                 /\ worker' = [x \in Workers |-> IF x \in over THEN "idle" ELSE worker[x]]
                 /\ expected' = [x \in Workers |-> IF x \in over THEN NothingExpected
                                                   ELSE expected[x]]
    /\ UNCHANGED <<mailVars, inboundVars>>

MarkFollowUpHandedBack(w) ==
    /\ worker[w] \in {"handBack", "handBackReview"}
    /\ enrollment' =
         IF Claims(w) /\ enrollment.state \notin Terminal
         THEN [Unclaimed(Unscheduled(enrollment)) EXCEPT
                 !.state = IF worker[w] = "handBack" THEN "manual_review"
                           ELSE "ready_for_review"]
         ELSE enrollment
    /\ Return(w, "idle")
    /\ UNCHANGED <<mailVars, inboundVars>>

\* A minute passes since the claim; the worker may still be at work.
LeaseExpires ==
    /\ enrollment.lease
    /\ enrollment' = [enrollment EXCEPT !.lease = FALSE]
    /\ UNCHANGED <<mailVars, inboundVars, followUpVars>>

-----------------------------------------------------------------------------
(* The operator, and what the operator queue runs. *)

\* generateOutreachProposal from the prospect page or the queue.
Generate ==
    LET s == enrollment.step IN
    /\ MayGenerate
    /\ Generated(s) = "proposed"
    /\ message' = [message EXCEPT ![s] = "proposed"]
    /\ enrollment' = AwaitReview(enrollment)
    /\ UNCHANGED <<original, minted, inboundVars, followUpVars>>

Approve(s) ==
    /\ Reviewable(s)
    /\ message' = [message EXCEPT ![s] = "approved"]
    /\ enrollment' = [enrollment EXCEPT !.state = "approved"]
    /\ UNCHANGED <<original, minted, inboundVars, followUpVars>>

RejectProposal(s) ==
    /\ Reviewable(s)
    /\ message' = [message EXCEPT ![s] = "cancelled"]
    /\ enrollment' = EndedBy(enrollment, "stopped", "manual_stop")
    /\ UNCHANGED <<original, minted, inboundVars, followUpVars>>

\* stopEnrollment, and an employer change found by contact discovery.
Stop ==
    /\ LocksFree
    /\ enrollment.state \notin Terminal
    /\ \E why \in {"manual_stop", "other"} :
         enrollment' = EndedBy(enrollment, "stopped", why)
    /\ UNCHANGED <<mailVars, inboundVars, followUpVars>>

-----------------------------------------------------------------------------

\* The process dies; a send it had under way is settled by recovery.
IngesterDies(i) ==
    /\ i \in Mortal /\ ingester[i] \notin {"idle", "down"}
    /\ EndCall(i, "down")
    /\ UNCHANGED <<enrollment, mailVars, record, followUpVars>>

WorkerDies(w) ==
    /\ w \in Mortal /\ worker[w] \notin {"idle", "down"}
    /\ Return(w, "down")
    /\ message' = [s \in Steps |-> IF worker[w] = "sending" /\ message[s] = "sending"
                                   THEN "uncertain" ELSE message[s]]
    /\ UNCHANGED <<enrollment, original, minted, inboundVars>>

-----------------------------------------------------------------------------

IngestStep(i) ==
    \/ Classify(i)
    \/ ClassifierFails(i)
    \/ Finish(i)
    \/ FinishFenced(i)

Ingest(i) ==
    \/ \E r \in Records : Receive(i, r) \/ Redeliver(i, r) \/ Sweep(i, r)
    \/ IngestStep(i)
    \/ IngesterDies(i)

FollowUp(w) ==
    \/ FindDue(w)
    \/ InvocationRefused(w)
    \/ InvocationBlocked(w)
    \/ InvocationSuppressed(w)
    \/ ClaimFollowUp(w)
    \/ GenerateFollowUp(w)
    \/ GenerationFails(w)
    \/ ReleaseFollowUpClaim(w)
    \/ ReviewFollowUp(w)
    \/ ApproveExisting(w)
    \/ SendFollowUp(w)
    \/ SendFollowUpRefused(w)
    \/ RescheduleFollowUp(w)
    \/ MarkFollowUpHandedBack(w)
    \/ WorkerDies(w)

Settle(s) ==
    \/ SettleSent(s)
    \/ SettleRefused(s)
    \/ SettleUnconfirmed(s)

Send(s) ==
    \/ OperatorSends(s)
    \/ Settle(s)
    \/ ConfirmLate(s)
    \/ RefuseLate(s)
    \/ ReleaseUncertain(s)

Operator ==
    \/ Generate
    \/ \E s \in Steps : Approve(s) \/ RejectProposal(s)
    \/ Stop

Next ==
    \/ \E i \in Ingesters : Ingest(i)
    \/ \E w \in Workers : FollowUp(w)
    \/ \E s \in Steps : Send(s)
    \/ \E r \in Records : RecordClaimAges(r)
    \/ ConfirmDead
    \/ LeaseExpires
    \/ Operator

Spec == Init /\ [][Next]_vars

-----------------------------------------------------------------------------
(* Properties. *)

\* The records whose hold on the enrollment is not released yet.
Holding == {r \in Records : record[r].hold /\ record[r].status # "processed"}

Submits(s) == message[s] # "sending" /\ message'[s] = "sending"

\* inbound_hold_count is the number of inbound records that hold the
\* enrollment, whatever was redelivered, taken over, fenced off, re-addressed
\* or confirmed in between; only the end of a sequence drops the holds.  (In a
\* campaign with automatic follow-ups ApproveExisting takes an ended row back
\* without its holds: see TerminalIsFinal.)
HoldsAreCounted ==
    enrollment.state \notin Ended /\ ~enrollment.automatic =>
        enrollment.holds = Cardinality(Holding)

\* Nothing is submitted while a reply or report that holds the enrollment is
\* not classified and applied (evaluateStoredSendPolicy's REPLY_PENDING).
NoSubmitWhileReplyPending == [][\A s \in Steps : Submits(s) => Holding = {}]_vars

\* The schedule an enrollment has, or gets back from its hold, is never that
\* of a step that was sent: giving back what a hold interrupted must not send
\* the sequence back (finalizeSent under a hold).  A schedule is one that
\* findDueEnrollments can find, which takes a token: rescheduleFollowUp leaves a
\* due date, without one, on whatever row it comes upon.
NoScheduleForSentStep ==
    enrollment.token # 0 \/ enrollment.prev.token # 0 =>
        message[enrollment.step] # "sent"

\* A sequence that a reply, a bounce or the operator ended stays ended.
TerminalIsFinal == [][enrollment.state \in Ended => enrollment'.state \in Ended]_vars

RepliedTo == \E r \in Records : record[r].category = "terminal"

\* Something else than final answers came in as well.
OtherNews == \E r \in Records : record[r].category \notin {"none", "terminal"}

\* Nobody who answered for good is written to again: not even when the state
\* that says so was overwritten (lastReplyClassification in
\* evaluateStoredSendPolicy).  What the row remembers is its last reply, so a
\* later answer or report lets a submission through where the ended row was
\* taken back (ApproveExisting), or re-addressed after its only step.
NoSubmitAfterTerminalReply ==
    [][\A s \in Steps : Submits(s) /\ RepliedTo =>
        OtherNews /\ (enrollment.automatic \/ LastStep = 0)]_vars

WorkerSubmits(w) == worker[w] = "send" /\ worker'[w] = "sending"

\* A follow-up the worker sends is of the step the enrollment is at, follows a
\* confirmed message to a live address, and belongs to no ended sequence,
\* whatever claims expired or were taken over on the way.
WorkerSendsNext ==
    [][\A w \in Workers : WorkerSubmits(w) =>
        /\ expected[w].step = enrollment.step
        /\ message[enrollment.step - 1] = "sent"
        /\ enrollment.state \notin Ended]_vars

\* An invocation whose schedule was withdrawn since it was found sends nothing:
\* stale runs "either reuse durable state or no-op" (docs/workflows.md).
StaleInvocationsSendNothing ==
    [][\A w \in Workers : WorkerSubmits(w) =>
        expected[w] = [step |-> enrollment.step, token |-> enrollment.token]]_vars

\* An enrollment that waits, with no reply pending, is one that
\* findDueEnrollments will find: nobody else looks at it again.
WaitingIsScheduled ==
    enrollment.state = "waiting" /\ enrollment.holds = 0 =>
        enrollment.due /\ enrollment.token # 0

\* The sequence as OutreachSequence sees it.
Flight == {"sending", "uncertain"}

MailOf(status) ==
    CASE status \in Flight -> "handed"
      [] status = "sent" -> "confirmed"
      [] status = "failed" -> "refused"
      [] OTHER -> "unsent"

OutcomeOf(state) ==
    CASE state \in Ended -> "ended"
      [] state = "completed" -> "completed"
      [] OTHER -> "open"

Mail == [s \in Steps |-> MailOf(message[s])]

Sequence == INSTANCE OutreachSequence WITH
                Last       <- LastStep,
                place      <- enrollment.step,
                mail       <- Mail,
                outcome    <- OutcomeOf(enrollment.state),
                dead       <- Dead,
                unattended <- enrollment.automatic

\* Whatever replies, reports, holds, expired claims, late confirmations and the
\* operator do to the row in between, the enrollment implements the sequence:
\* one message under way at a time, the enrollment's step moving with its
\* confirmation only and back only for a dead address, and an end for good
\* unless nobody reviews the follow-ups.
KeepsInStep == Sequence!SequenceSpec

\* No step of the sequence is left out: what is behind the enrollment's step was
\* confirmed, unless it went to an address that turned out to be dead.
NothingIsSkipped ==
    \A t \in Steps : t < enrollment.step => message[t] = "sent" \/ (t = 0 /\ Dead)

-----------------------------------------------------------------------------
(* Liveness. *)

\* A call whose claim is still its own gets its classification.
AnsweredInTime(r) == \E i \in Ingesters :
    record[r].owner = i /\ job[i].record = r /\ Classify(i)

\* A live call goes on, and is not overtaken in its last transaction for ever;
\* sweeps keep coming in every process that does not die; the locks of a send
\* are released.  A delivery report is classified on the spot.
Fairness ==
    /\ \A i \in Ingesters : WF_vars(IngestStep(i)) /\ SF_vars(Finish(i))
    /\ \A i \in Ingesters \ Mortal, r \in Records : SF_vars(Sweep(i, r))
    /\ \A r \in Records : WF_vars(RecordClaimAges(r))
    /\ \A r \in Records : SF_vars(record[r].kind # "message" /\ AnsweredInTime(r))
    /\ \A s \in Steps : WF_vars(Settle(s))

FairSpec == Spec /\ Fairness

\* The classifier does not fail on the same message for ever.
RecoveringSpec == FairSpec /\ \A r \in Records : SF_vars(AnsweredInTime(r))

\* Every hold a record takes on the enrollment is released, even when the
\* process that took it died or its classification failed.
HoldsAreReleased == \A r \in Records : r \in Holding ~> r \notin Holding

\* A delivery report whose ingestion was cut short is ingested by a later run:
\* "The recovery task reclaims expired [...] inbound classification"
\* (docs/workflows.md), whatever other records are in trouble.
AbandonedReportsAreReclaimed ==
    \A r \in Records :
        record[r].status = "processing" /\ record[r].kind # "message"
            ~> record[r].status = "processed"
=============================================================================
