---------------------------- MODULE SendService ----------------------------
(***************************************************************************)
(* sendApprovedMessage (send-service.ts) run by several callers at once on *)
(* one outreach message, together with the recovery sweep that hands       *)
(* expired requests back (recovery-service.ts).                            *)
(*                                                                         *)
(* One action is one PostgreSQL transaction; provider calls run between    *)
(* transactions, step by step, in MailProvider.  A caller may stop at any  *)
(* point (process crash, lost database connection): what it leaves behind  *)
(* is what it committed.                                                   *)
(***************************************************************************)
EXTENDS MailProvider

CONSTANTS
    Operators,      \* callers acting for a send request: UI, API, scheduled lane
    Recoverers,     \* callers of the recover-stale-work stage
    Tokens,         \* claim tokens (randomUUID)
    NoToken,
    Nobody,         \* holder of the action locks when they are free
    Crashing,       \* callers whose process can die in the middle of a call
    Disturbances    \* which other events around the callers may happen

ASSUME CallersAssumption ==
    /\ Callers = Operators \cup Recoverers
    /\ Nobody \notin Callers
    /\ NoToken \notin Tokens
    /\ Crashing \subseteq Callers
    /\ Disturbances \subseteq {"slowOwner", "lockLoss", "permission", "mailbox"}

VARIABLES
    message,     \* the messages row
    enrollment,  \* whether the enrollment still waits for this send
    permitted,   \* every other condition of the send policy, taken together
    mailbox,     \* mailbox_connections.status
    lock,        \* holder of the action locks a send takes
    pc,          \* where each caller is
    claimed      \* what each caller remembers of the row from its claim

serviceVars == <<message, enrollment, permitted, mailbox, lock, pc, claimed>>
vars == <<serviceVars, providerVars>>

Statuses == {"approved", "draft_creating", "drafted", "sending",
             "delivery_uncertain", "sent", "failed"}

Messages == [status  : Statuses,
             token   : Tokens \cup {NoToken},           \* sendAttemptToken
             attempt : 0..1,                            \* attemptCount
             draft   : BOOLEAN,                         \* providerDraftId is set
             claim   : {"none", "fresh", "stale"},      \* age of sendClaimedAt
             request : {"none", "open", "expired"}]     \* age of sendRequestedAt

ApprovedMessage ==
    [status |-> "approved", token |-> NoToken, attempt |-> 0,
     draft |-> FALSE, claim |-> "none", request |-> "none"]

ProviderCalls == {"reconcileClaim", "reconcileDraft", "createDraft",
                  "reconcileSend", "sendDraft", "confirm"}

Steps == {"idle", "listed", "sweep", "persistDraft", "lock", "release",
          "finalPolicy", "noteDraft", "markUncertain"} \cup ProviderCalls

\* pc values at which a caller runs inside withActionLocks
Locked == {"finalPolicy", "sendDraft", "confirm"}

TypeOK ==
    /\ ProviderTypeOK
    /\ message \in Messages
    /\ enrollment \in {"sendable", "moved_on"}
    /\ permitted \in BOOLEAN
    /\ mailbox \in {"available", "revoked"}
    /\ lock \in Callers \cup {Nobody}
    /\ pc \in [Callers -> Steps]
    /\ claimed \in [Callers -> Messages]

Init ==
    /\ ProviderInit
    /\ message = ApprovedMessage
    /\ enrollment = "sendable"
    /\ permitted = TRUE
    /\ mailbox = "available"
    /\ lock = Nobody
    /\ pc = [c \in Callers |-> "idle"]
    /\ claimed = [c \in Callers |-> ApprovedMessage]

-----------------------------------------------------------------------------
(* How a caller moves. *)

\* The next local step, no provider call in progress.
Goto(c, step) ==
    /\ pc' = [pc EXCEPT ![c] = step]
    /\ EndCall(c)

\* The next step is a provider call; it is given the draftId of the row the
\* caller holds.
GotoCall(c, step, row) ==
    /\ pc' = [pc EXCEPT ![c] = step]
    /\ BeginCall(c, IF step \in {"createDraft", "sendDraft"} THEN step ELSE "reconcile",
                 row.draft)

Return(c) ==
    /\ Goto(c, "idle")
    /\ claimed' = [claimed EXCEPT ![c] = ApprovedMessage]

\* What a caller still reads of the row it claimed: a non-owner the state it
\* found, an owner its token and draftId.
Seen(row) == [row EXCEPT !.request = "none"]
Owned(row) == [ApprovedMessage EXCEPT !.token = row.token, !.draft = row.draft]

Answered(c, step) == pc[c] = step /\ op[c] = "replied"

\* revokeMailboxOnAuthFailure after a failed provider call.
MailboxAfter(r) == IF r = "denied" THEN "revoked" ELSE mailbox

\* evaluateStoredSendPolicy: the row's own status, the enrollment, the
\* mailbox, and the rest (campaign, pause, hours, caps, suppressions, holds).
PolicyAllows ==
    /\ message.status \in {"approved", "drafted", "sending", "delivery_uncertain"}
    /\ enrollment = "sendable"
    /\ mailbox = "available"
    /\ permitted

FreshTokens ==
    Tokens \ ({message.token} \cup {claimed[c].token : c \in Callers})

-----------------------------------------------------------------------------
(* The claim transaction. *)

MayCall(c) == pc[c] = IF c \in Recoverers THEN "listed" ELSE "idle"

\* Something already holds, or once held, this message's send.
InFlight(m) ==
    \/ m.status \in {"draft_creating", "sending", "delivery_uncertain"}
    \/ m.attempt > 0
    \/ m.token # NoToken

ClaimRefused(c) ==
    /\ MayCall(c) /\ pc[c] = "listed"
    /\ \/ message.status = "sent"
       \/ InFlight(message) /\ mailbox # "available"
       \/ ~InFlight(message) /\ ~PolicyAllows
    /\ Return(c)
    /\ UNCHANGED <<message, enrollment, permitted, mailbox, lock>>

ExistingClaim(c) ==
    /\ MayCall(c)
    /\ message.status # "sent" /\ InFlight(message)
    /\ mailbox = "available"
    /\ claimed' = [claimed EXCEPT ![c] = Seen(message)]
    /\ GotoCall(c, "reconcileClaim", message)
    /\ UNCHANGED <<message, enrollment, permitted, mailbox, lock>>

ClaimSend(c) ==
    /\ MayCall(c)
    /\ message.status # "sent" /\ ~InFlight(message) /\ PolicyAllows
    /\ \E t \in FreshTokens :
         message' = [message EXCEPT
                       !.status  = IF message.draft THEN "sending" ELSE "draft_creating",
                       !.token   = t,
                       !.claim   = "fresh",
                       !.request = IF message.status = "approved" THEN "open" ELSE @]
    /\ claimed' = [claimed EXCEPT ![c] = Owned(message')]
    /\ GotoCall(c, IF message.draft THEN "reconcileSend" ELSE "reconcileDraft", message)
    /\ UNCHANGED <<enrollment, permitted, mailbox, lock>>

-----------------------------------------------------------------------------
(* The transactions a caller ends in, as the row each of them leaves. *)

Released(m, status) ==
    [m EXCEPT !.status = status, !.token = NoToken, !.claim = "none",
              !.request = IF status = "approved" THEN "none" ELSE @]

\* finalizeSent
Finalized(m) ==
    IF m.status = "sent" THEN m ELSE [m EXCEPT !.status = "sent", !.draft = TRUE]

\* markDeliveryUncertain
MarkedUncertain(m) ==
    IF m.status = "sent" THEN m ELSE [m EXCEPT !.status = "delivery_uncertain"]

\* markPermanentlyRejected
MarkedRejected(m) ==
    IF m.status \in {"sent", "failed"} THEN m
    ELSE [m EXCEPT !.status = "failed", !.token = NoToken, !.claim = "none"]

\* recordProviderFailure with releasePreSendClaim
ReleasedByFailure(m, token) ==
    IF m.attempt = 0 /\ m.token = token
    THEN Released(m, IF m.draft THEN "drafted" ELSE "approved")
    ELSE m

\* releaseUnattemptedClaim
ReleasedUnattempted(m, token) ==
    IF m.attempt = 0 /\ m.token = token THEN Released(m, "drafted") ELSE m

\* The release of an uncertain message whose draft is still in Drafts.
ReleasedUncertain(m, token) ==
    IF m.status = "delivery_uncertain" /\ m.token = token
    THEN [Released(m, "drafted") EXCEPT !.draft = TRUE, !.attempt = 0]
    ELSE m

\* Mutant: no second look at the attempt.
ReleasedStaleUnchecked(m, seen, found) ==
    IF m.token = seen.token
    THEN Released(m, IF found \/ seen.draft THEN "drafted" ELSE "approved")
    ELSE m

\* The release of a stale claim that made no attempt.
ReleasedStale(m, seen, found) ==
    IF m.attempt = 0 /\ m.token = seen.token
    THEN [Released(m, IF found \/ seen.draft THEN "drafted" ELSE "approved")
            EXCEPT !.draft = @ \/ found]
    ELSE m

\* Mutant: the row is not looked at again.
SweptBackUnchecked(m) == Released(m, "approved")

\* releaseExpiredSendRequests, one row
SweptBack(m) ==
    IF m.status = "drafted" THEN Released(m, "approved") ELSE m

\* A sent or refused message moves the enrollment away from this send.
MovesEnrollment(settled) ==
    enrollment' = IF message.status \in settled THEN enrollment ELSE "moved_on"

Finalize ==
    /\ message' = Finalized(message)
    /\ MovesEnrollment({"sent"})
    /\ UNCHANGED <<permitted, mailbox>>

Reject ==
    /\ message' = MarkedRejected(message)
    /\ MovesEnrollment({"sent", "failed"})
    /\ UNCHANGED <<permitted, mailbox>>

\* A transaction on the message row only.
Write(row) ==
    /\ message' = row
    /\ UNCHANGED <<enrollment, permitted, mailbox>>

-----------------------------------------------------------------------------
(* Outcomes every reconciliation outside the action locks shares. *)

Reconciling == {"reconcileClaim", "reconcileDraft", "reconcileSend"}

ReconciledSent(c) ==
    /\ pc[c] \in Reconciling /\ Answered(c, pc[c]) /\ reply[c] = "sent"
    /\ Finalize
    /\ Return(c)
    /\ UNCHANGED lock

\* Takes the domain lock, which a send in progress holds.
ReconciledRejected(c) ==
    /\ pc[c] \in Reconciling /\ Answered(c, pc[c]) /\ reply[c] = "rejected"
    /\ lock = Nobody
    /\ Reject
    /\ Return(c)
    /\ UNCHANGED lock

\* A submission is out with no confirmation.  A draftId the row lacks is
\* written first, by an update of its own.
ReconciledAccepted(c) ==
    /\ pc[c] \in Reconciling /\ Answered(c, pc[c]) /\ reply[c] = "accepted"
    /\ Goto(c, IF claimed[c].draft THEN "markUncertain" ELSE "noteDraft")
    /\ claimed' = [claimed EXCEPT ![c] = IF pc[c] = "reconcileClaim"
                                          THEN ApprovedMessage ELSE @]
    /\ UNCHANGED <<message, enrollment, permitted, mailbox, lock>>

NoteDraft(c) ==
    /\ pc[c] = "noteDraft"
    /\ Write([message EXCEPT !.draft = TRUE])
    /\ Goto(c, "markUncertain")
    /\ UNCHANGED <<lock, claimed>>

MarkUncertain(c) ==
    /\ pc[c] = "markUncertain"
    /\ Write(MarkedUncertain(message))
    /\ Return(c)
    /\ UNCHANGED lock

-----------------------------------------------------------------------------
(* The existing_claim branch: somebody else's claim is only reconciled. *)

ClaimReconciliationFailed(c) ==
    /\ Answered(c, "reconcileClaim") /\ reply[c] \in Failures
    /\ LET seen == claimed[c] IN
         message' = IF \/ seen.attempt > 0
                       \/ seen.status # "delivery_uncertain" /\ seen.claim = "stale"
                    THEN MarkedUncertain(message) ELSE message
    /\ mailbox' = MailboxAfter(reply[c])
    /\ Return(c)
    /\ UNCHANGED <<enrollment, permitted, lock>>

\* Mutant: Graph's draft is believed too.
ReleaseUncertainAnyProvider(c) ==
    /\ Answered(c, "reconcileClaim") /\ reply[c] \in {"drafted", "missing"}
    /\ claimed[c].status = "delivery_uncertain"
    /\ Write(IF reply[c] = "drafted"
             THEN ReleasedUncertain(message, claimed[c].token) ELSE message)
    /\ Return(c)
    /\ UNCHANGED lock

\* Graph can show a draft it has already accepted, so only the SMTP journal
\* may take an uncertain message back.
ReleaseUncertain(c) ==
    /\ Answered(c, "reconcileClaim") /\ reply[c] \in {"drafted", "missing"}
    /\ claimed[c].status = "delivery_uncertain"
    /\ Write(IF reply[c] = "drafted" /\ ~Graph
             THEN ReleasedUncertain(message, claimed[c].token) ELSE message)
    /\ Return(c)
    /\ UNCHANGED lock

LeaveOrRelease(c) ==
    /\ Answered(c, "reconcileClaim") /\ reply[c] \in {"drafted", "missing"}
    /\ LET seen == claimed[c] IN
         /\ seen.status # "delivery_uncertain"
         /\ Write(IF seen.claim # "stale" THEN message
                  ELSE IF seen.attempt > 0 THEN MarkedUncertain(message)
                  ELSE ReleasedStale(message, seen, reply[c] = "drafted"))
    /\ Return(c)
    /\ UNCHANGED lock

-----------------------------------------------------------------------------
(* The owner's branch, up to the action locks. *)

OwnerCallFailed(c) ==
    /\ pc[c] \in {"reconcileDraft", "createDraft", "reconcileSend"}
    /\ Answered(c, pc[c]) /\ reply[c] \in Failures
    /\ message' = ReleasedByFailure(message, claimed[c].token)
    /\ mailbox' = MailboxAfter(reply[c])
    /\ Return(c)
    /\ UNCHANGED <<enrollment, permitted, lock>>

DraftReconciled(c) ==
    /\ Answered(c, "reconcileDraft")
    /\ \/ reply[c] = "drafted" /\ Goto(c, "persistDraft")
       \/ reply[c] = "missing" /\ GotoCall(c, "createDraft", claimed[c])
    /\ UNCHANGED <<message, enrollment, permitted, mailbox, lock, claimed>>

DraftCreated(c) ==
    /\ Answered(c, "createDraft") /\ reply[c] = "done"
    /\ Goto(c, "persistDraft")
    /\ UNCHANGED <<message, enrollment, permitted, mailbox, lock, claimed>>

PersistDraft(c) ==
    /\ pc[c] = "persistDraft"
    /\ IF message.status = "draft_creating" /\ message.token = claimed[c].token
       THEN /\ Write([message EXCEPT !.status = "sending", !.draft = TRUE])
            /\ claimed' = [claimed EXCEPT ![c] = Owned(message')]
            /\ GotoCall(c, "reconcileSend", message')
       ELSE Write(message) /\ Return(c)
    /\ UNCHANGED lock

SendReconciled(c) ==
    /\ Answered(c, "reconcileSend") /\ reply[c] \in {"drafted", "missing"}
    /\ Goto(c, "lock")
    /\ UNCHANGED <<message, enrollment, permitted, mailbox, lock, claimed>>

-----------------------------------------------------------------------------
(* Inside the action locks. *)

AcquireLocks(c) ==
    /\ pc[c] = "lock" /\ lock = Nobody
    /\ lock' = c
    /\ Goto(c, "finalPolicy")
    /\ UNCHANGED <<message, enrollment, permitted, mailbox, claimed>>

\* Sends of other messages hold the global settings key too.
LockBusy(c) ==
    /\ pc[c] = "lock"
    /\ Goto(c, "release")
    /\ UNCHANGED <<message, enrollment, permitted, mailbox, lock, claimed>>

ReleaseUnattemptedClaim(c) ==
    /\ pc[c] = "release"
    /\ Write(ReleasedUnattempted(message, claimed[c].token))
    /\ Return(c)
    /\ UNCHANGED lock

OwnsAttempt(c) ==
    /\ message.status = "sending"
    /\ message.token = claimed[c].token
    /\ message.attempt = 0

Unlock(c) == lock' = IF lock = c THEN Nobody ELSE lock

FinalPolicyRefuses(c) ==
    /\ pc[c] = "finalPolicy"
    /\ \/ (lock # c \/ ~OwnsAttempt(c)) /\ Write(message)
       \/ /\ lock = c /\ OwnsAttempt(c) /\ ~PolicyAllows
          /\ Write(Released(message, "drafted"))
    /\ Unlock(c)
    /\ Return(c)

\* Mutant: the policy checked at the claim is not checked again.
ReserveAttemptOnClaim(c) ==
    /\ pc[c] = "finalPolicy" /\ lock = c /\ OwnsAttempt(c)
    /\ Write([message EXCEPT !.attempt = 1])
    /\ claimed' = [claimed EXCEPT ![c] = Owned(message')]
    /\ GotoCall(c, "sendDraft", message')
    /\ UNCHANGED lock

ReserveAttempt(c) ==
    /\ pc[c] = "finalPolicy" /\ lock = c
    /\ OwnsAttempt(c) /\ PolicyAllows
    /\ Write([message EXCEPT !.attempt = 1])
    /\ claimed' = [claimed EXCEPT ![c] = Owned(message')]
    /\ GotoCall(c, "sendDraft", message')
    /\ UNCHANGED lock

\* sendDraft settled either way: the attempt is confirmed, never trusted.  An
\* authentication failure is written through the locked session.
SendDraftSettled(c) ==
    /\ Answered(c, "sendDraft")
    /\ IF reply[c] = "denied" /\ lock # c
       THEN Return(c) /\ UNCHANGED mailbox
       ELSE /\ mailbox' = MailboxAfter(reply[c])
            /\ GotoCall(c, "confirm", claimed[c])
            /\ UNCHANGED claimed
    /\ UNCHANGED <<message, enrollment, permitted, lock>>

\* Mutant: an attempt without a verdict counts as sent.
ConfirmedByAttempt(c) ==
    /\ Answered(c, "confirm") /\ reply[c] \in {"sent", "accepted"}
    /\ Finalize
    /\ Unlock(c)
    /\ Return(c)

Confirmed(c) ==
    /\ Answered(c, "confirm") /\ reply[c] \in {"sent", "rejected"}
    /\ \/ lock = c /\ reply[c] = "sent" /\ Finalize
       \/ lock = c /\ reply[c] = "rejected" /\ Reject
       \/ lock # c /\ Write(message)
    /\ Unlock(c)
    /\ Return(c)

Unconfirmed(c) ==
    /\ Answered(c, "confirm") /\ reply[c] \notin {"sent", "rejected"}
    /\ Goto(c, "markUncertain")
    /\ Unlock(c)
    /\ UNCHANGED <<message, enrollment, permitted, mailbox, claimed>>

-----------------------------------------------------------------------------
(* The recover-stale-work stage. *)

\* Mutant: claims that were about to submit are not recovered.
ListCandidateNotSending(c) ==
    /\ c \in Recoverers /\ pc[c] = "idle"
    /\ \/ message.status = "drafted" /\ message.request = "open"
       \/ message.status = "draft_creating" /\ message.claim = "stale"
       \/ message.status = "delivery_uncertain"
    /\ pc' = [pc EXCEPT ![c] = "listed"]
    /\ UNCHANGED <<message, enrollment, permitted, mailbox, lock, claimed, providerVars>>

\* findStaleRecoveryCandidates picks the message for one sendApprovedMessage.
ListCandidate(c) ==
    /\ c \in Recoverers /\ pc[c] = "idle"
    /\ \/ message.status = "drafted" /\ message.request = "open"
       \/ message.status \in {"draft_creating", "sending"} /\ message.claim = "stale"
       \/ message.status = "delivery_uncertain"
    /\ pc' = [pc EXCEPT ![c] = "listed"]
    /\ UNCHANGED <<message, enrollment, permitted, mailbox, lock, claimed, providerVars>>

\* releaseExpiredSendRequests selects the row, then updates it.
SelectExpired(c) ==
    /\ c \in Recoverers /\ pc[c] = "idle"
    /\ message.status = "drafted" /\ message.request # "open"
    /\ pc' = [pc EXCEPT ![c] = "sweep"]
    /\ UNCHANGED <<message, enrollment, permitted, mailbox, lock, claimed, providerVars>>

ReleaseExpired(c) ==
    /\ pc[c] = "sweep"
    /\ Write(SweptBack(message))
    /\ Return(c)
    /\ UNCHANGED lock

-----------------------------------------------------------------------------
(* What happens around the callers. *)

\* The call ends at once (process death, database error): locks go with the
\* session, committed rows stay.
Crash(c) ==
    /\ c \in Crashing /\ pc[c] # "idle"
    /\ Unlock(c)
    /\ Return(c)
    /\ UNCHANGED <<message, enrollment, permitted, mailbox>>

\* The reserved session that holds the advisory locks is lost while its
\* caller runs on.
LoseLocks ==
    /\ "lockLoss" \in Disturbances /\ lock # Nobody
    /\ lock' = Nobody
    /\ UNCHANGED <<message, enrollment, permitted, mailbox, pc, claimed, providerVars>>

\* The caller whose token the row carries is still at work.
OwnerAtWork ==
    \E c \in Callers : /\ pc[c] \notin {"idle", "listed", "sweep", "reconcileClaim"}
                       /\ claimed[c].token # NoToken
                       /\ claimed[c].token = message.token

\* Five minutes pass since the claim.  Three provider calls of up to 150 s each
\* and the wait for the locks come before the attempt, so the owner may still
\* be at work; without "slowOwner" it has ended by then.
ClaimAges ==
    /\ message.claim = "fresh"
    /\ "slowOwner" \in Disturbances \/ ~OwnerAtWork
    /\ Write([message EXCEPT !.claim = "stale"])
    /\ UNCHANGED <<lock, pc, claimed, providerVars>>

RequestExpires ==
    /\ message.request = "open"
    /\ Write([message EXCEPT !.request = "expired"])
    /\ UNCHANGED <<lock, pc, claimed, providerVars>>

\* Campaign, enrollment, settings, suppression and hold changes are written
\* under one of the keys a send holds.
ChangePermission ==
    /\ "permission" \in Disturbances /\ lock = Nobody
    /\ permitted' = ~permitted
    /\ UNCHANGED <<message, enrollment, mailbox, lock, pc, claimed, providerVars>>

\* Another message's send finds the shared mailbox's password refused.
MailboxRevoked ==
    /\ "mailbox" \in Disturbances
    /\ mailbox' = "revoked"
    /\ UNCHANGED <<message, enrollment, permitted, lock, pc, claimed, providerVars>>

\* The operator reconnects the mailbox, under its lock.
ReconnectMailbox ==
    /\ mailbox = "revoked" /\ lock = Nobody
    /\ mailbox' = "available"
    /\ UNCHANGED <<message, enrollment, permitted, lock, pc, claimed, providerVars>>

-----------------------------------------------------------------------------

Claim(c) ==
    \/ ClaimRefused(c)
    \/ ExistingClaim(c)
    \/ ClaimSend(c)

Reconciled(c) ==
    \/ ReconciledSent(c)
    \/ ReconciledRejected(c)
    \/ ReconciledAccepted(c)
    \/ NoteDraft(c)
    \/ MarkUncertain(c)
    \/ ClaimReconciliationFailed(c)
    \/ ReleaseUncertain(c)
    \/ LeaveOrRelease(c)

Own(c) ==
    \/ OwnerCallFailed(c)
    \/ DraftReconciled(c)
    \/ DraftCreated(c)
    \/ PersistDraft(c)
    \/ SendReconciled(c)
    \/ AcquireLocks(c)
    \/ LockBusy(c)
    \/ ReleaseUnattemptedClaim(c)
    \/ FinalPolicyRefuses(c)
    \/ ReserveAttempt(c)
    \/ SendDraftSettled(c)
    \/ Confirmed(c)
    \/ Unconfirmed(c)

Recover(c) ==
    \/ ListCandidate(c)
    \/ SelectExpired(c)
    \/ ReleaseExpired(c)

ProviderStep(c) == CallStep(c) /\ UNCHANGED serviceVars

Environment ==
    \/ FileInSent /\ UNCHANGED serviceVars
    \/ LoseLocks
    \/ ClaimAges
    \/ RequestExpires
    \/ ChangePermission
    \/ MailboxRevoked
    \/ ReconnectMailbox

CallerNext(c) ==
    Claim(c) \/ Reconciled(c) \/ Own(c) \/ Recover(c) \/ ProviderStep(c)

Next ==
    \/ \E c \in Callers : CallerNext(c) \/ Crash(c)
    \/ Environment

Spec == Init /\ [][Next]_vars

-----------------------------------------------------------------------------
(* Properties.  AtMostOnce and ReconciliationIsTrue are MailProvider's. *)

\* The row is marked sent only for a message the server took, and failed only
\* for one it refused for good and never took: however late a caller writes
\* what it was told, it was told the truth and it stays true.
StatusIsTrue ==
    /\ message.status = "sent" => delivered > 0
    /\ message.status = "failed" => refused /\ delivered = 0

\* From the reserved attempt up to the submission, what the operator decided
\* under the action locks (pause, stop, suppression, settings) still allows
\* the send: the final policy's answer is not stale when the message leaves.
DecisionHoldsAtSubmission ==
    \A c \in Callers :
        op[c] \in {"sendDraft", "recordAttempt", "submit"} => permitted

\* A message that was handed to Graph keeps its attempt: neither a stale claim,
\* an expired request nor a reconciliation that still sees a draft puts it
\* back among the messages that can be sent.
SubmissionIsRemembered ==
    Graph /\ delivered > 0 =>
        /\ message.attempt = 1
        /\ message.status \in {"sending", "delivery_uncertain", "sent"}

\* A confirmed send is never undone: no later transaction takes a sent row
\* back to a state it can be sent from.
SentIsFinal == [][message.status = "sent" => message'.status = "sent"]_vars

\* "Recovery, by contrast, only ever claims from drafted/draft_creating/
\* sending" (the claim transaction): it never opens a request of its own.
RecoveryNeverClaimsApproved ==
    [][\A c \in Recoverers : ClaimSend(c) => message.status # "approved"]_vars

-----------------------------------------------------------------------------
(* Liveness. *)

\* Every transaction, provider call and lock wait of a caller ends (provider
\* calls time out, the maintenance cycle calls the recovery stage every
\* minute), and time passes.  Nothing else is owed: the server may refuse or
\* lose every call, and operators need not act.
Fairness ==
    /\ \A c \in Callers : WF_vars(pc[c] # "idle" /\ CallerNext(c))
    /\ \A c \in Recoverers : WF_vars(Recover(c))
    /\ WF_vars(ClaimAges)
    /\ WF_vars(RequestExpires)

FairSpec == Spec /\ Fairness

\* A claim is never lost with its owner: a message left in draft_creating or
\* sending by a crash leaves that state again, unless its mailbox needs the
\* operator first.
ClaimsAreResolved ==
    message.status \in {"draft_creating", "sending"}
        ~> \/ message.status \notin {"draft_creating", "sending"}
           \/ mailbox = "revoked"
=============================================================================
