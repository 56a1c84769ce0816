-------------------------- MODULE SendServiceProofs --------------------------
(* Theorems of SendService: it uses the provider as MailProvider allows, so *)
(* what MailProvider promises holds of it too; and what its own rows, locks *)
(* and policies add.                                                        *)
EXTENDS SendService, MailProviderProofs

-----------------------------------------------------------------------------
(* Rows. *)

\* Every transaction writes a well-typed row.
LEMMA ReleasedType ==
  ASSUME NEW m \in Messages, NEW s \in Statuses
  PROVE  Released(m, s) \in Messages
  BY DEF Released, Messages

\* Noting a draft and forgetting the attempt leaves a row.
LEMMA UnattemptedType ==
  ASSUME NEW m \in Messages
  PROVE  [m EXCEPT !.draft = TRUE, !.attempt = 0] \in Messages
<1>1. 0 \in 0..1
  OBVIOUS
<1> QED
  BY <1>1, Zenon DEF Messages

\* Every update of the row leaves a row.
LEMMA RowTypes ==
  ASSUME NEW m \in Messages, NEW t, NEW seen \in Messages, NEW found \in BOOLEAN
  PROVE  /\ Finalized(m) \in Messages
         /\ MarkedUncertain(m) \in Messages
         /\ MarkedRejected(m) \in Messages
         /\ ReleasedByFailure(m, t) \in Messages
         /\ ReleasedUnattempted(m, t) \in Messages
         /\ ReleasedUncertain(m, t) \in Messages
         /\ ReleasedStale(m, seen, found) \in Messages
         /\ SweptBack(m) \in Messages
<1>1. Finalized(m) \in Messages
  BY DEF Finalized, Messages, Statuses
<1>2. MarkedUncertain(m) \in Messages
  BY DEF MarkedUncertain, Messages, Statuses
<1>3. MarkedRejected(m) \in Messages
  BY DEF MarkedRejected, Messages, Statuses
<1>4. /\ Released(m, "drafted") \in Messages
      /\ Released(m, "approved") \in Messages
      /\ Released(m, IF m.draft THEN "drafted" ELSE "approved") \in Messages
      /\ Released(m, IF found \/ seen.draft THEN "drafted" ELSE "approved") \in Messages
  BY ReleasedType DEF Statuses
<1>5. ReleasedUncertain(m, t) \in Messages
  BY <1>4, UnattemptedType DEF ReleasedUncertain
<1>6. ReleasedStale(m, seen, found) \in Messages
  <2> DEFINE r == Released(m, IF found \/ seen.draft THEN "drafted" ELSE "approved")
  <2>1. (r.draft \/ found) \in BOOLEAN
    OBVIOUS
  <2>2. [r EXCEPT !.draft = r.draft \/ found] \in Messages
    BY <1>4, <2>1 DEF Messages
  <2> QED
    BY <2>2 DEF ReleasedStale
<1> QED
  BY <1>1, <1>2, <1>3, <1>4, <1>5, <1>6
     DEF ReleasedByFailure, ReleasedUnattempted, SweptBack

\* The approved message is a row.
LEMMA ApprovedType == ApprovedMessage \in Messages
  BY DEF ApprovedMessage, Messages, Statuses

\* What a caller read, and what it claimed, are rows.
LEMMA SeenTypes ==
  ASSUME NEW m \in Messages
  PROVE  Seen(m) \in Messages /\ Owned(m) \in Messages
  BY ApprovedType DEF Seen, Owned, Messages

-----------------------------------------------------------------------------
(* The service as a user of the provider. *)

\* The variables of this module, beside the provider's.
ServiceTypeOK ==
    /\ message \in Messages
    /\ enrollment \in {"sendable", "moved_on"}
    /\ permitted \in BOOLEAN
    /\ mailbox \in {"available", "revoked"}
    /\ lock \in Callers \cup {Nobody}
    /\ pc \in [Callers -> Steps]
    /\ claimed \in [Callers -> Messages]

\* TypeOK is the provider's type invariant and the service's.
LEMMA ServiceTypeParts == TypeOK <=> ProviderTypeOK /\ ServiceTypeOK
  BY DEF TypeOK, ServiceTypeOK

\* Going to a provider call begins a call of the provider.
LEMMA CallBegins ==
  ASSUME NEW c \in Callers, NEW step, NEW row \in Messages, GotoCall(c, step, row)
  PROVE  \E call \in Calls, d \in BOOLEAN : BeginCall(c, call, d)
<1>1. row.draft \in BOOLEAN
  BY DEF Messages
<1>2. (IF step \in {"createDraft", "sendDraft"} THEN step ELSE "reconcile") \in Calls
  BY DEF Calls
<1> QED
  BY <1>1, <1>2 DEF GotoCall

\* What an action of this module may do to the provider.
Uses(c) ==
    \/ EndCall(c)
    \/ \E call \in Calls, d \in BOOLEAN : BeginCall(c, call, d)
    \/ UNCHANGED providerVars

\* The types of what one action writes, and that it only begins and ends calls.
LEMMA ClaimStep ==
  ASSUME ServiceTypeOK, NEW c \in Callers, Claim(c)
  PROVE  ServiceTypeOK' /\ Uses(c)
<1> USE DEF ServiceTypeOK
<1>1. CASE ClaimRefused(c)
  BY <1>1, ApprovedType DEF ClaimRefused, Return, Goto, Uses, Steps
<1>2. CASE ExistingClaim(c)
  <2>1. Uses(c)
    BY <1>2, CallBegins DEF ExistingClaim, Uses
  <2>2. pc' \in [Callers -> Steps]
    BY <1>2 DEF ExistingClaim, GotoCall, Steps, ProviderCalls
  <2>3. claimed' \in [Callers -> Messages]
    BY <1>2, SeenTypes DEF ExistingClaim
  <2> QED
    BY <1>2, <2>1, <2>2, <2>3 DEF ExistingClaim
<1>3. CASE ClaimSend(c)
  <2>1. Uses(c)
    BY <1>3, CallBegins DEF ClaimSend, Uses
  <2>2. pc' \in [Callers -> Steps]
    BY <1>3 DEF ClaimSend, GotoCall, Steps, ProviderCalls
  <2>3. message' \in Messages
    BY <1>3 DEF ClaimSend, FreshTokens, Messages, Statuses
  <2>4. claimed' \in [Callers -> Messages]
    BY <1>3, <2>3, SeenTypes DEF ClaimSend
  <2> QED
    BY <1>3, <2>1, <2>2, <2>3, <2>4 DEF ClaimSend
<1> QED
  BY <1>1, <1>2, <1>3 DEF Claim

\* A caller that returns ends its call and forgets its claim.
LEMMA ReturnStep ==
  ASSUME ServiceTypeOK, NEW c \in Callers, Return(c)
  PROVE  /\ Uses(c)
         /\ pc' \in [Callers -> Steps]
         /\ claimed' \in [Callers -> Messages]
  BY ApprovedType DEF ServiceTypeOK, Return, Goto, Uses, Steps

\* A caller that goes on by itself uses the provider not at all.
LEMMA GotoStep ==
  ASSUME ServiceTypeOK, NEW c \in Callers, NEW step \in Steps, Goto(c, step)
  PROVE  Uses(c) /\ pc' \in [Callers -> Steps]
  BY DEF ServiceTypeOK, Goto, Uses

\* Acting on a reconciliation keeps the types and obeys the provider.
LEMMA ReconciledStep ==
  ASSUME ServiceTypeOK, NEW c \in Callers, Reconciled(c)
  PROVE  ServiceTypeOK' /\ Uses(c)
<1>0. /\ message \in Messages /\ claimed[c] \in Messages
      /\ Failures = {"threw", "denied"}
  BY DEF ServiceTypeOK, Failures
<1> USE DEF ServiceTypeOK
<1>1. CASE ReconciledSent(c)
  BY <1>0, <1>1, ReturnStep, RowTypes DEF ReconciledSent, Finalize, MovesEnrollment
<1>2. CASE ReconciledRejected(c)
  BY <1>0, <1>2, ReturnStep, RowTypes DEF ReconciledRejected, Reject, MovesEnrollment
<1>3. CASE ReconciledAccepted(c)
  BY <1>0, <1>3, ApprovedType, GotoStep DEF ReconciledAccepted, Steps
<1>4. CASE NoteDraft(c)
  <2>1. message' \in Messages
    BY <1>0, <1>4 DEF NoteDraft, Write, Messages
  <2> QED
    BY <1>4, <2>1, GotoStep DEF NoteDraft, Write, Steps
<1>5. CASE MarkUncertain(c)
  BY <1>0, <1>5, ReturnStep, RowTypes DEF MarkUncertain, Write
<1>6. CASE ClaimReconciliationFailed(c)
  <2>1. message' \in Messages
    BY <1>0, <1>6, RowTypes DEF ClaimReconciliationFailed
  <2>2. mailbox' \in {"available", "revoked"}
    BY <1>6 DEF ClaimReconciliationFailed, MailboxAfter
  <2> QED
    BY <1>6, <2>1, <2>2, ReturnStep DEF ClaimReconciliationFailed
<1>7. CASE ReleaseUncertain(c)
  <2>1. message' \in Messages
    BY <1>0, <1>7, RowTypes DEF ReleaseUncertain, Write
  <2> QED
    BY <1>7, <2>1, ReturnStep DEF ReleaseUncertain, Write
<1>8. CASE LeaveOrRelease(c)
  <2>1. message' \in Messages
    BY <1>0, <1>8, RowTypes DEF LeaveOrRelease, Write
  <2> QED
    BY <1>8, <2>1, ReturnStep DEF LeaveOrRelease, Write
<1> QED
  BY <1>1, <1>2, <1>3, <1>4, <1>5, <1>6, <1>7, <1>8 DEF Reconciled

\* Each of a caller's own steps keeps the types and obeys the provider.
LEMMA OwnStep ==
  ASSUME ServiceTypeOK, NEW c \in Callers, Own(c)
  PROVE  ServiceTypeOK' /\ Uses(c)
<1>0. /\ message \in Messages /\ claimed[c] \in Messages
      /\ pc \in [Callers -> Steps] /\ claimed \in [Callers -> Messages]
  BY DEF ServiceTypeOK
<1>a. ASSUME NEW step \in ProviderCalls, NEW row \in Messages, GotoCall(c, step, row)
      PROVE  Uses(c) /\ pc' \in [Callers -> Steps]
  BY <1>0, <1>a, CallBegins DEF GotoCall, Steps, Uses
<1> USE DEF ServiceTypeOK
<1>1. CASE OwnerCallFailed(c)
  <2>1. message' \in Messages
    BY <1>0, <1>1, RowTypes DEF OwnerCallFailed
  <2>2. mailbox' \in {"available", "revoked"}
    BY <1>1 DEF OwnerCallFailed, MailboxAfter
  <2> QED
    BY <1>1, <2>1, <2>2, ReturnStep DEF OwnerCallFailed
<1>2. CASE DraftReconciled(c)
  BY <1>0, <1>2, <1>a, GotoStep DEF DraftReconciled, Steps, ProviderCalls
<1>3. CASE DraftCreated(c)
  BY <1>3, GotoStep DEF DraftCreated, Steps
<1>4. CASE PersistDraft(c)
  <2>1. CASE message.status = "draft_creating" /\ message.token = claimed[c].token
    <3>1. message' \in Messages
      BY <1>0, <1>4, <2>1 DEF PersistDraft, Write, Messages, Statuses
    <3>2. claimed' \in [Callers -> Messages]
      BY <1>0, <1>4, <2>1, <3>1, SeenTypes DEF PersistDraft
    <3> QED
      BY <1>4, <2>1, <3>1, <3>2, <1>a DEF PersistDraft, Write, ProviderCalls
  <2>2. CASE ~(message.status = "draft_creating" /\ message.token = claimed[c].token)
    BY <1>4, <2>2, ReturnStep DEF PersistDraft, Write
  <2> QED
    BY <2>1, <2>2
<1>5. CASE SendReconciled(c)
  BY <1>5, GotoStep DEF SendReconciled, Steps
<1>6. CASE AcquireLocks(c)
  BY <1>6, GotoStep DEF AcquireLocks, Steps
<1>7. CASE LockBusy(c)
  BY <1>7, GotoStep DEF LockBusy, Steps
<1>8. CASE ReleaseUnattemptedClaim(c)
  BY <1>0, <1>8, ReturnStep, RowTypes DEF ReleaseUnattemptedClaim, Write
<1>9. CASE FinalPolicyRefuses(c)
  <2>1. message' \in Messages
    BY <1>0, <1>9, ReleasedType DEF FinalPolicyRefuses, Write, Statuses
  <2> QED
    BY <1>9, <2>1, ReturnStep DEF FinalPolicyRefuses, Write, Unlock
<1>10. CASE ReserveAttempt(c)
  <2>0. 1 \in 0..1
    OBVIOUS
  <2>1. message' \in Messages
    BY <1>0, <1>10, <2>0 DEF ReserveAttempt, Write, Messages
  <2>2. claimed' \in [Callers -> Messages]
    BY <1>0, <1>10, <2>1, SeenTypes DEF ReserveAttempt
  <2> QED
    BY <1>10, <2>1, <2>2, <1>a DEF ReserveAttempt, Write, ProviderCalls
<1>11. CASE SendDraftSettled(c)
  <2>1. mailbox' \in {"available", "revoked"}
    BY <1>11 DEF SendDraftSettled, MailboxAfter
  <2> QED
    BY <1>0, <1>11, <2>1, <1>a, ReturnStep DEF SendDraftSettled, ProviderCalls
<1>12. CASE Confirmed(c)
  <2>1. message' \in Messages
    BY <1>0, <1>12, RowTypes DEF Confirmed, Finalize, Reject, Write
  <2>2. /\ enrollment' \in {"sendable", "moved_on"}
        /\ UNCHANGED <<permitted, mailbox>>
    BY <1>12 DEF Confirmed, Finalize, Reject, Write, MovesEnrollment
  <2> QED
    BY <1>12, <2>1, <2>2, ReturnStep DEF Confirmed, Unlock
<1>13. CASE Unconfirmed(c)
  BY <1>13, GotoStep DEF Unconfirmed, Steps, Unlock
<1> QED
  BY <1>1, <1>2, <1>3, <1>4, <1>5, <1>6, <1>7, <1>8, <1>9, <1>10, <1>11, <1>12,
     <1>13 DEF Own

\* Each of the recovery's steps does.
LEMMA RecoverStep ==
  ASSUME ServiceTypeOK, NEW c \in Callers, Recover(c)
  PROVE  ServiceTypeOK' /\ Uses(c)
<1> USE DEF ServiceTypeOK
<1>1. CASE ListCandidate(c) \/ SelectExpired(c)
  BY <1>1 DEF ListCandidate, SelectExpired, Uses, Steps
<1>2. CASE ReleaseExpired(c)
  BY <1>2, ReturnStep, RowTypes DEF ReleaseExpired, Write
<1> QED
  BY <1>1, <1>2 DEF Recover

\* So does a crash.
LEMMA CrashStep ==
  ASSUME ServiceTypeOK, NEW c \in Callers, Crash(c)
  PROVE  ServiceTypeOK' /\ Uses(c)
  BY ReturnStep DEF ServiceTypeOK, Crash, Unlock

\* What happens around the callers keeps the types; only the mailbox filing a
\* message in Sent touches the provider.
LEMMA EnvironmentStep ==
  ASSUME ServiceTypeOK, Environment
  PROVE  ServiceTypeOK' /\ (FileInSent \/ UNCHANGED providerVars)
<1> USE DEF ServiceTypeOK
<1>1. CASE FileInSent /\ UNCHANGED serviceVars
  BY <1>1 DEF serviceVars
<1>2. CASE LoseLocks
  BY <1>2 DEF LoseLocks
<1>3. CASE ClaimAges
  <2>1. message' \in Messages
    BY <1>3 DEF ClaimAges, Write, Messages
  <2> QED
    BY <1>3, <2>1 DEF ClaimAges, Write
<1>4. CASE RequestExpires
  <2>1. message' \in Messages
    BY <1>4 DEF RequestExpires, Write, Messages
  <2> QED
    BY <1>4, <2>1 DEF RequestExpires, Write
<1>5. CASE ChangePermission \/ MailboxRevoked \/ ReconnectMailbox
  BY <1>5 DEF ChangePermission, MailboxRevoked, ReconnectMailbox
<1> QED
  BY <1>1, <1>2, <1>3, <1>4, <1>5 DEF Environment

\* Every step of the service keeps the types and is one of the provider.
LEMMA ServiceTypeStep ==
  ASSUME TypeOK, [Next]_vars
  PROVE  ServiceTypeOK' /\ [ProviderNext]_providerVars
<1>0. ServiceTypeOK
  BY ServiceTypeParts
<1>1. ASSUME NEW c \in Callers, Uses(c)
      PROVE  [ProviderNext]_providerVars
  BY <1>1 DEF Uses, ProviderNext
<1>2. ASSUME NEW c \in Callers, CallerNext(c)
      PROVE  ServiceTypeOK' /\ [ProviderNext]_providerVars
  <2>1. CASE ProviderStep(c)
    BY <1>0, <2>1 DEF ProviderStep, ProviderNext, serviceVars, ServiceTypeOK
  <2> QED
    BY <1>0, <1>1, <1>2, <2>1, ClaimStep, ReconciledStep, OwnStep, RecoverStep
       DEF CallerNext
<1>3. ASSUME NEW c \in Callers, Crash(c)
      PROVE  ServiceTypeOK' /\ [ProviderNext]_providerVars
  BY <1>0, <1>1, <1>3, CrashStep
<1>4. CASE Environment
  BY <1>0, <1>4, EnvironmentStep DEF ProviderNext
<1>5. CASE UNCHANGED vars
  BY <1>0, <1>5 DEF vars, serviceVars, ServiceTypeOK
<1> QED
  BY <1>2, <1>3, <1>4, <1>5 DEF Next

-----------------------------------------------------------------------------
(* Theorems. *)

\* Every variable keeps its type, whatever callers, crashes and disturbances.
THEOREM ServiceTypeCorrect == Spec => []TypeOK
<1>1. Init => TypeOK
  <2>1. Init => ServiceTypeOK
    BY ApprovedType DEF Init, ServiceTypeOK, Steps
  <2> QED
    BY <2>1, InitIInv, ServiceTypeParts DEF Init, IInv
<1>2. TypeOK /\ [Next]_vars => TypeOK'
  <2> SUFFICES ASSUME TypeOK, [Next]_vars PROVE TypeOK'
    OBVIOUS
  <2>1. ProviderTypeOK' /\ ServiceTypeOK'
    BY ServiceTypeStep, TypeStep, ServiceTypeParts
  <2> QED
    BY <2>1 DEF TypeOK, ServiceTypeOK
<1> QED
  BY <1>1, <1>2, PTL DEF Spec

\* The service starts, answers and abandons provider calls only as
\* MailProvider lets a caller do.
THEOREM ServiceUsesProvider == Spec => ProviderSpec
<1>1. Init => ProviderInit
  BY DEF Init
<1>2. TypeOK /\ [Next]_vars => [ProviderNext]_providerVars
  BY ServiceTypeStep
<1> QED
  BY <1>1, <1>2, ServiceTypeCorrect, PTL DEF Spec, ProviderSpec

\* So over SMTP the application delivers a message at most once, whatever its
\* claims, leases, locks and recoveries do.
THEOREM ServiceDeliversAtMostOnceOverSmtp ==
  ASSUME Smtp
  PROVE  Spec => []AtMostOnce
  BY ServiceUsesProvider, SmtpDeliversAtMostOnce, PTL

\* And it implements OutreachDelivery.
THEOREM ServiceImplementsDelivery ==
  ASSUME Smtp
  PROVE  Spec => DeliversOnce
  BY ServiceUsesProvider, SmtpImplementsDelivery, PTL

-----------------------------------------------------------------------------
(* The row tells the truth. *)

\* What the server did is never taken back.
LEMMA ServerStep ==
  ASSUME IInv, [ProviderNext]_providerVars
  PROVE  /\ delivered > 0 => delivered' > 0
         /\ refused => refused'
<1>0. delivered \in Nat
  BY DEF IInv, ProviderTypeOK
<1>1. ASSUME NEW c \in Callers, SubmitTaken(c)
      PROVE  delivered' > 0 /\ refused' = refused
  BY <1>0, <1>1 DEF SubmitTaken
<1>2. ASSUME NEW c \in Callers, PostSend(c)
      PROVE  (delivered > 0 => delivered' > 0) /\ refused' = refused
  BY <1>0, <1>2 DEF PostSend
<1>3. ASSUME NEW c \in Callers, SubmitRefused(c)
      PROVE  delivered' = delivered /\ (refused => refused')
  BY <1>3 DEF SubmitRefused
<1>4. ASSUME NEW c \in Callers, CallStep(c),
             ~SubmitTaken(c), ~PostSend(c), ~SubmitRefused(c)
      PROVE  UNCHANGED <<delivered, refused>>
  BY <1>4
     DEF CallStep, ReconcileStep, Reconcile, SendStep, SendDraft, CreateDraft, CallFails,
         ReconcileFromJournal, FindInSent, FindInDrafts, ReconcileGraph,
         PrepareSubmit, RecordAttempt, SubmitLost, RecordRejection,
         RecordAcceptance, JournalWriteFails, MoveToSent
<1>5. ASSUME NEW c \in Callers,
             EndCall(c) \/ \E call \in Calls, d \in BOOLEAN : BeginCall(c, call, d)
      PROVE  UNCHANGED <<delivered, refused>>
  BY <1>5 DEF EndCall, BeginCall
<1>6. CASE FileInSent \/ UNCHANGED providerVars
  BY <1>6 DEF FileInSent, providerVars
<1> QED
  BY <1>1, <1>2, <1>3, <1>4, <1>5, <1>6 DEF ProviderNext

\* A row becomes "sent" or "failed" only in Finalized and MarkedRejected.
Unsettling(r, m) == r.status \in {"sent", "failed"} => r.status = m.status

\* A release sets the status it names.
LEMMA ReleasedStatus ==
  ASSUME NEW m \in Messages, NEW s \in Statuses
  PROVE  Released(m, s).status = s
  BY DEF Released, Messages

\* No other update makes a row "sent" or "failed".
LEMMA RowStatuses ==
  ASSUME NEW m \in Messages, NEW t, NEW seen \in Messages, NEW found \in BOOLEAN
  PROVE  /\ Unsettling(m, m)
         /\ Unsettling(MarkedUncertain(m), m)
         /\ Unsettling(ReleasedByFailure(m, t), m)
         /\ Unsettling(ReleasedUnattempted(m, t), m)
         /\ Unsettling(ReleasedUncertain(m, t), m)
         /\ Unsettling(ReleasedStale(m, seen, found), m)
         /\ Unsettling(SweptBack(m), m)
         /\ Unsettling(Released(m, "drafted"), m)
<1>1. /\ Released(m, "drafted").status = "drafted"
      /\ Released(m, "approved").status = "approved"
  BY ReleasedStatus DEF Statuses
<1>2. Unsettling(MarkedUncertain(m), m)
  BY DEF MarkedUncertain, Unsettling, Messages
<1>3. Unsettling(ReleasedByFailure(m, t), m)
  BY <1>1 DEF ReleasedByFailure, Unsettling
<1>4. Unsettling(ReleasedUnattempted(m, t), m) /\ Unsettling(SweptBack(m), m)
  BY <1>1 DEF ReleasedUnattempted, SweptBack, Unsettling
<1>5. Unsettling(ReleasedUncertain(m, t), m)
  <2>1. [Released(m, "drafted") EXCEPT !.draft = TRUE, !.attempt = 0].status = "drafted"
    BY <1>1 DEF Released, Messages
  <2> QED
    BY <2>1 DEF ReleasedUncertain, Unsettling
<1>6. Unsettling(ReleasedStale(m, seen, found), m)
  <2> DEFINE r == Released(m, IF found \/ seen.draft THEN "drafted" ELSE "approved")
  <2>1. r.status \in {"drafted", "approved"}
    BY <1>1
  <2>2. [r EXCEPT !.draft = r.draft \/ found].status = r.status
    BY DEF Released, Messages
  <2> QED
    BY <2>1, <2>2 DEF ReleasedStale, Unsettling
<1> QED
  BY <1>1, <1>2, <1>3, <1>4, <1>5, <1>6 DEF Unsettling

\* A step that settles the row was told so by a reconciliation.
LEMMA SettlingStep ==
  ASSUME TypeOK, [Next]_vars
  PROVE  \/ Unsettling(message', message)
         \/ message'.status = "sent" /\ \E c \in Callers : reply[c] = "sent"
         \/ message'.status = "failed" /\ \E c \in Callers : reply[c] = "rejected"
<1>0. /\ message \in Messages /\ claimed \in [Callers -> Messages]
  BY DEF TypeOK
<1>u. Unsettling(message, message)
  BY DEF Unsettling
<1>1. ASSUME NEW c \in Callers, Claim(c)
      PROVE  Unsettling(message', message)
  <2>1. CASE ClaimSend(c)
    BY <1>0, <2>1 DEF ClaimSend, Unsettling, Messages
  <2> QED
    BY <1>u, <1>1, <2>1 DEF Claim, ClaimRefused, ExistingClaim
<1>2. ASSUME NEW c \in Callers, reply[c] = "sent", Finalize
      PROVE  Unsettling(message', message) \/ message'.status = "sent"
  BY <1>0, <1>u, <1>2 DEF Finalize, Finalized, Messages
<1>3. ASSUME NEW c \in Callers, reply[c] = "rejected", Reject
      PROVE  Unsettling(message', message) \/ message'.status = "failed"
  BY <1>0, <1>u, <1>3 DEF Reject, MarkedRejected, Messages
<1>4. ASSUME NEW c \in Callers, Reconciled(c), ~ReconciledSent(c), ~ReconciledRejected(c)
      PROVE  Unsettling(message', message)
  <2>1. CASE NoteDraft(c)
    BY <1>0, <2>1 DEF NoteDraft, Write, Unsettling, Messages
  <2>2. CASE ReconciledAccepted(c) \/ MarkUncertain(c)
    BY <1>0, <2>2, RowStatuses DEF ReconciledAccepted, MarkUncertain, Write
  <2>3. CASE ClaimReconciliationFailed(c)
    BY <1>0, <2>3, RowStatuses DEF ClaimReconciliationFailed
  <2>4. CASE ReleaseUncertain(c)
    BY <1>0, <2>4, RowStatuses DEF ReleaseUncertain, Write
  <2>5. CASE LeaveOrRelease(c)
    BY <1>0, <2>5, RowStatuses DEF LeaveOrRelease, Write
  <2> QED
    BY <1>4, <2>1, <2>2, <2>3, <2>4, <2>5 DEF Reconciled
<1>5. ASSUME NEW c \in Callers, Own(c), ~Confirmed(c)
      PROVE  Unsettling(message', message)
  <2>1. CASE OwnerCallFailed(c)
    BY <1>0, <2>1, RowStatuses DEF OwnerCallFailed
  <2>2. CASE PersistDraft(c)
    BY <1>0, <1>u, <2>2 DEF PersistDraft, Write, Unsettling, Messages
  <2>3. CASE ReleaseUnattemptedClaim(c)
    BY <1>0, <2>3, RowStatuses DEF ReleaseUnattemptedClaim, Write
  <2>4. CASE FinalPolicyRefuses(c)
    BY <1>0, <2>4, RowStatuses DEF FinalPolicyRefuses, Write
  <2>5. CASE ReserveAttempt(c)
    BY <1>0, <2>5 DEF ReserveAttempt, Write, Unsettling, Messages
  <2> QED
    BY <1>u, <1>5, <2>1, <2>2, <2>3, <2>4, <2>5
       DEF Own, DraftReconciled, DraftCreated, SendReconciled, AcquireLocks,
           LockBusy, SendDraftSettled, Unconfirmed
<1>6. ASSUME NEW c \in Callers, Recover(c) \/ ProviderStep(c) \/ Crash(c)
      PROVE  Unsettling(message', message)
  BY <1>0, <1>u, <1>6, RowStatuses
     DEF Recover, ListCandidate, SelectExpired, ReleaseExpired, Write, ProviderStep,
         serviceVars, Crash
<1>7. ASSUME Environment
      PROVE  Unsettling(message', message)
  <2>1. CASE ClaimAges \/ RequestExpires
    BY <1>0, <2>1 DEF ClaimAges, RequestExpires, Write, Unsettling, Messages
  <2> QED
    BY <1>u, <1>7, <2>1
       DEF Environment, LoseLocks, ChangePermission, MailboxRevoked,
           ReconnectMailbox, serviceVars
<1>8. CASE UNCHANGED vars
  BY <1>u, <1>8 DEF vars, serviceVars
<1>9. ASSUME NEW c \in Callers, ReconciledSent(c) \/ ReconciledRejected(c) \/ Confirmed(c)
      PROVE  \/ Unsettling(message', message)
             \/ message'.status = "sent" /\ reply[c] = "sent"
             \/ message'.status = "failed" /\ reply[c] = "rejected"
  BY <1>u, <1>2, <1>3, <1>9 DEF ReconciledSent, ReconciledRejected, Confirmed, Write
<1> QED
  BY <1>1, <1>4, <1>5, <1>6, <1>7, <1>8, <1>9 DEF Next, CallerNext

\* A row says sent, or failed, only if the server took, or finally refused,
\* the message: with either provider, for any number of callers.
THEOREM StatusesAreTrue == Spec => []StatusIsTrue
<1>1. Init => StatusIsTrue
  BY DEF Init, ApprovedMessage, StatusIsTrue
<1>2. StatusIsTrue /\ TypeOK /\ IInv /\ IInv' /\ [Next]_vars => StatusIsTrue'
  <2> SUFFICES ASSUME StatusIsTrue, TypeOK, IInv, IInv', [Next]_vars
               PROVE  StatusIsTrue'
    OBVIOUS
  <2>1. /\ delivered > 0 => delivered' > 0
        /\ refused => refused'
    BY ServiceTypeStep, ServerStep
  <2>2. refused' => delivered' = 0
    BY DEF IInv, JournalIsTrue
  <2>3. \A c \in Callers :
          /\ reply[c] = "sent" => delivered > 0
          /\ reply[c] = "rejected" => refused
    BY DEF IInv, ReconciliationIsTrue
  <2>4. CASE Unsettling(message', message)
    BY <2>1, <2>2, <2>4 DEF StatusIsTrue, Unsettling
  <2>5. CASE message'.status = "sent" /\ \E c \in Callers : reply[c] = "sent"
    BY <2>1, <2>3, <2>5 DEF StatusIsTrue
  <2>6. CASE message'.status = "failed" /\ \E c \in Callers : reply[c] = "rejected"
    BY <2>1, <2>2, <2>3, <2>6 DEF StatusIsTrue
  <2> QED
    BY <2>4, <2>5, <2>6, SettlingStep
<1> QED
  BY <1>1, <1>2, ServiceTypeCorrect, ServiceUsesProvider, Invariance, PTL DEF Spec

-----------------------------------------------------------------------------
(* Decisions hold while the locks do. *)

\* The locks are held from the final policy to the confirmation, and a
\* submission is only ever in progress then.
LocksHold ==
    /\ \A c \in Callers : pc[c] \in Locked => lock = c
    /\ \A c \in Callers :
         op[c] \in {"sendDraft", "recordAttempt", "submit"} => pc[c] = "sendDraft"
    /\ \A c \in Callers : pc[c] = "sendDraft" => permitted

\* What one action does to the locks: pc moves for one caller.
LEMMA LocksStep ==
  ASSUME TypeOK, LocksHold, [Next]_vars, "lockLoss" \notin Disturbances
  PROVE  LocksHold'
<1>0. /\ pc \in [Callers -> Steps] /\ op \in [Callers -> Ops]
      /\ lock \in Callers \cup {Nobody} /\ Nobody \notin Callers
  BY CallersAssumption DEF TypeOK, ProviderTypeOK
<1> USE <1>0 DEF LocksHold, Locked
<1>1. ASSUME NEW c \in Callers, UNCHANGED <<lock, permitted>>,
             pc[c] \notin Locked, NEW step \in Steps \ Locked,
             Goto(c, step) \/ \E row \in Messages : GotoCall(c, step, row)
      PROVE  LocksHold'
  BY <1>1 DEF Goto, EndCall, GotoCall, BeginCall
<1>2. ASSUME NEW c \in Callers, Unlock(c), permitted' = permitted,
             NEW step \in Steps \ Locked, Goto(c, step)
      PROVE  LocksHold'
  BY <1>2 DEF Unlock, Goto, EndCall
<1>3. ASSUME NEW c \in Callers, CallStep(c), UNCHANGED serviceVars
      PROVE  LocksHold'
  <2>1. \/ op[c] \in {"sendDraft", "recordAttempt", "submit"}
        \/ op'[c] \notin {"sendDraft", "recordAttempt", "submit"}
    BY <1>3
       DEF CallStep, ReconcileStep, Reconcile, SendStep, SendDraft, CreateDraft, CallFails,
           ReconcileFromJournal, FindInSent, FindInDrafts, ReconcileGraph,
           PrepareSubmit, RecordAttempt, SubmitTaken, SubmitRefused, SubmitLost,
           RecordRejection, RecordAcceptance, JournalWriteFails, MoveToSent,
           PostSend, Continue, ReplyWith
  <2>2. \E step \in Ops : op' = [op EXCEPT ![c] = step]
    BY <1>3
       DEF CallStep, ReconcileStep, Reconcile, SendStep, SendDraft, CreateDraft, CallFails,
           ReconcileFromJournal, FindInSent, FindInDrafts, ReconcileGraph,
           PrepareSubmit, RecordAttempt, SubmitTaken, SubmitRefused, SubmitLost,
           RecordRejection, RecordAcceptance, JournalWriteFails, MoveToSent,
           PostSend, Continue, ReplyWith, Ops, SmtpSteps
  <2> QED
    BY <1>3, <2>1, <2>2 DEF serviceVars
<1>4. ASSUME NEW c \in Callers, Claim(c)
      PROVE  LocksHold'
  <2>1. UNCHANGED <<lock, permitted>> /\ pc[c] \notin Locked /\ message \in Messages
    BY <1>4 DEF Claim, ClaimRefused, ExistingClaim, ClaimSend, MayCall, TypeOK
  <2>2. \E step \in Steps \ Locked :
          Goto(c, step) \/ \E row \in Messages : GotoCall(c, step, row)
    BY <1>4, <2>1 DEF Claim, ClaimRefused, ExistingClaim, ClaimSend, Return,
                      Steps, ProviderCalls
  <2> QED
    BY <2>1, <2>2, <1>1
<1>5. ASSUME NEW c \in Callers, Reconciled(c)
      PROVE  LocksHold'
  <2>1. UNCHANGED <<lock, permitted>> /\ pc[c] \notin Locked
    BY <1>5 DEF Reconciled, ReconciledSent, ReconciledRejected, ReconciledAccepted,
         NoteDraft, MarkUncertain, ClaimReconciliationFailed, ReleaseUncertain,
         LeaveOrRelease, Answered, Reconciling, Finalize, Reject, Write
  <2>2. Goto(c, "idle") \/ Goto(c, "markUncertain") \/ Goto(c, "noteDraft")
    BY <1>5 DEF Reconciled, ReconciledSent, ReconciledRejected, ReconciledAccepted,
         NoteDraft, MarkUncertain, ClaimReconciliationFailed, ReleaseUncertain,
         LeaveOrRelease, Return
  <2> QED
    BY <2>1, <2>2, <1>1 DEF Steps
<1>6. ASSUME NEW c \in Callers,
             \/ OwnerCallFailed(c) \/ DraftReconciled(c) \/ DraftCreated(c)
             \/ PersistDraft(c) \/ SendReconciled(c) \/ LockBusy(c)
             \/ ReleaseUnattemptedClaim(c)
      PROVE  LocksHold'
  <2>1. UNCHANGED <<lock, permitted>> /\ pc[c] \notin Locked
    BY <1>6 DEF OwnerCallFailed, DraftReconciled, DraftCreated, PersistDraft,
         SendReconciled, LockBusy, ReleaseUnattemptedClaim, Answered, Write
  <2>2. message' \in Messages /\ claimed[c] \in Messages
    BY ServiceTypeStep DEF ServiceTypeOK, TypeOK
  <2>3. \E step \in Steps \ Locked :
          Goto(c, step) \/ \E row \in Messages : GotoCall(c, step, row)
    BY <1>6, <2>2 DEF OwnerCallFailed, DraftReconciled, DraftCreated, PersistDraft,
         SendReconciled, LockBusy, ReleaseUnattemptedClaim, Return, Steps, ProviderCalls
  <2> QED
    BY <2>1, <2>3, <1>1
<1>7. ASSUME NEW c \in Callers, AcquireLocks(c)
      PROVE  LocksHold'
  BY <1>7 DEF AcquireLocks, Goto, EndCall
<1>8. ASSUME NEW c \in Callers,
             FinalPolicyRefuses(c) \/ Confirmed(c) \/ Unconfirmed(c) \/ Crash(c)
      PROVE  LocksHold'
  <2>1. Unlock(c) /\ permitted' = permitted
    BY <1>8 DEF FinalPolicyRefuses, Confirmed, Unconfirmed, Crash, Finalize, Reject, Write
  <2>2. Goto(c, "idle") \/ Goto(c, "markUncertain")
    BY <1>8 DEF FinalPolicyRefuses, Confirmed, Unconfirmed, Crash, Return
  <2> QED
    BY <2>1, <2>2, <1>2 DEF Steps
<1>9. ASSUME NEW c \in Callers, ReserveAttempt(c)
      PROVE  LocksHold'
  BY <1>9 DEF ReserveAttempt, GotoCall, BeginCall, Write, PolicyAllows
<1>10. ASSUME NEW c \in Callers, SendDraftSettled(c)
      PROVE  LocksHold'
  BY <1>10 DEF SendDraftSettled, GotoCall, BeginCall, Return, Goto, EndCall, Answered
<1>11. ASSUME NEW c \in Callers, Recover(c)
      PROVE  LocksHold'
  BY <1>11 DEF Recover, ListCandidate, SelectExpired, ReleaseExpired, Return, Goto,
               EndCall, Write, providerVars
<1>12. CASE Environment
  BY <1>12 DEF Environment, LoseLocks, ClaimAges, RequestExpires, ChangePermission,
               MailboxRevoked, ReconnectMailbox, FileInSent, Write, serviceVars,
               providerVars
<1>13. CASE UNCHANGED vars
  BY <1>13 DEF vars, serviceVars, providerVars
<1> QED
  BY <1>3, <1>4, <1>5, <1>6, <1>7, <1>8, <1>9, <1>10, <1>11, <1>12, <1>13
     DEF Next, CallerNext, Own, ProviderStep

\* As long as the session with the action locks is not lost, a decision taken
\* under them is in force whenever a message is submitted.
THEOREM DecisionsHold ==
  ASSUME "lockLoss" \notin Disturbances
  PROVE  Spec => []DecisionHoldsAtSubmission
<1>1. Init => LocksHold
  BY DEF Init, ProviderInit, LocksHold, Locked
<1>2. LocksHold /\ TypeOK /\ [Next]_vars => LocksHold'
  BY LocksStep
<1>3. LocksHold => DecisionHoldsAtSubmission
  BY DEF LocksHold, DecisionHoldsAtSubmission
<1> QED
  BY <1>1, <1>2, <1>3, ServiceTypeCorrect, PTL DEF Spec

-----------------------------------------------------------------------------
(* Graph has no journal: the attempt on the row is all that stands between   *)
(* two submissions.                                                          *)

\* The statuses of a row whose message may have been submitted.
Attempted == {"sending", "delivery_uncertain", "sent"}

\* The row's attempt covers the submission in progress and the one done.
AttemptCovers ==
    /\ message.attempt = 1 => message.status \in Attempted
    /\ delivered <= 1
    /\ delivered > 0 => message.attempt = 1
    /\ \A c \in Callers : op[c] = "sendDraft" => message.attempt = 1 /\ delivered = 0
    /\ \A c, d \in Callers : op[c] = "sendDraft" /\ op[d] = "sendDraft" => c = d

\* A row that had made its attempt keeps it, and a status that says so.
Keeps(r, m) ==
    /\ r.attempt = m.attempt
    /\ m.attempt = 1 /\ m.status \in Attempted => r.status \in Attempted

\* These updates keep what a row says of its attempt.
LEMMA RowsKeep ==
  ASSUME NEW m \in Messages, NEW t, NEW seen \in Messages, NEW found \in BOOLEAN
  PROVE  /\ Keeps(Finalized(m), m)
         /\ Keeps(MarkedUncertain(m), m)
         /\ Keeps(ReleasedByFailure(m, t), m)
         /\ Keeps(ReleasedUnattempted(m, t), m)
         /\ Keeps(ReleasedStale(m, seen, found), m)
         /\ Keeps(SweptBack(m), m)
         /\ m.attempt = 0 => Keeps(Released(m, "drafted"), m)
<1>1. \A s \in Statuses : Released(m, s).attempt = m.attempt
  BY DEF Released, Messages
<1>2. Keeps(Finalized(m), m) /\ Keeps(MarkedUncertain(m), m)
  BY DEF Finalized, MarkedUncertain, Keeps, Messages, Attempted
<1>3. Keeps(ReleasedByFailure(m, t), m) /\ Keeps(ReleasedUnattempted(m, t), m)
  BY <1>1 DEF ReleasedByFailure, ReleasedUnattempted, Keeps, Statuses
<1>4. Keeps(ReleasedStale(m, seen, found), m)
  <2> DEFINE r == Released(m, IF found \/ seen.draft THEN "drafted" ELSE "approved")
  <2>1. r.attempt = m.attempt
    BY <1>1 DEF Statuses
  <2>2. [r EXCEPT !.draft = r.draft \/ found].attempt = r.attempt
    BY DEF Released, Messages
  <2> QED
    BY <2>1, <2>2 DEF ReleasedStale, Keeps
<1>5. Keeps(SweptBack(m), m)
  BY <1>1 DEF SweptBack, Keeps, Statuses, Attempted
<1>6. m.attempt = 0 => Keeps(Released(m, "drafted"), m)
  BY <1>1 DEF Keeps, Statuses
<1> QED
  BY <1>2, <1>3, <1>4, <1>5, <1>6

\* With Graph, every step but the reservation keeps the row's attempt.
LEMMA AttemptStep ==
  ASSUME Graph, TypeOK, IInv, [Next]_vars
  PROVE  \/ Keeps(message', message)
         \/ \E c \in Callers : ReserveAttempt(c)
<1>0. /\ message \in Messages /\ claimed \in [Callers -> Messages]
      /\ \A c \in Callers : reply[c] # "rejected"
  BY DEF TypeOK, IInv, ReconciliationIsTrue, JournalIsTrue, Graph, Smtp
<1>u. Keeps(message, message)
  BY DEF Keeps
<1>1. ASSUME NEW c \in Callers, Claim(c)
      PROVE  Keeps(message', message)
  <2>1. CASE ClaimSend(c)
    BY <1>0, <2>1 DEF ClaimSend, InFlight, Keeps, Messages
  <2> QED
    BY <1>u, <1>1, <2>1 DEF Claim, ClaimRefused, ExistingClaim
<1>2. ASSUME NEW c \in Callers, Reconciled(c)
      PROVE  Keeps(message', message)
  <2>1. CASE NoteDraft(c)
    BY <1>0, <2>1 DEF NoteDraft, Write, Keeps, Messages
  <2>2. CASE ReconciledSent(c) \/ ReconciledAccepted(c) \/ MarkUncertain(c)
    BY <1>0, <1>u, <2>2, RowsKeep
       DEF ReconciledSent, Finalize, ReconciledAccepted, MarkUncertain, Write
  <2>3. CASE ClaimReconciliationFailed(c)
    BY <1>0, <1>u, <2>3, RowsKeep DEF ClaimReconciliationFailed
  <2>4. CASE ReleaseUncertain(c)
    BY <1>u, <2>4, Graph DEF ReleaseUncertain, Write
  <2>5. CASE LeaveOrRelease(c)
    BY <1>0, <1>u, <2>5, RowsKeep DEF LeaveOrRelease, Write
  <2> QED
    BY <1>0, <1>2, <2>1, <2>2, <2>3, <2>4, <2>5 DEF Reconciled, ReconciledRejected
<1>3. ASSUME NEW c \in Callers, Own(c), ~ReserveAttempt(c)
      PROVE  Keeps(message', message)
  <2>1. CASE OwnerCallFailed(c)
    BY <1>0, <2>1, RowsKeep DEF OwnerCallFailed
  <2>2. CASE PersistDraft(c)
    BY <1>0, <1>u, <2>2 DEF PersistDraft, Write, Keeps, Messages, Attempted
  <2>3. CASE ReleaseUnattemptedClaim(c)
    BY <1>0, <2>3, RowsKeep DEF ReleaseUnattemptedClaim, Write
  <2>4. CASE FinalPolicyRefuses(c)
    BY <1>0, <1>u, <2>4, RowsKeep DEF FinalPolicyRefuses, OwnsAttempt, Write
  <2>5. CASE Confirmed(c)
    BY <1>0, <1>u, <2>5, RowsKeep DEF Confirmed, Finalize, Write
  <2> QED
    BY <1>u, <1>3, <2>1, <2>2, <2>3, <2>4, <2>5
       DEF Own, DraftReconciled, DraftCreated, SendReconciled, AcquireLocks,
           LockBusy, SendDraftSettled, Unconfirmed
<1>4. ASSUME NEW c \in Callers, Recover(c) \/ ProviderStep(c) \/ Crash(c)
      PROVE  Keeps(message', message)
  BY <1>0, <1>u, <1>4, RowsKeep
     DEF Recover, ListCandidate, SelectExpired, ReleaseExpired, Write, ProviderStep,
         serviceVars, Crash
<1>5. ASSUME Environment
      PROVE  Keeps(message', message)
  <2>1. CASE ClaimAges \/ RequestExpires
    BY <1>0, <2>1 DEF ClaimAges, RequestExpires, Write, Keeps, Messages
  <2> QED
    BY <1>u, <1>5, <2>1
       DEF Environment, LoseLocks, ChangePermission, MailboxRevoked,
           ReconnectMailbox, serviceVars
<1>6. CASE UNCHANGED vars
  BY <1>u, <1>6 DEF vars, serviceVars
<1> QED
  BY <1>1, <1>2, <1>3, <1>4, <1>5, <1>6 DEF Next, CallerNext

\* With Graph, only a reservation starts a submission, and only a submission
\* in progress delivers.
Submits ==
    /\ \A c \in Callers : op'[c] = "sendDraft" => op[c] = "sendDraft"
    /\ \/ delivered' = delivered
       \/ /\ delivered' = delivered + 1
          /\ \E c \in Callers : op[c] = "sendDraft" /\ op'[c] # "sendDraft"

\* Whatever is no reservation submits nothing, or the submission of a call that
\* was under way.
LEMMA SubmissionStep ==
  ASSUME Graph, TypeOK, IInv, [Next]_vars, \A c \in Callers : ~ReserveAttempt(c)
  PROVE  Submits
<1>0. /\ op \in [Callers -> Ops]
      /\ \A c \in Callers : op[c] \notin SmtpSteps \cup {"findSent", "findDrafts"}
      /\ ~Smtp
  BY DEF TypeOK, ProviderTypeOK, IInv, StepsAreOfProvider, Graph, Smtp
<1> USE <1>0 DEF Submits
<1>1. ASSUME NEW c \in Callers,
             EndCall(c) \/ \E call \in Calls \ {"sendDraft"}, d \in BOOLEAN : BeginCall(c, call, d)
      PROVE  Submits
  BY <1>1 DEF EndCall, BeginCall
<1>2. ASSUME NEW c \in Callers, NEW step \in ProviderCalls \ {"sendDraft"},
             NEW row \in Messages, GotoCall(c, step, row)
      PROVE  Submits
  <2>1. row.draft \in BOOLEAN
    BY DEF Messages
  <2>2. (IF step \in {"createDraft", "sendDraft"} THEN step ELSE "reconcile")
          \in Calls \ {"sendDraft"}
    BY DEF Calls
  <2> QED
    BY <1>1, <1>2, <2>1, <2>2 DEF GotoCall
<1>3. ASSUME NEW c \in Callers, NEW step \in Steps, Goto(c, step) \/ Return(c)
      PROVE  Submits
  BY <1>1, <1>3 DEF Goto, Return
<1>4. ASSUME NEW c \in Callers, CallStep(c)
      PROVE  Submits
  <2>1. CASE PostSend(c)
    BY <2>1 DEF PostSend, ReplyWith
  <2>2. CASE op[c] \in Calls /\ ~PostSend(c)
    <3>1. ReconcileGraph(c) \/ CreateDraft(c) \/ CallFails(c)
      BY <1>4, <2>2 DEF CallStep, ReconcileStep, Reconcile, SendStep, SendDraft, ReconcileFromJournal, FindInSent,
          FindInDrafts, PrepareSubmit, RecordAttempt, SubmitTaken, SubmitRefused,
          SubmitLost, RecordRejection, RecordAcceptance, JournalWriteFails,
          MoveToSent, Calls
    <3> QED
      BY <3>1 DEF ReconcileGraph, CreateDraft, CallFails, ReplyWith
  <2>3. op[c] \in Calls
    BY <1>4 DEF CallStep, ReconcileStep, Reconcile, SendStep, SendDraft, ReconcileFromJournal, ReconcileGraph,
        FindInSent, FindInDrafts, PrepareSubmit, RecordAttempt, SubmitTaken,
        SubmitRefused, SubmitLost, RecordRejection, RecordAcceptance,
        JournalWriteFails, MoveToSent, PostSend, CreateDraft, CallFails, Calls, SmtpSteps
  <2> QED
    BY <2>1, <2>2, <2>3
<1>5. message \in Messages /\ message' \in Messages /\ claimed \in [Callers -> Messages]
  BY ServiceTypeStep DEF ServiceTypeOK, TypeOK
<1>6. ASSUME NEW c \in Callers, Claim(c)
      PROVE  Submits
  <2>1. CASE ClaimRefused(c)
    BY <1>3, <2>1 DEF ClaimRefused, Steps
  <2>2. CASE ExistingClaim(c)
    BY <1>2, <1>5, <2>2 DEF ExistingClaim, ProviderCalls
  <2>3. CASE ClaimSend(c)
    <3>1. \E step \in ProviderCalls \ {"sendDraft"} : GotoCall(c, step, message)
      BY <2>3 DEF ClaimSend, ProviderCalls
    <3> QED
      BY <1>2, <1>5, <3>1
  <2> QED
    BY <1>6, <2>1, <2>2, <2>3 DEF Claim
<1>7. ASSUME NEW c \in Callers, Reconciled(c)
      PROVE  Submits
  BY <1>3, <1>7
     DEF Reconciled, ReconciledSent, ReconciledRejected, ReconciledAccepted, NoteDraft,
         MarkUncertain, ClaimReconciliationFailed, ReleaseUncertain, LeaveOrRelease, Steps
<1>8. ASSUME NEW c \in Callers, Own(c)
      PROVE  Submits
  BY <1>2, <1>3, <1>5, <1>8
     DEF Own, OwnerCallFailed, DraftReconciled, DraftCreated, PersistDraft,
         SendReconciled, AcquireLocks, LockBusy, ReleaseUnattemptedClaim,
         FinalPolicyRefuses, SendDraftSettled, Confirmed, Unconfirmed, Steps,
         ProviderCalls
<1>9. ASSUME NEW c \in Callers, Recover(c) \/ Crash(c)
      PROVE  Submits
  BY <1>3, <1>9
     DEF Recover, ListCandidate, SelectExpired, ReleaseExpired, Crash, Steps, providerVars
<1>10. CASE Environment
  BY <1>10 DEF Environment, LoseLocks, ClaimAges, RequestExpires, ChangePermission,
               MailboxRevoked, ReconnectMailbox, FileInSent, providerVars
<1>11. CASE UNCHANGED vars
  BY <1>11 DEF vars, providerVars
<1> QED
  BY <1>4, <1>6, <1>7, <1>8, <1>9, <1>10, <1>11 DEF Next, CallerNext, ProviderStep

\* Every step keeps the attempt covering the submission.
LEMMA CoverStep ==
  ASSUME Graph, TypeOK, IInv, AttemptCovers, [Next]_vars
  PROVE  AttemptCovers'
<1>0. /\ message \in Messages /\ message' \in Messages /\ delivered \in Nat
      /\ op \in [Callers -> Ops]
  BY ServiceTypeStep DEF TypeOK, ProviderTypeOK, ServiceTypeOK
<1>1. CASE \E c \in Callers : ReserveAttempt(c)
  <2>1. PICK c \in Callers : ReserveAttempt(c)
    BY <1>1
  <2>2. /\ message.attempt = 0 /\ message.status = "sending"
        /\ message'.attempt = 1 /\ message'.status = "sending"
        /\ delivered' = delivered
        /\ op' = [op EXCEPT ![c] = "sendDraft"]
    BY <1>0, <2>1 DEF ReserveAttempt, OwnsAttempt, Write, GotoCall, BeginCall, Messages
  <2>3. delivered = 0 /\ \A d \in Callers : op[d] # "sendDraft"
    BY <1>0, <2>2 DEF AttemptCovers
  <2> QED
    BY <1>0, <2>2, <2>3 DEF AttemptCovers, Attempted
<1>2. CASE ~\E c \in Callers : ReserveAttempt(c)
  <2>1. Submits /\ Keeps(message', message)
    BY <1>2, SubmissionStep, AttemptStep
  <2>2. message'.attempt = message.attempt
    BY <2>1 DEF Keeps
  <2>3. message'.attempt = 1 => message'.status \in Attempted
    BY <2>1, <2>2 DEF Keeps, AttemptCovers
  <2>4. CASE delivered' = delivered
    BY <1>0, <2>1, <2>2, <2>3, <2>4 DEF AttemptCovers, Submits
  <2>5. CASE delivered' # delivered
    <3>1. PICK c \in Callers : op[c] = "sendDraft" /\ op'[c] # "sendDraft"
      BY <2>1, <2>5 DEF Submits
    <3>2. delivered' = 1 /\ message.attempt = 1
      BY <1>0, <2>1, <2>5, <3>1 DEF AttemptCovers, Submits
    <3>3. \A d \in Callers : op'[d] # "sendDraft"
      BY <2>1, <3>1 DEF AttemptCovers, Submits
    <3> QED
      BY <2>2, <2>3, <3>2, <3>3 DEF AttemptCovers
  <2> QED
    BY <2>4, <2>5
<1> QED
  BY <1>1, <1>2

\* The attempt on the row covers what Graph was given.
LEMMA AttemptCovered ==
  ASSUME Graph
  PROVE  Spec => []AttemptCovers
<1>1. Init => AttemptCovers
  BY DEF Init, ProviderInit, AttemptCovers, ApprovedMessage
<1>2. AttemptCovers /\ TypeOK /\ IInv /\ [Next]_vars => AttemptCovers'
  BY CoverStep
<1> QED
  BY <1>1, <1>2, ServiceTypeCorrect, ServiceUsesProvider, Invariance, PTL DEF Spec

\* Graph takes a message at most once, although it has no submission journal,
\* accepts the same draft twice and still shows it as a draft afterwards.
THEOREM ServiceDeliversAtMostOnceOverGraph ==
  ASSUME Graph
  PROVE  Spec => []AtMostOnce
<1>1. AttemptCovers => AtMostOnce
  BY DEF AttemptCovers, AtMostOnce
<1> QED
  BY <1>1, AttemptCovered, PTL

\* A message handed to Graph stays among those that cannot be sent again.
THEOREM GraphSubmissionsAreRemembered ==
  ASSUME Graph
  PROVE  Spec => []SubmissionIsRemembered
<1>1. AttemptCovers => SubmissionIsRemembered
  BY DEF AttemptCovers, Attempted, SubmissionIsRemembered
<1> QED
  BY <1>1, AttemptCovered, PTL

\* No update takes back a sent row that keeps its attempt.
LEMMA RowsStaySent ==
  ASSUME NEW m \in Messages, NEW t, NEW seen \in Messages, NEW found \in BOOLEAN,
         m.status = "sent", m.attempt = 1
  PROVE  /\ Finalized(m) = m /\ MarkedUncertain(m) = m /\ MarkedRejected(m) = m
         /\ ReleasedByFailure(m, t) = m /\ ReleasedUnattempted(m, t) = m
         /\ ReleasedUncertain(m, t) = m /\ ReleasedStale(m, seen, found) = m
         /\ SweptBack(m) = m
BY DEF Finalized, MarkedUncertain, MarkedRejected, ReleasedByFailure, ReleasedUnattempted,
       ReleasedUncertain, ReleasedStale, SweptBack

\* Nor does any step: a claim, a reservation and a refusal by the final policy
\* look at the status first.
LEMMA SentStays ==
  ASSUME TypeOK, Next, message.status = "sent", message.attempt = 1
  PROVE  message'.status = "sent"
<1>0. message \in Messages /\ claimed \in [Callers -> Messages]
  BY DEF TypeOK
<1>1. ASSUME NEW c \in Callers, Claim(c)
      PROVE  message' = message
  BY <1>1 DEF Claim, ClaimRefused, ExistingClaim, ClaimSend
<1>2. ASSUME NEW c \in Callers, Reconciled(c)
      PROVE  message'.status = "sent"
  <2>1. CASE NoteDraft(c)
    BY <1>0, <2>1 DEF NoteDraft, Write, Messages
  <2>2. CASE ReconciledSent(c) \/ ReconciledRejected(c) \/ ReconciledAccepted(c) \/ MarkUncertain(c)
    BY <1>0, <2>2, RowsStaySent
       DEF ReconciledSent, Finalize, ReconciledRejected, Reject, ReconciledAccepted,
           MarkUncertain, Write
  <2>3. CASE ClaimReconciliationFailed(c) \/ ReleaseUncertain(c)
    BY <1>0, <2>3, RowsStaySent DEF ClaimReconciliationFailed, ReleaseUncertain, Write
  <2>4. CASE LeaveOrRelease(c)
    BY <1>0, <2>4, RowsStaySent DEF LeaveOrRelease, Write
  <2> QED
    BY <1>2, <2>1, <2>2, <2>3, <2>4 DEF Reconciled
<1>3. ASSUME NEW c \in Callers, Own(c)
      PROVE  message' = message
  <2>1. CASE OwnerCallFailed(c) \/ ReleaseUnattemptedClaim(c) \/ Confirmed(c)
    BY <1>0, <2>1, RowsStaySent
       DEF OwnerCallFailed, ReleaseUnattemptedClaim, Confirmed, Finalize, Reject, Write
  <2>2. CASE PersistDraft(c) \/ FinalPolicyRefuses(c) \/ ReserveAttempt(c)
    BY <2>2 DEF PersistDraft, FinalPolicyRefuses, ReserveAttempt, OwnsAttempt, Write
  <2> QED
    BY <1>3, <2>1, <2>2
       DEF Own, DraftReconciled, DraftCreated, SendReconciled, AcquireLocks, LockBusy,
           SendDraftSettled, Unconfirmed
<1>4. ASSUME NEW c \in Callers, Recover(c) \/ ProviderStep(c) \/ Crash(c)
      PROVE  message' = message
  BY <1>0, <1>4, RowsStaySent
     DEF Recover, ListCandidate, SelectExpired, ReleaseExpired, Write, ProviderStep,
         serviceVars, Crash
<1>5. ASSUME Environment
      PROVE  message'.status = "sent"
  <2>1. CASE ClaimAges \/ RequestExpires
    BY <1>0, <2>1 DEF ClaimAges, RequestExpires, Write, Messages
  <2> QED
    BY <1>5, <2>1
       DEF Environment, LoseLocks, ChangePermission, MailboxRevoked, ReconnectMailbox,
           serviceVars
<1> QED
  BY <1>1, <1>2, <1>3, <1>4, <1>5 DEF Next, CallerNext

\* Over Graph a confirmed send is never undone, whoever claims, fails or sweeps
\* late: the attempt stays on the row of a message that Graph took, and nobody
\* releases such a row.
THEOREM GraphSendsAreFinal ==
  ASSUME Graph
  PROVE  Spec => SentIsFinal
<1>1. AttemptCovers /\ StatusIsTrue /\ TypeOK /\ [Next]_vars =>
        [message.status = "sent" => message'.status = "sent"]_vars
  BY SentStays DEF AttemptCovers, StatusIsTrue
<1> QED
  BY <1>1, AttemptCovered, StatusesAreTrue, ServiceTypeCorrect, PTL DEF Spec, SentIsFinal
=============================================================================
