------------------------- MODULE MailProviderProofs -------------------------
(* What MailProvider promises to any number of callers, proved: its types,  *)
(* that over SMTP a message is delivered at most once, that reconciliations *)
(* tell the truth, and that it implements OutreachDelivery.                 *)
EXTENDS MailProvider, TLAPS

\* c holds the attempt row: nobody else may submit until c has let go of it.
Holding(c) == op[c] \in {"submit", "recordAcceptance", "recordRejection",
                         "releaseAttempt"}

\* Only an SMTP caller runs the steps of an SMTP call.
StepsAreOfProvider ==
    \A c \in Callers : op[c] \in SmtpSteps \cup {"findSent", "findDrafts"} => Smtp

\* The attempt row is a mutex, and it has no verdict while it is held.
AttemptIsHeld ==
    /\ \A c \in Callers : Holding(c) =>
         journal.attempted /\ ~journal.accepted /\ ~journal.rejected
    /\ \A c, d \in Callers : Holding(c) /\ Holding(d) => c = d

\* What the holder's step says about what the server did.
HolderKnows ==
    \A c \in Callers :
        /\ op[c] \in {"submit", "releaseAttempt"} => delivered = 0 /\ ~refused
        /\ op[c] = "recordAcceptance" => delivered = 1 /\ ~refused
        /\ op[c] = "recordRejection" => delivered = 0 /\ refused

\* Over SMTP what the server did is covered by an attempt row; every verdict
\* in the journal is the server's.
JournalIsTrue ==
    /\ Smtp => \/ delivered = 0
               \/ delivered = 1 /\ ~refused /\ journal.attempted
    /\ refused => delivered = 0 /\ journal.attempted /\ Smtp
    /\ journal.accepted => delivered = 1 /\ Smtp
    /\ journal.rejected => refused

\* A Sent copy exists only of a message the server took.
SentCopyIsTrue ==
    /\ folders.sent => delivered > 0
    /\ \A c \in Callers : op[c] = "moveToSent" => journal.accepted

\* The inductive invariant of the provider.
IInv ==
    /\ ProviderTypeOK
    /\ StepsAreOfProvider
    /\ AttemptIsHeld
    /\ HolderKnows
    /\ JournalIsTrue
    /\ SentCopyIsTrue
    /\ ReconciliationIsTrue

-----------------------------------------------------------------------------

\* Initially nothing has happened.
LEMMA InitIInv == ProviderInit => IInv
<1> SUFFICES ASSUME ProviderInit PROVE IInv
  OBVIOUS
<1> USE DEF ProviderInit
<1>1. ProviderTypeOK
  BY DEF ProviderTypeOK, Ops, Replies
<1>2. \A c \in Callers : op[c] = "none" /\ reply[c] = "none"
  OBVIOUS
<1>3. StepsAreOfProvider /\ AttemptIsHeld /\ HolderKnows
  BY <1>2 DEF StepsAreOfProvider, AttemptIsHeld, HolderKnows, Holding, SmtpSteps
<1>4. JournalIsTrue /\ SentCopyIsTrue /\ ReconciliationIsTrue
  BY <1>2 DEF JournalIsTrue, SentCopyIsTrue, ReconciliationIsTrue
<1> QED
  BY <1>1, <1>3, <1>4 DEF IInv

\* A step of a call leaves the call's three variables well typed.
CallTypeOK ==
    /\ op \in [Callers -> Ops]
    /\ known \in [Callers -> BOOLEAN]
    /\ reply \in [Callers -> Replies]

\* A call that goes on keeps the types of the calls.
LEMMA ContinueType ==
  ASSUME CallTypeOK, NEW c \in Callers, NEW step \in Ops, Continue(c, step)
  PROVE  CallTypeOK'
  BY DEF CallTypeOK, Continue

\* A call that is answered keeps the types of the calls.
LEMMA ReplyType ==
  ASSUME CallTypeOK, NEW c \in Callers, NEW r \in Replies, ReplyWith(c, r)
  PROVE  CallTypeOK'
  BY DEF CallTypeOK, ReplyWith, Ops

\* What the server, the folders and the journal hold stays well typed.
StoreTypeOK ==
    /\ journal \in [attempted : BOOLEAN, accepted : BOOLEAN, rejected : BOOLEAN]
    /\ folders \in [drafts : BOOLEAN, sent : BOOLEAN]
    /\ delivered \in Nat
    /\ refused \in BOOLEAN

\* The folders once the draft has become the Sent copy.
LEMMA MovedType ==
  [drafts |-> FALSE, sent |-> TRUE] \in [drafts : BOOLEAN, sent : BOOLEAN]
  OBVIOUS

\* The type invariant is about the calls and about what is stored.
LEMMA TypeParts == ProviderTypeOK <=> CallTypeOK /\ StoreTypeOK
  BY DEF ProviderTypeOK, CallTypeOK, StoreTypeOK

\* The types alone are inductive.
LEMMA TypeStep ==
  ASSUME ProviderTypeOK, [ProviderNext]_providerVars
  PROVE  ProviderTypeOK'
<1> SUFFICES CallTypeOK' /\ StoreTypeOK'
  BY TypeParts, PTL
<1>0. CallTypeOK /\ StoreTypeOK
  BY TypeParts
<1> USE DEF Ops, Calls, SmtpSteps, Replies, Reconciliations, Failures, StoreTypeOK
<1>1. ASSUME NEW c \in Callers, NEW call \in Calls, NEW d \in BOOLEAN,
             BeginCall(c, call, d)
      PROVE  CallTypeOK' /\ StoreTypeOK'
  BY <1>0, <1>1 DEF BeginCall, CallTypeOK
<1>2. ASSUME NEW c \in Callers, EndCall(c)
      PROVE  CallTypeOK' /\ StoreTypeOK'
  BY <1>0, <1>2 DEF EndCall, CallTypeOK
<1>3. ASSUME NEW c \in Callers, ReconcileStep(c)
      PROVE  CallTypeOK' /\ StoreTypeOK'
  <2>1. CASE ReconcileFromJournal(c)
    <3>a. folders' = folders \/ folders' = [drafts |-> FALSE, sent |-> TRUE]
      BY <2>1 DEF ReconcileFromJournal
    <3>b. UNCHANGED <<journal, delivered, refused>>
      BY <2>1 DEF ReconcileFromJournal
    <3>1. StoreTypeOK'
      BY <1>0, <3>a, <3>b, MovedType
    <3>2. Continue(c, "findSent") \/ \E r \in Replies : ReplyWith(c, r)
      BY <2>1 DEF ReconcileFromJournal
    <3> QED
      BY <1>0, <3>1, <3>2, ContinueType, ReplyType
  <2>2. CASE FindInSent(c)
    BY <1>0, <2>2, ContinueType, ReplyType DEF FindInSent
  <2>3. CASE FindInDrafts(c)
    BY <1>0, <2>3, ReplyType DEF FindInDrafts
  <2>4. CASE ReconcileGraph(c)
    BY <1>0, <2>4, ReplyType DEF ReconcileGraph
  <2> QED
    BY <1>3, <2>1, <2>2, <2>3, <2>4 DEF ReconcileStep, Reconcile
<1>4. ASSUME NEW c \in Callers, CreateDraft(c)
      PROVE  CallTypeOK' /\ StoreTypeOK'
  BY <1>0, <1>4, ReplyType DEF CreateDraft
<1>5. ASSUME NEW c \in Callers, CallFails(c)
      PROVE  CallTypeOK' /\ StoreTypeOK'
  BY <1>0, <1>5, ReplyType DEF CallFails
<1>6. ASSUME NEW c \in Callers, SendStep(c)
      PROVE  CallTypeOK' /\ StoreTypeOK'
  <2>1. CASE PrepareSubmit(c)
    BY <1>0, <2>1, ContinueType, ReplyType DEF PrepareSubmit
  <2>2. CASE RecordAttempt(c)
    BY <1>0, <2>2, ContinueType, ReplyType DEF RecordAttempt
  <2>3. CASE SubmitTaken(c)
    BY <1>0, <2>3, ContinueType, ReplyType DEF SubmitTaken
  <2>9. CASE SubmitRefused(c)
    BY <1>0, <2>9, ContinueType DEF SubmitRefused
  <2>10. CASE SubmitLost(c)
    BY <1>0, <2>10, ReplyType DEF SubmitLost
  <2>4. CASE RecordRejection(c)
    BY <1>0, <2>4, ReplyType DEF RecordRejection
  <2>5. CASE RecordAcceptance(c)
    BY <1>0, <2>5, ContinueType DEF RecordAcceptance
  <2>6. CASE JournalWriteFails(c)
    BY <1>0, <2>6, ReplyType DEF JournalWriteFails
  <2>7. CASE MoveToSent(c)
    <3>a. folders' = folders \/ folders' = [drafts |-> FALSE, sent |-> TRUE]
      BY <2>7 DEF MoveToSent
    <3>b. UNCHANGED <<journal, delivered, refused>>
      BY <2>7 DEF MoveToSent
    <3>1. StoreTypeOK'
      BY <1>0, <3>a, <3>b, MovedType
    <3> QED
      BY <1>0, <2>7, <3>1, ReplyType DEF MoveToSent
  <2>8. CASE PostSend(c)
    BY <1>0, <2>8, ReplyType DEF PostSend
  <2> QED
    BY <1>6, <2>1, <2>2, <2>3, <2>4, <2>5, <2>6, <2>7, <2>8,
       <2>9, <2>10 DEF SendStep, SendDraft
<1>7. CASE FileInSent
  BY <1>0, <1>7 DEF FileInSent, Smtp, CallTypeOK
<1>8. CASE UNCHANGED providerVars
  BY <1>0, <1>8 DEF providerVars, CallTypeOK
<1> QED
  BY <1>1, <1>2, <1>3, <1>4, <1>5, <1>6, <1>7, <1>8 DEF ProviderNext, CallStep

-----------------------------------------------------------------------------

\* The parts of IInv beside the types.
Truth ==
    /\ StepsAreOfProvider
    /\ AttemptIsHeld
    /\ HolderKnows
    /\ JournalIsTrue
    /\ SentCopyIsTrue
    /\ ReconciliationIsTrue

\* Every step of every call keeps the journal, the holder of the attempt row
\* and the replies true.
LEMMA TruthStep ==
  ASSUME IInv, [ProviderNext]_providerVars
  PROVE  Truth'
<1>0. /\ Truth
      /\ op \in [Callers -> Ops] /\ reply \in [Callers -> Replies]
      /\ journal \in [attempted : BOOLEAN, accepted : BOOLEAN, rejected : BOOLEAN]
      /\ folders \in [drafts : BOOLEAN, sent : BOOLEAN]
      /\ delivered \in Nat
  BY DEF IInv, ProviderTypeOK, Truth
<1> USE <1>0 DEF Truth, StepsAreOfProvider, AttemptIsHeld, HolderKnows, JournalIsTrue,
                 SentCopyIsTrue, ReconciliationIsTrue, Holding, SmtpSteps, Smtp
<1>1. ASSUME NEW c \in Callers, NEW call \in Calls, NEW d \in BOOLEAN,
             BeginCall(c, call, d)
      PROVE  Truth'
  BY <1>1 DEF BeginCall, Calls
<1>2. ASSUME NEW c \in Callers, EndCall(c)
      PROVE  Truth'
  BY <1>2 DEF EndCall
<1>3. ASSUME NEW c \in Callers, ReconcileFromJournal(c)
      PROVE  Truth'
  BY <1>3 DEF ReconcileFromJournal, Continue, ReplyWith
<1>4. ASSUME NEW c \in Callers, FindInSent(c)
      PROVE  Truth'
  BY <1>4 DEF FindInSent, Continue, ReplyWith
<1>5. ASSUME NEW c \in Callers, FindInDrafts(c)
      PROVE  Truth'
  BY <1>5 DEF FindInDrafts, ReplyWith
<1>6. ASSUME NEW c \in Callers, ReconcileGraph(c)
      PROVE  Truth'
  BY <1>6 DEF ReconcileGraph, ReplyWith
<1>7. ASSUME NEW c \in Callers, CreateDraft(c)
      PROVE  Truth'
  BY <1>7 DEF CreateDraft, ReplyWith
<1>8. ASSUME NEW c \in Callers, CallFails(c)
      PROVE  Truth'
  BY <1>8 DEF CallFails, ReplyWith, Failures
<1>9. ASSUME NEW c \in Callers, PrepareSubmit(c)
      PROVE  Truth'
  BY <1>9 DEF PrepareSubmit, Continue, ReplyWith
<1>10. ASSUME NEW c \in Callers, RecordAttempt(c)
      PROVE  Truth'
  BY <1>10 DEF RecordAttempt, Continue, ReplyWith
<1>11. ASSUME NEW c \in Callers, SubmitTaken(c)
      PROVE  Truth'
  BY <1>11 DEF SubmitTaken, Continue, ReplyWith
<1>12. ASSUME NEW c \in Callers, SubmitRefused(c)
      PROVE  Truth'
  BY <1>12 DEF SubmitRefused, Continue
<1>13. ASSUME NEW c \in Callers, SubmitLost(c)
      PROVE  Truth'
  BY <1>13 DEF SubmitLost, ReplyWith
<1>14. ASSUME NEW c \in Callers, RecordRejection(c)
      PROVE  Truth'
  BY <1>14 DEF RecordRejection, ReplyWith, Failures
<1>15. ASSUME NEW c \in Callers, RecordAcceptance(c)
      PROVE  Truth'
  BY <1>15 DEF RecordAcceptance, Continue
<1>16. ASSUME NEW c \in Callers, JournalWriteFails(c)
      PROVE  Truth'
  BY <1>16 DEF JournalWriteFails, ReplyWith
<1>17. ASSUME NEW c \in Callers, MoveToSent(c)
      PROVE  Truth'
  BY <1>17 DEF MoveToSent, ReplyWith
<1>18. ASSUME NEW c \in Callers, PostSend(c)
      PROVE  Truth'
  BY <1>18 DEF PostSend, ReplyWith, Graph
<1>19. CASE FileInSent
  BY <1>19 DEF FileInSent
<1>20. CASE UNCHANGED providerVars
  BY <1>20 DEF providerVars
<1> QED
  BY <1>1, <1>2, <1>3, <1>4, <1>5, <1>6, <1>7, <1>8, <1>9, <1>10, <1>11, <1>12,
     <1>13, <1>14, <1>15, <1>16, <1>17, <1>18, <1>19, <1>20
     DEF ProviderNext, CallStep, ReconcileStep, Reconcile, SendStep, SendDraft

-----------------------------------------------------------------------------
(* Theorems. *)

\* The inductive invariant holds of every use of the two providers: who may
\* submit is decided by the journal or by the draft, whatever was lost before.
THEOREM Invariance == ProviderSpec => []IInv
<1>1. IInv /\ [ProviderNext]_providerVars => IInv'
  BY TypeStep, TruthStep DEF IInv, Truth
<1> QED
  BY InitIInv, <1>1, PTL DEF ProviderSpec

\* Every variable keeps its type under any use of the two providers.
THEOREM TypeCorrect == ProviderSpec => []ProviderTypeOK
  BY Invariance, PTL DEF IInv

\* Over SMTP no interleaving, retry, lost answer or abandoned call delivers a
\* message twice, for any number of callers.
THEOREM SmtpDeliversAtMostOnce ==
  ASSUME Smtp
  PROVE  ProviderSpec => []AtMostOnce
<1>1. IInv => AtMostOnce
  BY Smtp DEF IInv, JournalIsTrue, AtMostOnce
<1> QED
  BY <1>1, Invariance, PTL

\* With either provider a reconciliation's "sent" and "rejected" are true.
THEOREM ReconciliationsAreTrue == ProviderSpec => []ReconciliationIsTrue
  BY Invariance, PTL DEF IInv

\* Over SMTP the folders have no say once the server took the message.
THEOREM JournalDecidesAfterDelivery == ProviderSpec => FoldersNeverDecideAfterDelivery
<1>1. ASSUME IInv, [ProviderNext]_providerVars,
             NEW c \in Callers, Smtp, delivered > 0, op[c] = "reconcile"
      PROVE  op'[c] # "findSent"
  <2>1. /\ op \in [Callers -> Ops] /\ journal.attempted
    BY <1>1 DEF IInv, ProviderTypeOK, JournalIsTrue
  <2>2. ASSUME NEW d \in Callers, CallStep(d)
        PROVE  op'[c] # "findSent"
    <3>1. CASE op[d] # "reconcile"
      <4>1. \E step \in Ops : op' = [op EXCEPT ![d] = step]
        BY <2>2 DEF CallStep, ReconcileStep, Reconcile, SendStep, SendDraft, CreateDraft, CallFails,
           ReconcileFromJournal, FindInSent, FindInDrafts, ReconcileGraph,
           PrepareSubmit, RecordAttempt, SubmitTaken, SubmitRefused, SubmitLost,
           RecordRejection, RecordAcceptance, JournalWriteFails, MoveToSent,
           PostSend, Continue, ReplyWith, Ops, SmtpSteps
      <4> QED
        BY <1>1, <2>1, <3>1, <4>1
    <3>2. CASE op[d] = "reconcile"
      <4>1. ReconcileFromJournal(d) \/ ReconcileGraph(d) \/ CallFails(d)
        BY <2>2, <3>2
           DEF CallStep, ReconcileStep, Reconcile, SendStep, SendDraft, CreateDraft, FindInSent,
               FindInDrafts, PrepareSubmit, RecordAttempt, SubmitTaken,
               SubmitRefused, SubmitLost, RecordRejection, RecordAcceptance,
               JournalWriteFails, MoveToSent, PostSend
      <4>2. \E r \in Replies : ReplyWith(d, r)
        BY <1>1, <2>1, <4>1
           DEF ReconcileFromJournal, ReconcileGraph, CallFails, Replies,
               Reconciliations, Failures
      <4> QED
        BY <1>1, <2>1, <4>2 DEF ReplyWith
    <3> QED
      BY <3>1, <3>2
  <2> QED
    BY <1>1, <2>1, <2>2 DEF ProviderNext, BeginCall, EndCall, FileInSent, providerVars
<1>2. IInv /\ [ProviderNext]_providerVars
        => [\A c \in Callers :
              Smtp /\ delivered > 0 /\ op[c] = "reconcile" => op'[c] # "findSent"]_providerVars
  BY <1>1
<1> QED
  BY <1>2, Invariance, PTL DEF ProviderSpec, FoldersNeverDecideAfterDelivery

\* What the journal tells of the outcome: the refinement's "told".
Told(j) == IF j.accepted THEN "sent" ELSE IF j.rejected THEN "rejected" ELSE "nothing"

\* A step of the SMTP provider delivers, refuses or tells, once, or changes
\* none of it.
LEMMA DeliveryStep ==
  ASSUME Smtp, IInv, [ProviderNext]_providerVars
  PROVE  [Delivery!DeliveryNext]_(Delivery!deliveryVars)
<1> DEFINE Stutter == UNCHANGED <<delivered, refused>> /\ Told(journal') = Told(journal)
<1>0. /\ AttemptIsHeld /\ HolderKnows /\ JournalIsTrue
      /\ op \in [Callers -> Ops]
      /\ journal \in [attempted : BOOLEAN, accepted : BOOLEAN, rejected : BOOLEAN]
      /\ delivered \in Nat
  BY DEF IInv, ProviderTypeOK
<1> SUFFICES \/ Stutter
             \/ /\ delivered = 0 /\ ~refused
                /\ \/ delivered' = 1 /\ refused' = refused
                   \/ delivered' = delivered /\ refused' = TRUE
                /\ Told(journal') = Told(journal)
             \/ /\ UNCHANGED <<delivered, refused>>
                /\ delivered > 0 \/ refused
                /\ Told(journal) = "nothing"
                /\ Told(journal') = IF refused THEN "rejected" ELSE "sent"
  BY <1>0 DEF Delivery!DeliveryNext, Delivery!Deliver, Delivery!Refuse, Delivery!Tell,
              Delivery!Open, Delivery!deliveryVars, Told
<1>1. ASSUME UNCHANGED <<journal, delivered, refused>>
      PROVE  Stutter
  BY <1>1
<1>2. ASSUME NEW c \in Callers, SubmitTaken(c)
      PROVE  delivered = 0 /\ ~refused /\ delivered' = 1 /\ UNCHANGED <<refused, journal>>
  BY <1>0, <1>2 DEF SubmitTaken, HolderKnows
<1>3. ASSUME NEW c \in Callers, SubmitRefused(c)
      PROVE  /\ delivered = 0 /\ ~refused /\ UNCHANGED <<delivered, journal>>
             /\ refused' = refused \/ refused' = TRUE
  BY <1>0, <1>3 DEF SubmitRefused, HolderKnows
<1>4. ASSUME NEW c \in Callers, RecordAttempt(c)
      PROVE  Stutter
  BY <1>0, <1>4 DEF RecordAttempt, Told
<1>5. ASSUME NEW c \in Callers, RecordRejection(c)
      PROVE  \/ Stutter
             \/ /\ UNCHANGED <<delivered, refused>> /\ refused
                /\ Told(journal) = "nothing" /\ Told(journal') = "rejected"
  BY <1>0, <1>5 DEF RecordRejection, HolderKnows, AttemptIsHeld, Holding, Told
<1>6. ASSUME NEW c \in Callers, RecordAcceptance(c)
      PROVE  /\ UNCHANGED <<delivered, refused>> /\ ~refused /\ delivered > 0
             /\ Told(journal) = "nothing" /\ Told(journal') = "sent"
  BY <1>0, <1>6 DEF RecordAcceptance, HolderKnows, AttemptIsHeld, Holding, Told
<1>7. ASSUME NEW c \in Callers,
             CallStep(c), ~SubmitTaken(c), ~SubmitRefused(c), ~RecordAttempt(c),
             ~RecordRejection(c), ~RecordAcceptance(c)
      PROVE  UNCHANGED <<journal, delivered, refused>>
  BY <1>7, Smtp
     DEF CallStep, ReconcileStep, Reconcile, SendStep, SendDraft, CreateDraft, CallFails,
         ReconcileFromJournal, FindInSent, FindInDrafts, ReconcileGraph,
         PrepareSubmit, SubmitLost, JournalWriteFails, MoveToSent, PostSend,
         Graph, Smtp
<1>8. ASSUME NEW c \in Callers, EndCall(c) \/ \E call \in Calls, d \in BOOLEAN : BeginCall(c, call, d)
      PROVE  UNCHANGED <<journal, delivered, refused>>
  BY <1>8 DEF EndCall, BeginCall
<1>9. ASSUME FileInSent \/ UNCHANGED providerVars
      PROVE  UNCHANGED <<journal, delivered, refused>>
  BY <1>9 DEF FileInSent, providerVars
<1>10. CASE \E c \in Callers : SubmitTaken(c) \/ SubmitRefused(c)
  BY <1>2, <1>3, <1>10
<1>11. CASE \E c \in Callers : RecordAttempt(c) \/ RecordRejection(c) \/ RecordAcceptance(c)
  BY <1>4, <1>5, <1>6, <1>11
<1>12. CASE UNCHANGED <<journal, delivered, refused>>
  BY <1>1, <1>12
<1> QED
  BY <1>7, <1>8, <1>9, <1>10, <1>11, <1>12 DEF ProviderNext

\* The SMTP provider implements OutreachDelivery: the message is settled once
\* and for all, and the journal only ever tells how it was settled.
THEOREM SmtpImplementsDelivery ==
  ASSUME Smtp
  PROVE  ProviderSpec => DeliversOnce
<1>1. ProviderInit => Delivery!DeliveryInit
  BY DEF ProviderInit, Delivery!DeliveryInit
<1>2. IInv /\ [ProviderNext]_providerVars
        => [Delivery!DeliveryNext]_(Delivery!deliveryVars)
  BY DeliveryStep
<1> QED
  BY <1>1, <1>2, Invariance, PTL DEF ProviderSpec, DeliversOnce, Delivery!DeliverySpec

=============================================================================
