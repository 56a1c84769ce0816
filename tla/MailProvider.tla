---------------------------- MODULE MailProvider ----------------------------
(***************************************************************************)
(* The mail side of one outreach message: the SMTP submission server, the  *)
(* mailbox folders, the durable send journal (smtp-send-journal.ts) and    *)
(* the calls a caller of MailProvider can have in progress on them         *)
(* (smtp-imap-mail-provider.ts, microsoft-graph-mail-provider.ts).         *)
(*                                                                         *)
(* A call is started by BeginCall, runs through one action per query,      *)
(* journal write, IMAP round trip or submission of the source, and ends    *)
(* with a reply.  Callers are arbitrary here: any of them may start any    *)
(* call at any time, so what this module guarantees does not depend on     *)
(* the claims, locks and policies of send-service.ts.                      *)
(***************************************************************************)
EXTENDS Naturals, FiniteSets

CONSTANTS
    Callers,    \* processes that may hold a call on this message
    Provider    \* MailProviderKind of the mailbox

ASSUME ProviderAssumption == Provider \in {"smtp_imap", "microsoft_graph"}

VARIABLES
    journal,    \* the workflow_events rows keyed by the Message-ID
    folders,    \* which mailbox folders hold a copy of the message
    delivered,  \* how many times the server took the message for delivery
    refused,    \* whether the server ever refused it for good (5xx)
    op,         \* the next step of each caller's call
    known,      \* whether that call was given a draftId
    reply       \* how each caller's call ended

providerVars == <<journal, folders, delivered, refused, op, known, reply>>

Calls == {"reconcile", "createDraft", "sendDraft"}

SmtpSteps == {"recordAttempt", "submit", "recordAcceptance",
              "recordRejection", "releaseAttempt", "moveToSent"}

Ops == {"none", "replied", "findSent", "findDrafts"} \cup Calls \cup SmtpSteps

\* MailReconciliation statuses ("missing" is null), "done" for a createDraft
\* or sendDraft that resolved, and the two ways a call rejects: an
\* authentication failure ("denied") or anything else ("threw").
Reconciliations == {"sent", "accepted", "rejected", "drafted", "missing"}
Failures == {"threw", "denied"}
Replies == {"none", "done"} \cup Reconciliations \cup Failures

ProviderTypeOK ==
    /\ journal \in [attempted : BOOLEAN, accepted : BOOLEAN, rejected : BOOLEAN]
    /\ folders \in [drafts : BOOLEAN, sent : BOOLEAN]
    /\ delivered \in Nat
    /\ refused \in BOOLEAN
    /\ op \in [Callers -> Ops]
    /\ known \in [Callers -> BOOLEAN]
    /\ reply \in [Callers -> Replies]

ProviderInit ==
    /\ journal = [attempted |-> FALSE, accepted |-> FALSE, rejected |-> FALSE]
    /\ folders = [drafts |-> FALSE, sent |-> FALSE]
    /\ delivered = 0
    /\ refused = FALSE
    /\ op = [c \in Callers |-> "none"]
    /\ known = [c \in Callers |-> FALSE]
    /\ reply = [c \in Callers |-> "none"]

-----------------------------------------------------------------------------

\* A caller starts a call when it has none, or when the last one has replied.
BeginCall(c, call, draftKnown) ==
    /\ op[c] \in {"none", "replied"}
    /\ op' = [op EXCEPT ![c] = call]
    /\ known' = [known EXCEPT ![c] = draftKnown]
    /\ reply' = [reply EXCEPT ![c] = "none"]
    /\ UNCHANGED <<journal, folders, delivered, refused>>

\* The caller takes the reply, or dies: either way nothing of the call is
\* left but what it wrote.
EndCall(c) ==
    /\ op' = [op EXCEPT ![c] = "none"]
    /\ known' = [known EXCEPT ![c] = FALSE]
    /\ reply' = [reply EXCEPT ![c] = "none"]
    /\ UNCHANGED <<journal, folders, delivered, refused>>

Continue(c, step) ==
    /\ op' = [op EXCEPT ![c] = step]
    /\ UNCHANGED <<known, reply>>

ReplyWith(c, r) ==
    /\ op' = [op EXCEPT ![c] = "replied"]
    /\ reply' = [reply EXCEPT ![c] = r]
    /\ UNCHANGED known

Smtp == Provider = "smtp_imap"
Graph == Provider = "microsoft_graph"

\* Every query, IMAP round trip and HTTP request can fail or time out before
\* it had an effect.  Only SMTP/IMAP reports an authentication failure as one.
CallFails(c) ==
    /\ op[c] \in Calls \cup {"findSent", "findDrafts", "recordAttempt"}
    /\ \E r \in IF Smtp THEN Failures ELSE {"threw"} : ReplyWith(c, r)
    /\ UNCHANGED <<journal, folders, delivered, refused>>

-----------------------------------------------------------------------------
(* reconcile *)

\* The journal decides alone whenever it has something to say.  Its three
\* queries are one step: an acceptance and a permanent rejection are only
\* ever written over an attempt that is then kept, so the answer of the three
\* is the answer at one instant.
ReconcileFromJournal(c) ==
    /\ op[c] = "reconcile" /\ Smtp
    /\ \/ /\ journal.accepted
          /\ ReplyWith(c, "sent")
          \* reportSent repairs a missing Sent copy, best effort
          /\ \/ UNCHANGED folders
             \/ /\ folders.drafts /\ ~folders.sent
                /\ folders' = [drafts |-> FALSE, sent |-> TRUE]
       \/ /\ ~journal.accepted /\ (journal.rejected \/ journal.attempted)
          \* recoverDraftId throws when no draft can be named
          /\ ReplyWith(c, IF ~known[c] /\ ~folders.drafts THEN "threw"
                          ELSE IF journal.rejected THEN "rejected" ELSE "accepted")
          /\ UNCHANGED folders
       \/ /\ ~journal.accepted /\ ~journal.rejected /\ ~journal.attempted
          /\ Continue(c, "findSent")
          /\ UNCHANGED folders
    /\ UNCHANGED <<journal, delivered, refused>>

\* Mutant: any copy in a folder counts as sent.
FindInSentAnyCopy(c) ==
    /\ op[c] = "findSent"
    /\ IF folders.sent \/ folders.drafts
       THEN ReplyWith(c, "sent") ELSE Continue(c, "findDrafts")
    /\ UNCHANGED <<journal, folders, delivered, refused>>

FindInSent(c) ==
    /\ op[c] = "findSent"
    /\ IF folders.sent THEN ReplyWith(c, "sent") ELSE Continue(c, "findDrafts")
    /\ UNCHANGED <<journal, folders, delivered, refused>>

FindInDrafts(c) ==
    /\ op[c] = "findDrafts"
    /\ ReplyWith(c, IF folders.drafts THEN "drafted" ELSE "missing")
    /\ UNCHANGED <<journal, folders, delivered, refused>>

\* Graph looks one message up by its immutable id; without a persisted id, or
\* on a 404, it knows nothing.
ReconcileGraph(c) ==
    /\ op[c] = "reconcile" /\ Graph
    /\ ReplyWith(c, CASE ~known[c]      -> "missing"
                      [] folders.sent   -> "sent"
                      [] folders.drafts -> "drafted"
                      [] OTHER          -> "missing")
    /\ UNCHANGED <<journal, folders, delivered, refused>>

-----------------------------------------------------------------------------
(* createDraft *)

\* SMTP/IMAP returns the draft already filed under this Message-ID, else
\* appends one; Graph always creates one.  The answer can be lost after the
\* draft was filed.
CreateDraft(c) ==
    /\ op[c] = "createDraft"
    /\ folders' = [folders EXCEPT !.drafts = TRUE]
    /\ \E r \in {"done", "threw"} : ReplyWith(c, r)
    /\ UNCHANGED <<journal, delivered, refused>>

-----------------------------------------------------------------------------
(* sendDraft over SMTP *)

\* hasAcceptance, then fetchDraftSource.
PrepareSubmit(c) ==
    /\ op[c] = "sendDraft" /\ Smtp
    /\ \/ journal.accepted /\ ReplyWith(c, "done")
       \/ ~journal.accepted /\ folders.drafts /\ Continue(c, "recordAttempt")
       \/ ~journal.accepted /\ ~folders.drafts /\ ReplyWith(c, "threw")
    /\ UNCHANGED <<journal, folders, delivered, refused>>

\* The insert-if-absent of the attempt row is the mutex between submissions.
RecordAttempt(c) ==
    /\ op[c] = "recordAttempt"
    /\ IF journal.attempted
       THEN ReplyWith(c, "threw") /\ UNCHANGED journal
       ELSE Continue(c, "submit") /\ journal' = [journal EXCEPT !.attempted = TRUE]
    /\ UNCHANGED <<folders, delivered, refused>>

\* The server takes the message and its 250 arrives, or is lost.
SubmitTaken(c) ==
    /\ op[c] = "submit"
    /\ delivered' = delivered + 1
    /\ Continue(c, "recordAcceptance") \/ ReplyWith(c, "threw")
    /\ UNCHANGED <<journal, folders, refused>>

\* Mutant: every refusal releases the attempt.
SubmitRefusedReleases(c) ==
    /\ op[c] = "submit"
    /\ Continue(c, "releaseAttempt") /\ refused' \in {refused, TRUE}
    /\ UNCHANGED <<journal, folders, delivered>>

\* A definite refusal (SmtpRejectionError): releaseAttempt is set for a 4xx
\* and for EAUTH, not for any other 5xx.
SubmitRefused(c) ==
    /\ op[c] = "submit"
    /\ \/ Continue(c, "releaseAttempt") /\ UNCHANGED refused
       \/ Continue(c, "recordRejection") /\ refused' = TRUE
    /\ UNCHANGED <<journal, folders, delivered>>

\* No verdict at all: the attempt stays as recordAttempt left it.
SubmitLost(c) ==
    /\ op[c] = "submit"
    /\ ReplyWith(c, "threw")
    /\ UNCHANGED <<journal, folders, delivered, refused>>

RecordRejection(c) ==
    /\ op[c] \in {"recordRejection", "releaseAttempt"}
    /\ IF op[c] = "releaseAttempt"
       THEN /\ journal' = [journal EXCEPT !.attempted = FALSE]
            /\ \E r \in Failures : ReplyWith(c, r)      \* a 4xx, or EAUTH
       ELSE /\ journal' = [journal EXCEPT !.rejected = TRUE]
            /\ ReplyWith(c, "threw")
    /\ UNCHANGED <<folders, delivered, refused>>

RecordAcceptance(c) ==
    /\ op[c] = "recordAcceptance"
    /\ journal' = [journal EXCEPT !.accepted = TRUE]
    /\ Continue(c, "moveToSent")
    /\ UNCHANGED <<folders, delivered, refused>>

\* A journal write that fails leaves the row as it was and rejects the call.
JournalWriteFails(c) ==
    /\ op[c] \in {"recordAcceptance", "recordRejection", "releaseAttempt"}
    /\ ReplyWith(c, "threw")
    /\ UNCHANGED <<journal, folders, delivered, refused>>

\* Best effort: the reply is the same whether or not the copy moved.
MoveToSent(c) ==
    /\ op[c] = "moveToSent"
    /\ \/ UNCHANGED folders
       \/ folders.drafts /\ folders' = [drafts |-> FALSE, sent |-> TRUE]
    /\ ReplyWith(c, "done")
    /\ UNCHANGED <<journal, delivered, refused>>

-----------------------------------------------------------------------------
(* sendDraft over Graph *)

\* POST /send on an item that is still a draft queues it for transport; the
\* 202 can be lost.  On an item that has left Drafts it fails.
PostSend(c) ==
    /\ op[c] = "sendDraft" /\ Graph
    /\ IF folders.drafts
       THEN /\ delivered' = delivered + 1
            /\ \E r \in {"done", "threw"} : ReplyWith(c, r)
       ELSE ReplyWith(c, "threw") /\ UNCHANGED delivered
    /\ UNCHANGED <<journal, folders, refused>>

\* The server files what it took: Graph turns the draft itself into the Sent
\* item, some SMTP servers add a Sent copy and leave the draft where it is.
FileInSent ==
    /\ delivered > 0 /\ ~folders.sent
    /\ folders' = [drafts |-> Smtp /\ folders.drafts, sent |-> TRUE]
    /\ UNCHANGED <<journal, delivered, refused, op, known, reply>>

-----------------------------------------------------------------------------

\* The registry picks the mailbox's provider once, by its kind.
Reconcile(c) == IF Smtp THEN ReconcileFromJournal(c) ELSE ReconcileGraph(c)
SendDraft(c) == IF Smtp THEN PrepareSubmit(c) ELSE PostSend(c)

ReconcileStep(c) ==
    \/ Reconcile(c)
    \/ FindInSent(c)
    \/ FindInDrafts(c)

SendStep(c) ==
    \/ SendDraft(c)
    \/ RecordAttempt(c)
    \/ SubmitTaken(c)
    \/ SubmitRefused(c)
    \/ SubmitLost(c)
    \/ RecordRejection(c)
    \/ RecordAcceptance(c)
    \/ JournalWriteFails(c)
    \/ MoveToSent(c)

CallStep(c) ==
    \/ ReconcileStep(c)
    \/ CreateDraft(c)
    \/ SendStep(c)
    \/ CallFails(c)

ProviderNext ==
    \/ \E c \in Callers, call \in Calls, d \in BOOLEAN : BeginCall(c, call, d)
    \/ \E c \in Callers : CallStep(c) \/ EndCall(c)
    \/ FileInSent

ProviderSpec == ProviderInit /\ [][ProviderNext]_providerVars

-----------------------------------------------------------------------------
(* Properties. *)

\* The SMTP server takes a message at most once, whatever number of callers
\* send and reconcile it and wherever their calls break off: recordAttempt's
\* insert-if-absent is the only thing between two submissions, and
\* recordRejection deletes that row again.
AtMostOnce == delivered <= 1

\* A reconciliation says "sent" only of a message the server took and
\* "rejected" only of one it refused and never took, although the folders and
\* the three journal rows are read and written by other calls meanwhile.
ReconciliationIsTrue ==
    \A c \in Callers :
        /\ reply[c] = "sent" => delivered > 0
        /\ reply[c] = "rejected" => refused /\ delivered = 0

\* Once the server took the message, a reconciliation over SMTP that starts
\* never gets as far as the folders, where a draft may still be lying about:
\* the journal always has something to say (reconcile's steps 1 to 3).
FoldersNeverDecideAfterDelivery ==
    [][\A c \in Callers :
         Smtp /\ delivered > 0 /\ op[c] = "reconcile" => op'[c] # "findSent"]_providerVars

\* The provider keeps the promise of OutreachDelivery, the journal being what
\* the application is told.
Delivery == INSTANCE OutreachDelivery WITH
                copies <- delivered,
                told   <- IF journal.accepted THEN "sent"
                          ELSE IF journal.rejected THEN "rejected" ELSE "nothing"

DeliversOnce == Delivery!DeliverySpec
=============================================================================
