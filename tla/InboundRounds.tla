---------------------------- MODULE InboundRounds ----------------------------
(***************************************************************************)
(* Rounds over the inbox of an IMAP mailbox: the cursor is the UIDVALIDITY *)
(* and the last UID of the round before, the anchor the date a walk        *)
(* without a usable cursor starts from.  Mail arrives, is moved in with    *)
(* its old date, and the folder may be recreated under new UIDs while a    *)
(* round is anywhere.  The folder is external.                             *)
(*                                                                         *)
(* SEARCH SINCE names a day, which the program takes from its own clock in *)
(* UTC and the server compares with the day its own zone gives a date.     *)
(* That the server's calendar is not behind UTC is assumed; where it is, a *)
(* fresh walk anchored just after midnight UTC may find nothing, begin at  *)
(* UIDNEXT and pass over mail, unless the server can search by the second. *)
(***************************************************************************)
EXTENDS Integers, Sequences, FiniteSets, FiniteSetsExt

CONSTANTS Mail,
          AnchorSkew,   \* INBOUND_ANCHOR_SKEW_MS
          Lag,          \* how far the server's clock may be behind
          DayLen,       \* the granularity of SEARCH SINCE
          ServerAhead,  \* how far the zone of the server is ahead of UTC
          Connected,    \* when the mailbox was connected
          LastMinute,   \* bound: the last instant
          LastEpoch     \* bound: the last UIDVALIDITY

ASSUME InboundAssumption ==
    /\ IsFiniteSet(Mail)
    /\ {AnchorSkew, Lag, LastMinute} \subseteq Nat
    /\ {DayLen, LastEpoch} \subseteq Nat \ {0}
    /\ Lag <= AnchorSkew
    /\ Connected \in 0..LastMinute

ASSUME ZoneAssumption == ServerAhead \in Nat

VARIABLES minute,
          folder,    \* UIDVALIDITY, UIDNEXT and, per mail, its UID (0: not there) and date
          mailbox,   \* status, syncCursor and lastSyncedAt
          record,    \* what was recorded of each mail
          health,    \* the round's health event, which the send gate reads
          round,     \* the round under way
          atStart,   \* mail that was there when the latest round began
          exempt     \* mail nobody promises: history, and moved mail that had not been
                     \* recorded when the UIDs or the cursor went

inboundVars == <<minute, folder, mailbox, record, health, round, atStart, exempt>>

NoCursor == [epoch |-> 0, last |-> 0]
NoRound == [step |-> "off", since |-> 0, anchor |-> 0, cursor |-> NoCursor, epoch |-> 0,
            next |-> 0, first |-> 0, fresh |-> FALSE, page |-> <<>>, high |-> 0]
There(m) == folder.uid[m] # 0
Cursors == [epoch: 0..LastEpoch, last: 0..Cardinality(Mail)]

InboundTypeOK ==
    /\ minute \in Connected..LastMinute
    /\ folder \in [epoch: 1..LastEpoch, next: 1..(Cardinality(Mail) + 1),
                   uid: [Mail -> 0..Cardinality(Mail)], date: [Mail -> -Lag..LastMinute]]
    /\ mailbox \in [status: {"available", "disconnected"}, cursor: Cursors,
                    since: (Connected - AnchorSkew)..LastMinute]
    /\ record \in [Mail -> {"none", "pending", "done"}]
    /\ health \in {"scheduled", "started", "succeeded", "failed"}
    /\ round.step \in {"off", "status", "walk", "fetch", "ingest", "save"}
    /\ atStart \subseteq Mail /\ exempt \subseteq Mail

\* connectSmtpImapMailbox: no cursor, an anchor, and a gate that stays shut until
\* a round succeeds.  What is in the inbox already is history.
InboundInit ==
    /\ minute = Connected
    /\ \E old \in SUBSET Mail :
        /\ Cardinality(old) <= 1
        /\ folder = [epoch |-> 1, next |-> Cardinality(old) + 1,
                     uid |-> [m \in Mail |-> IF m \in old THEN 1 ELSE 0],
                     date |-> [m \in Mail |-> 0]]
        /\ exempt = old
    /\ mailbox = [status |-> "available", cursor |-> NoCursor,
                  since |-> Connected - AnchorSkew]
    /\ record = [m \in Mail |-> "none"]
    /\ health = "scheduled"
    /\ round = NoRound
    /\ atStart = {}

-----------------------------------------------------------------------------
(* The inbox *)

PutIn(m, date) ==
    /\ ~There(m)
    /\ folder' = [folder EXCEPT !.next = @ + 1, !.uid[m] = folder.next, !.date[m] = date]
    /\ UNCHANGED <<minute, mailbox, record, health, round, atStart>>

\* The server dates what arrives by its own clock.
Arrive(m) ==
    /\ \E lag \in 0..Lag : PutIn(m, minute - lag)
    /\ UNCHANGED exempt

\* A rule or the operator moves mail in: it keeps the date it had, and only the
\* order of UIDs tells that it is new.
MoveIn(m) ==
    /\ PutIn(m, 0)
    /\ exempt' = IF mailbox.cursor.epoch = folder.epoch THEN exempt ELSE exempt \cup {m}

MovedUnseen == {m \in Mail : There(m) /\ record[m] = "none" /\ folder.date[m] = 0}

\* The folder is recreated: the same mail under new UIDs.
Recreate ==
    /\ folder.epoch < LastEpoch
    /\ LET there == {m \in Mail : There(m)}
       IN \E uid \in [there -> 1..Cardinality(there)] :
            /\ Cardinality({uid[m] : m \in there}) = Cardinality(there)
            /\ folder' = [folder EXCEPT !.epoch = @ + 1, !.next = Cardinality(there) + 1,
                          !.uid = [m \in Mail |-> IF m \in there THEN uid[m] ELSE 0]]
    /\ exempt' = exempt \cup MovedUnseen
    /\ UNCHANGED <<minute, mailbox, record, health, round, atStart>>

-----------------------------------------------------------------------------
(* The mailbox *)

\* Storage that cannot be read as a cursor counts as none.
CorruptCursor ==
    /\ mailbox.cursor # NoCursor
    /\ mailbox' = [mailbox EXCEPT !.cursor = NoCursor]
    /\ exempt' = exempt \cup MovedUnseen
    /\ UNCHANGED <<minute, folder, record, health, round, atStart>>

\* disconnectSmtpImapMailbox keeps the anchor, and the round that is under way.
Disconnect ==
    /\ mailbox.status = "available"
    /\ mailbox' = [mailbox EXCEPT !.status = "disconnected", !.cursor = NoCursor]
    /\ exempt' = exempt \cup MovedUnseen
    /\ UNCHANGED <<minute, folder, record, health, round, atStart>>

Reconnect ==
    /\ mailbox.status = "disconnected"
    /\ mailbox' = [mailbox EXCEPT !.status = "available"]
    /\ UNCHANGED <<minute, folder, record, health, round, atStart, exempt>>

-----------------------------------------------------------------------------
(* A round: one at a time, under the lock of the mailbox's rounds *)

Step(name) == round.step = name
Go(name) == round' = [round EXCEPT !.step = name]

\* withInboundReconciliationHealth, up to the round itself.
RoundBegins ==
    /\ Step("off") /\ mailbox.status = "available"
    /\ health' = "started"
    /\ round' = [NoRound EXCEPT !.step = "status", !.anchor = minute - AnchorSkew,
                 !.cursor = mailbox.cursor, !.since = mailbox.since]
    /\ atStart' = {m \in Mail : There(m)}
    /\ UNCHANGED <<minute, folder, mailbox, record, exempt>>

\* STATUS on one connection.
ReadStatus ==
    /\ Step("status")
    /\ round' = [round EXCEPT !.step = "walk", !.epoch = folder.epoch, !.next = folder.next,
                 !.fresh = round.cursor.epoch # folder.epoch]
    /\ UNCHANGED <<minute, folder, mailbox, record, health, atStart, exempt>>

Day(t) == t \div DayLen

\* resolveBackfillStartUid: SEARCH SINCE on another connection, by the day in UTC of
\* the anchor and the day of a date where the server is; what finds nothing starts
\* at the UIDNEXT of the STATUS.
FirstUidSince ==
    LET found == {folder.uid[m] : m \in {n \in Mail :
                    There(n) /\ Day(folder.date[n] + ServerAhead) >= Day(round.since)}}
    IN IF found = {} THEN round.next ELSE Min(found)

Walk ==
    /\ Step("walk")
    /\ LET first == IF round.fresh THEN FirstUidSince ELSE round.cursor.last + 1
       IN round' = [round EXCEPT !.step = "fetch", !.first = first, !.high = first - 1]
    /\ UNCHANGED <<minute, folder, mailbox, record, health, atStart, exempt>>

\* Mutant: the date bounds every walk.
EligibleByDate(m) == folder.date[m] >= round.since

\* What the fetch hands on: a fresh walk leaves out what is older than the anchor.
Eligible(m) == round.fresh => folder.date[m] >= round.since

\* In the order of UIDs.
InUidOrder(mail, page) ==
    /\ \A m \in mail : \E i \in DOMAIN page : page[i] = m
    /\ \A i, j \in DOMAIN page : i < j => folder.uid[page[i]] < folder.uid[page[j]]

\* FETCH first:* on a third connection, refused if the UIDVALIDITY is another.
Fetch ==
    /\ Step("fetch")
    /\ folder.epoch = round.epoch
    /\ LET fresh == {m \in Mail : There(m) /\ folder.uid[m] >= round.first}
           wanted == {m \in fresh : Eligible(m)}
       IN \E page \in [1..Cardinality(wanted) -> wanted] :
            /\ InUidOrder(wanted, page)
            /\ round' = [round EXCEPT !.step = "ingest", !.page = page,
                         !.high = Max({round.high} \cup {folder.uid[m] : m \in fresh})]
    /\ UNCHANGED <<minute, folder, mailbox, record, health, atStart, exempt>>

\* One mail: done, or recorded and somebody else is at it (IN_PROGRESS).
Ingest ==
    /\ Step("ingest") /\ round.page # <<>>
    /\ record' \in {[record EXCEPT ![Head(round.page)] = r] : r \in
            IF record[Head(round.page)] = "pending" THEN {"pending", "done"} ELSE {"done"}}
    /\ round' = [round EXCEPT !.page = Tail(@)]
    /\ UNCHANGED <<minute, folder, mailbox, health, atStart, exempt>>

Anchor == round.anchor

\* createInboundCursorWriter: cursor and anchor in one transaction, whatever has
\* become of the mailbox.
SaveCursor ==
    /\ Step("ingest") /\ round.page = <<>>
    /\ mailbox' = [mailbox EXCEPT !.cursor = [epoch |-> round.epoch, last |-> round.high],
                                  !.since = Anchor]
    /\ Go("save")
    /\ UNCHANGED <<minute, folder, record, health, atStart, exempt>>

RoundSucceeds ==
    /\ Step("save")
    /\ health' = "succeeded"
    /\ round' = NoRound
    /\ UNCHANGED <<minute, folder, mailbox, record, atStart, exempt>>

\* Mutant: a mail that could not be processed is passed over.
RoundFailsSoftly ==
    \/ /\ Step("ingest") /\ round.page # <<>>
       /\ round' = [round EXCEPT !.page = Tail(@)]
       /\ UNCHANGED <<minute, folder, mailbox, record, health, atStart, exempt>>
    \/ /\ ~Step("off")
       /\ health' = "failed"
       /\ round' = NoRound
       /\ UNCHANGED <<minute, folder, mailbox, record, atStart, exempt>>

\* The connection, the check of the fetch, a deadline, or an ingestion, which may
\* have recorded its mail before it failed.
RoundFails ==
    /\ ~Step("off")
    /\ health' = "failed"
    /\ round' = NoRound
    /\ \/ UNCHANGED record
       \/ /\ Step("ingest") /\ round.page # <<>> /\ record[Head(round.page)] = "none"
          /\ record' = [record EXCEPT ![Head(round.page)] = "pending"]
    /\ UNCHANGED <<minute, folder, mailbox, atStart, exempt>>

\* The process is killed: nobody writes that the round is over.
RoundDies ==
    /\ ~Step("off")
    /\ round' = NoRound
    /\ UNCHANGED <<minute, folder, mailbox, record, health, atStart, exempt>>

\* The recovery sweep owns what was recorded and not processed.
RecoverPending(m) ==
    /\ record[m] = "pending"
    /\ record' = [record EXCEPT ![m] = "done"]
    /\ UNCHANGED <<minute, folder, mailbox, health, round, atStart, exempt>>

MinutePasses ==
    /\ minute < LastMinute
    /\ minute' = minute + 1
    /\ UNCHANGED <<folder, mailbox, record, health, round, atStart, exempt>>

RoundStep ==
    \/ RoundBegins \/ ReadStatus \/ Walk \/ Fetch \/ Ingest
    \/ SaveCursor \/ RoundSucceeds \/ RoundFails \/ RoundDies

InboundNext ==
    \/ \E m \in Mail : Arrive(m) \/ MoveIn(m) \/ RecoverPending(m)
    \/ Recreate
    \/ CorruptCursor \/ Disconnect \/ Reconnect
    \/ RoundStep
    \/ MinutePasses

InboundSpec == InboundInit /\ [][InboundNext]_inboundVars

-----------------------------------------------------------------------------

\* Would a round that began now, and met no trouble, fetch the mail?
WithinReach(m) ==
    IF mailbox.cursor.epoch = folder.epoch THEN folder.uid[m] > mailbox.cursor.last
    ELSE folder.date[m] >= mailbox.since

\* No reply is lost: whatever the folder, the clocks, crashes and reconnections
\* do at whichever step of a round, mail that nobody has recorded is mail the
\* next round will fetch.
NothingIsOutOfReach ==
    \A m \in Mail \ exempt : (There(m) /\ record[m] = "none") => WithinReach(m)

\* The send gate is open only on what was read: while the health event says
\* succeeded, everything that was in the inbox when that round began is recorded.
OpenGateIsInformed ==
    health = "succeeded" => \A m \in atStart \ exempt : record[m] # "none"

=============================================================================
