---------------------------- MODULE EnrollmentRow ----------------------------
(***************************************************************************)
(* One row of the enrollments table and the writes that are made to it,    *)
(* as functions from the row a transaction locked to the row it commits.   *)
(* Which transaction makes which write, and when, is EnrollmentLifecycle.  *)
(***************************************************************************)
EXTENDS Naturals, FiniteSets

CONSTANTS
    Workers,            \* processFollowUpInvocation calls that may be in progress
    LastStep,           \* stepIndex of the sequence's last step
    HoldNonTerminal,    \* campaign configuration holdNonTerminalReplies
    Nobody

ASSUME RowAssumption ==
    /\ LastStep \in Nat
    /\ HoldNonTerminal \in BOOLEAN
    /\ Nobody \notin Workers

Steps == 0 .. LastStep

\* The terminal states.  "replied" stands for opted_out too; nothing writes
\* "failed" (enrollment-state.ts).
Ended == {"replied", "bounced", "stopped"}
Terminal == Ended \cup {"completed"}
Live == {"waiting", "ready_for_review", "approved", "manual_review"}

\* What the sender of an inbound message is after (mapReplyOutcome's cases).
Categories == {"terminal", "neutral", "delayed", "soft", "hard"}

\* The inboundHoldPrevious* columns; state "none" is null.
NoSnapshot == [state |-> "none", due |-> FALSE, token |-> 0]
ManualSnapshot == [NoSnapshot EXCEPT !.state = "manual_review"]
SnapshotOf(e) == [state |-> e.state, due |-> e.due, token |-> e.token]

\* due is "nextActionAt is not null"; token 0 is a null nextActionToken.
\* lease is "the workflow claim is younger than a minute"; automatic is
\* automaticFollowUps in the campaign version, which no write changes.
Rows == [state : Live \cup Terminal, step : Nat, due : BOOLEAN, token : Nat,
         holds : Nat,
         prev : [state : Live \cup Terminal \cup {"none"}, due : BOOLEAN, token : Nat],
         claim : Workers \cup {Nobody}, lease : BOOLEAN,
         stop : {"none", "manual_stop", "sequence_complete", "reply", "hard_bounce", "other"},
         lastReply : {"none", "terminal", "other"}, automatic : BOOLEAN]

-----------------------------------------------------------------------------

Unscheduled(e) == [e EXCEPT !.due = FALSE, !.token = 0]
Unclaimed(e) == [e EXCEPT !.claim = Nobody, !.lease = FALSE]

\* Every way a sequence is ended by a decision clears the schedule, all holds
\* and the workflow claim.
EndedBy(e, state, why) ==
    [Unclaimed(Unscheduled(e)) EXCEPT !.state = state, !.stop = why,
                                      !.holds = 0, !.prev = NoSnapshot]

\* An inbound record takes hold of the enrollment; the first one remembers
\* what it interrupted.
Hold(e) ==
    [Unscheduled(e) EXCEPT !.state = "manual_review", !.holds = @ + 1,
                           !.prev = IF e.holds = 0 THEN SnapshotOf(e) ELSE @]

Fewer(n) == IF n = 0 THEN 0 ELSE n - 1

-----------------------------------------------------------------------------
(* mapReplyOutcome *)

\* "none" is a null state: the enrollment is left as it is.
OutcomeState(category) ==
    CASE category = "terminal" -> "replied"
      [] category = "hard"     -> "bounced"
      [] category = "soft"     -> "manual_review"
      [] category = "neutral"  -> IF HoldNonTerminal THEN "manual_review" ELSE "none"
      [] OTHER                 -> "none"

EndsSequence(category) == category \in {"terminal", "hard"}
ClearsSchedule(category) == OutcomeState(category) # "none"
RestoresSchedule(category) == category = "delayed"

\* Mutant: what a terminal reply said is not kept on the enrollment.
ClassifiedForgets(e, category) == [e EXCEPT !.lastReply = "other"]

StopReason(category) == IF category = "hard" THEN "hard_bounce" ELSE "reply"
Classified(e, category) ==
    [e EXCEPT !.lastReply = IF category = "terminal" THEN "terminal" ELSE "other"]

-----------------------------------------------------------------------------
(* The last transaction of ingestInboundMessage, on a matched enrollment. *)

\* The last hold of a report that changes nothing gives back what the first
\* hold interrupted, unless something else moved the enrollment meanwhile.
MayRestore(e, category, held) ==
    /\ held /\ Fewer(e.holds) = 0
    /\ OutcomeState(category) = "none"
    /\ ~HoldNonTerminal \/ RestoresSchedule(category)
    /\ e.state = "manual_review" /\ e.stop = "none"

Restored(e) ==
    [e EXCEPT !.state = IF e.prev.state = "none" THEN "waiting" ELSE e.prev.state,
              !.due = e.prev.due,
              !.token = e.prev.token,
              !.stop = IF e.prev.state = "completed" THEN "sequence_complete" ELSE @,
              !.holds = 0,
              !.prev = NoSnapshot]

\* Mutant: the first record to be done releases every hold.
ReleasedWithoutCounting(e, category) ==
    [e EXCEPT !.holds = 0, !.prev = NoSnapshot]

\* A record gives up its hold; the last one drops the snapshot, an earlier one
\* that asks for a human makes the snapshot ask for one too.
Released(e, category) ==
    [e EXCEPT !.holds = Fewer(e.holds),
              !.prev = CASE Fewer(e.holds) = 0 -> NoSnapshot
                         [] OutcomeState(category) = "manual_review" -> ManualSnapshot
                         [] OTHER -> @]

Answered(e, category, held) ==
    LET classified == Classified(e, category)
        moved == [IF ClearsSchedule(category) THEN Unscheduled(classified) ELSE classified
                     EXCEPT !.state = IF OutcomeState(category) = "none" THEN @
                                      ELSE OutcomeState(category)]
    IN  CASE e.state \in Terminal -> classified
          [] e.state \notin Terminal /\ EndsSequence(category) ->
                EndedBy(classified, OutcomeState(category), StopReason(category))
          [] e.state \notin Terminal /\ MayRestore(e, category, held) -> Restored(classified)
          [] OTHER -> IF held THEN Released(moved, category) ELSE moved

-----------------------------------------------------------------------------
(* advanceAddressLadder, as far as it writes the enrollment. *)

\* Mutant: the enrollment is parked where it is.
ReaddressedParksOnly(e, step) ==
    [Unscheduled(e) EXCEPT !.state = "manual_review", !.stop = "none"]

\* An advance, and a refusal that a setting could lift, both put the
\* enrollment back at the dead step for the operator; the holds stay counted
\* and are repointed at that.
Readdressed(e, step) ==
    [Unclaimed(Unscheduled(e)) EXCEPT
        !.state = "manual_review", !.step = step, !.stop = "none", !.lastReply = "other",
        !.prev = IF e.holds > 0 THEN ManualSnapshot ELSE NoSnapshot]

\* Mutant: ended sequences are re-addressed too.
LadderVerdictsOfEnded(e, step, dead, outstanding) ==
    IF dead THEN {[row |-> e, owns |-> TRUE]}
    ELSE {[row |-> e, owns |-> FALSE], [row |-> Readdressed(e, step), owns |-> TRUE]}

\* What the ladder may decide of a message whose address is proven dead: the
\* row it leaves, and whether it owns what becomes of the enrollment.  dead:
\* the death was recorded before; outstanding: another message of the
\* enrollment was attempted and is not dead.  Which refusal or advance comes
\* of the rungs, caps and settings is left open.
LadderVerdicts(e, step, dead, outstanding) ==
    IF dead THEN {[row |-> e, owns |-> TRUE]}
    ELSE {[row |-> e, owns |-> FALSE]}
         \cup IF e.state \in Ended \/ outstanding THEN {}
              ELSE {[row |-> Readdressed(e, step), owns |-> TRUE]}
                   \cup IF e.state = "completed" THEN {[row |-> e, owns |-> TRUE]} ELSE {}

-----------------------------------------------------------------------------
(* finalizeSent *)

Progressed(e, step, token) ==
    IF step < LastStep
    THEN [e EXCEPT !.state = "waiting", !.step = step + 1, !.due = TRUE,
                   !.token = token, !.stop = "none"]
    ELSE [Unscheduled(e) EXCEPT !.state = "completed", !.step = step,
                                !.stop = "sequence_complete"]

\* Mutant: a held enrollment keeps its step; only the snapshot moves on.
ConfirmedInPlace(e, step, token) ==
    LET next == Progressed(e, step, token)
    IN  Unclaimed(IF e.state \in Terminal THEN e
                  ELSE IF e.holds = 0 THEN next
                  ELSE [Unscheduled(e) EXCEPT
                          !.state = "manual_review", !.stop = "none",
                          !.prev = IF @.state = "manual_review" THEN @
                                   ELSE SnapshotOf(next)])

\* A confirmation that finds the enrollment held keeps the hold and makes the
\* progression what the hold will give back.
Confirmed(e, step, token) ==
    LET next == Progressed(e, step, token)
    IN  Unclaimed(IF e.state \in Terminal THEN e
                  ELSE IF e.holds = 0 THEN next
                  ELSE [Unscheduled(next) EXCEPT
                          !.state = "manual_review", !.stop = "none",
                          !.prev = IF @.state = "manual_review" THEN @
                                   ELSE SnapshotOf(next)])

\* markPermanentlyRejected, when no ladder decision stands in its place.
Rejected(e, hardBounce) ==
    IF e.state \in Terminal THEN e
    ELSE [Unclaimed(Unscheduled(e)) EXCEPT
            !.state = IF hardBounce THEN "bounced" ELSE "manual_review",
            !.stop = IF hardBounce THEN "hard_bounce" ELSE @]
=============================================================================
