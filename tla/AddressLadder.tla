---------------------------- MODULE AddressLadder ----------------------------
(***************************************************************************)
(* The addresses a company's people may have: what resolution finds        *)
(* (email-resolution/service.ts), what delivery proves dead and what then  *)
(* becomes of the next address and of the convention behind the dead one   *)
(* (ladder-service.ts, ladder.ts), and what the operator accepts by hand   *)
(* or restores.  One mail domain; a convention stands for the address it   *)
(* gives a person, and its number is its place in the public evidence.     *)
(* Deaths, acceptances by hand and restorations hold the domain's lock and *)
(* are atomic; a resolution holds none between its reads and its write,    *)
(* nor does the drafting of a message between the address and the row.     *)
(***************************************************************************)
EXTENDS Naturals, FiniteSets

CONSTANTS People, Sequences,  \* contacts, and the enrollments that write to them
          Owner,              \* the contact of each enrollment
          LastForm,           \* conventions 1..LastForm, best evidenced first
          MinimumPeople, FailureShare, \* when delivery discredits a convention
          MaxRungs, DailyCap, \* addresses a person may cost, advances a day
          LastEra             \* bound: 1 + how many verdicts are lifted

ASSUME LadderAssumption ==
    /\ IsFiniteSet(People)
    /\ Owner \in [Sequences -> People]
    /\ LastForm \in Nat \ {0}
    /\ MinimumPeople \in Nat \ {0}
    /\ FailureShare \in 1..100
    /\ MaxRungs \in Nat /\ DailyCap \in Nat
    /\ LastEra \in Nat \ {0}

Forms == 1..LastForm
NoForm == 0
Eras == 1..LastEra
Never == 0

VARIABLES
    held,      \* the addresses on record for each person
    inUse,     \* the accepted one
    byHand,    \* those the operator vouched for: confidence 1
    tried,     \* when an address was first attempted, in eras
    died,      \* when delivery proved that it does not exist
    blocked,   \* those on the suppression list
    resolved,  \* whose resolution status reads "resolved"
    left,      \* who has moved to another company
    pass,      \* the resolution that holds the claim of each person
    mail,      \* the message of each enrollment: where it stands, to which address
    over,      \* the enrollments that have ended
    verdict,   \* convention_demotions: standing, and the era of its restoration
    era, today,\* the eras divide at restorations; the advances of the last day
    advances, lastLift \* history: advances of a person, last restoration of a form

ladderVars == <<held, inUse, byHand, tried, died, blocked, resolved, left,
                pass, mail, over, verdict, era, today, advances, lastLift>>

Resting == [at |-> "none", demoted |-> {}, clear |-> {}]
Drafting == {"none", "drafting"}

LadderTypeOK ==
    /\ held \in [People -> SUBSET Forms]
    /\ inUse \in [People -> Forms \cup {NoForm}]
    /\ byHand \in [People -> SUBSET Forms]
    /\ tried \in [People -> [Forms -> Eras \cup {Never}]]
    /\ died \in [People -> [Forms -> Eras \cup {Never}]]
    /\ blocked \in [People -> SUBSET Forms]
    /\ resolved \subseteq People
    /\ left \in [People -> BOOLEAN]
    /\ pass \in [People -> [at: {"none", "search"}, demoted: SUBSET Forms,
                            clear: SUBSET Forms]]
    /\ mail \in [Sequences -> [at: {"none", "drafting", "proposed", "sent", "followed",
                                    "dead", "redrafting"}, to: Forms \cup {NoForm}]]
    /\ over \in [Sequences -> BOOLEAN]
    /\ verdict \in [Forms -> [standing: BOOLEAN, lifted: Eras \cup {Never}]]
    /\ era \in Eras
    /\ today \in 0..DailyCap
    /\ advances \in [People -> Nat]
    /\ lastLift \in [Forms -> Eras \cup {Never}]

LadderInit ==
    /\ held = [c \in People |-> {}]
    /\ inUse = [c \in People |-> NoForm]
    /\ byHand = [c \in People |-> {}]
    /\ tried = [c \in People |-> [f \in Forms |-> Never]]
    /\ died = [c \in People |-> [f \in Forms |-> Never]]
    /\ blocked = [c \in People |-> {}]
    /\ resolved = {}
    /\ left = [c \in People |-> FALSE]
    /\ pass = [c \in People |-> Resting]
    /\ mail = [e \in Sequences |-> [at |-> "none", to |-> NoForm]]
    /\ over = [e \in Sequences |-> FALSE]
    /\ verdict = [f \in Forms |-> [standing |-> FALSE, lifted |-> Never]]
    /\ era = 1
    /\ today = 0
    /\ advances = [c \in People |-> 0]
    /\ lastLift = [f \in Forms |-> Never]

-----------------------------------------------------------------------------

Tried(c, f) == tried[c][f] # Never
Dead(c, f) == died[c][f] # Never
Blocked(c, f) == Dead(c, f) \/ f \in blocked[c]

\* People with no outbound message at all: only their address may be moved for
\* a verdict about somebody else's.
Unwritten(c) == \A e \in Sequences : Owner[e] = c => mail[e].at \in Drafting

\* Demoted conventions last, then what the operator vouched for, then the
\* evidence.
Place(c, f, demoted, vouched) ==
    f + (IF f \in vouched[c] THEN 0 ELSE LastForm)
      + (IF f \in demoted THEN 2 * LastForm ELSE 0)

FirstRung(c, forms, demoted, vouched) ==
    CHOOSE f \in forms : \A g \in forms :
        Place(c, f, demoted, vouched) <= Place(c, g, demoted, vouched)

\* Never attempted, not proven dead, not suppressed.
Usable(c) == {f \in held[c] : ~Tried(c, f) /\ ~Blocked(c, f)}

\* The people a convention was attempted for, and proven dead for, since its
\* verdict was last lifted: the row keeps the lift until it is latched again.
Since(f) == IF verdict[f].lifted = Never THEN 1 ELSE verdict[f].lifted
DeadSince(f, since, deaths) == {c \in People : deaths[c][f] >= since}
TriedSince(f, since, deaths) ==
    {c \in People : tried[c][f] >= since \/ deaths[c][f] >= since}

Discredited(f, since, deaths) ==
    LET dead == Cardinality(DeadSince(f, since, deaths))
    IN  /\ dead >= MinimumPeople
        /\ dead * 100 >= Cardinality(TriedSince(f, since, deaths)) * FailureShare

\* Latched, or as the record reads now.
DemotedGiven(deaths) ==
    {f \in Forms : verdict[f].standing \/ Discredited(f, Since(f), deaths)}

Demoted == DemotedGiven(died)

-----------------------------------------------------------------------------
(* Resolution. *)

\* A pass takes the claim and reads what the record says: which conventions are
\* demoted, which addresses are neither dead nor suppressed.  A claim whose lease
\* ran out is taken over; the pass it belonged to writes nothing any more.
Resolve(c) ==
    /\ ~left[c]
    /\ pass' = [pass EXCEPT ![c] =
           [at |-> "search", demoted |-> Demoted, clear |-> {f \in Forms : ~Blocked(c, f)}]]
    /\ UNCHANGED <<held, inUse, byHand, tried, died, blocked, resolved, left, mail, over,
                   verdict, era, today, advances, lastLift>>

MxLookupFails(c) ==
    /\ pass[c].at = "search"
    /\ resolved' = resolved \ {c}
    /\ pass' = [pass EXCEPT ![c] = Resting]
    /\ UNCHANGED <<held, inUse, byHand, tried, died, blocked, left, mail, over, verdict,
                   era, today, advances, lastLift>>

\* Mutant: the address is chosen from what was read before the transaction.
OpenBefore(c, good) == {f \in good : f \in pass[c].clear}

\* What may be accepted is read again in the transaction that accepts it.
Open(c, good) == {f \in good : ~Blocked(c, f)}

\* An address already written to, and neither dead nor suppressed, stays.
Pinned(c) == inUse[c] # NoForm /\ Tried(c, inUse[c]) /\ ~Blocked(c, inUse[c])

Accepted(c, good) ==
    IF Pinned(c) THEN inUse[c]
    ELSE IF Open(c, good) # {}
    THEN FirstRung(c, Open(c, good), pass[c].demoted, [p \in People |-> {}])
    ELSE IF inUse[c] # NoForm /\ Blocked(c, inUse[c]) THEN NoForm
    ELSE inUse[c]

\* The addresses the search found, and those of them that clear the confidence
\* threshold.  A pass that accepts nothing leaves an address that is not blocked
\* in use, and the contact in manual_review or provider_error.
Conclude(c, found, good) ==
    /\ pass[c].at = "search"
    /\ held' = [held EXCEPT ![c] = @ \cup found]
    /\ byHand' = [byHand EXCEPT ![c] = @ \ found]
    /\ inUse' = [inUse EXCEPT ![c] = Accepted(c, good)]
    /\ resolved' = IF Pinned(c) \/ Open(c, good) # {} THEN resolved \cup {c}
                   ELSE resolved \ {c}
    /\ pass' = [pass EXCEPT ![c] = Resting]
    /\ UNCHANGED <<tried, died, blocked, left, mail, over, verdict, era, today, advances,
                   lastLift>>

\* acceptManualEmail: refused for an address that is dead or suppressed.
AcceptByHand(c, f) ==
    /\ ~left[c]
    /\ ~Blocked(c, f)
    /\ inUse[c] # f
    /\ held' = [held EXCEPT ![c] = @ \cup {f}]
    /\ byHand' = [byHand EXCEPT ![c] = @ \cup {f}]
    /\ inUse' = [inUse EXCEPT ![c] = f]
    /\ resolved' = resolved \cup {c}
    /\ UNCHANGED <<tried, died, blocked, left, pass, mail, over, verdict, era, today,
                   advances, lastLift>>

\* Contact discovery finds the person at another company: every address is
\* rejected, every enrollment that has not ended stops, the claim is cleared.
Leaves(c) ==
    /\ ~left[c]
    /\ left' = [left EXCEPT ![c] = TRUE]
    /\ inUse' = [inUse EXCEPT ![c] = NoForm]
    /\ resolved' = resolved \ {c}
    /\ pass' = [pass EXCEPT ![c] = Resting]
    /\ over' = [e \in Sequences |-> over[e] \/ Owner[e] = c]
    /\ UNCHANGED <<held, byHand, tried, died, blocked, mail, verdict, era, today,
                   advances, lastLift>>

-----------------------------------------------------------------------------
(* The messages. *)

\* prepareCommand takes the recipient from the accepted address; the draft is
\* written, with that recipient, when the agent has answered.
PrepareDraft(e) ==
    /\ ~over[e]
    /\ mail[e].at \in {"none", "dead"}
    /\ inUse[Owner[e]] # NoForm
    /\ mail' = [mail EXCEPT ![e] =
           [at |-> IF @.at = "none" THEN "drafting" ELSE "redrafting", to |-> inUse[Owner[e]]]]
    /\ UNCHANGED <<held, inUse, byHand, tried, died, blocked, resolved, left,
                   pass, over, verdict, era, today, advances, lastLift>>

WriteDraft(e) ==
    /\ ~over[e]
    /\ mail[e].at \in {"drafting", "redrafting"}
    /\ mail' = [mail EXCEPT ![e].at = "proposed"]
    /\ UNCHANGED <<held, inUse, byHand, tried, died, blocked, resolved, left,
                   pass, over, verdict, era, today, advances, lastLift>>

\* The recipient must be the address in use, but is compared with it only while
\* the contact's resolution reads "resolved".
Send(e) ==
    LET c == Owner[e]  f == mail[e].to
    IN  /\ mail[e].at = "proposed"
        /\ ~over[e] /\ ~left[c]
        /\ f \notin blocked[c]
        /\ c \in resolved => inUse[c] = f
        /\ mail' = [mail EXCEPT ![e].at = "sent"]
        /\ tried' = IF Tried(c, f) THEN tried ELSE [tried EXCEPT ![c][f] = era]
        /\ UNCHANGED <<held, inUse, byHand, died, blocked, resolved, left,
                       pass, over, verdict, era, today, advances, lastLift>>

\* A later step writes to the thread's address.
SendFollowUp(e) ==
    /\ mail[e].at = "sent"
    /\ ~over[e] /\ ~left[Owner[e]]
    /\ mail[e].to \notin blocked[Owner[e]]
    /\ Owner[e] \in resolved => inUse[Owner[e]] = mail[e].to
    /\ mail' = [mail EXCEPT ![e].at = "followed"]
    /\ UNCHANGED <<held, inUse, byHand, tried, died, blocked, resolved, left,
                   pass, over, verdict, era, today, advances, lastLift>>

\* A reply, a stop.
Ends(e) ==
    /\ ~over[e]
    /\ over' = [over EXCEPT ![e] = TRUE]
    /\ UNCHANGED <<held, inUse, byHand, tried, died, blocked, resolved, left,
                   pass, mail, verdict, era, today, advances, lastLift>>

Suppress(c, f) ==
    /\ f \notin blocked[c]
    /\ blocked' = [blocked EXCEPT ![c] = @ \cup {f}]
    /\ UNCHANGED <<held, inUse, byHand, tried, died, resolved, left, pass, mail,
                   over, verdict, era, today, advances, lastLift>>

\* With a justification the operator may remove a bounce's suppression as well.
Unsuppress(c, f) ==
    /\ f \in blocked[c]
    /\ blocked' = [blocked EXCEPT ![c] = @ \ {f}]
    /\ UNCHANGED <<held, inUse, byHand, tried, died, resolved, left, pass, mail,
                   over, verdict, era, today, advances, lastLift>>

-----------------------------------------------------------------------------
(* Deaths: a hard bounce, or a definite refusal of the recipient. *)

\* Mutant: nothing is written down, the record speaks for itself.
LatchNothing(demoted) == verdict

\* The verdicts the record supports are written down; a standing one is kept, a
\* lifted one stands again and forgets its lift.
Latch(demoted) ==
    [f \in Forms |-> IF f \in demoted THEN [standing |-> TRUE, lifted |-> Never]
                     ELSE verdict[f]]

\* Colleagues nobody has written to are moved off a demoted convention, when
\* they hold a better address.
Moves(c, demoted) ==
    /\ ~left[c] /\ Unwritten(c)
    /\ inUse[c] \in demoted
    /\ Usable(c) \ demoted # {}

\* Mutant: the address was already dead, and the ladder advances all the same.
RefusedOnceMore(e, enabled) ==
    left[Owner[e]] \/ over[e] \/ mail[e].at = "followed" \/ ~enabled

\* What raising a bound would not change: the person moved, another message proved
\* the address dead, the sequence was ended, an earlier or later send is
\* unreported, or the ladder is switched off.
Refused(e, enabled) ==
    \/ left[Owner[e]]
    \/ Dead(Owner[e], mail[e].to)
    \/ over[e]
    \/ mail[e].at = "followed"
    \/ ~enabled

\* Bounds the operator may raise.
Parked(e, circuitOpen) ==
    LET c == Owner[e]
    IN  \/ circuitOpen
        \/ today >= DailyCap
        \/ Cardinality({f \in held[c] : Tried(c, f) \/ Dead(c, f) \/ f = mail[e].to})
             >= MaxRungs

\* What the death leaves to try, in the order of the ladder.
Remaining(e) == Usable(Owner[e]) \ {mail[e].to}

\* What becomes of the dead address and, if its convention is demoted, of the
\* addresses of colleagues.
AfterVerdict(c, f, demoted) ==
    [p \in People |->
        IF p = c THEN IF inUse[c] = f THEN NoForm ELSE inUse[c]
        ELSE IF f \in demoted /\ Moves(p, demoted)
        THEN FirstRung(p, Usable(p) \ demoted, demoted, byHand)
        ELSE inUse[p]]

\* The next address is put in use.
Advances(e, enabled, circuitOpen) ==
    ~Refused(e, enabled) /\ ~Parked(e, circuitOpen) /\ Remaining(e) # {}

\* What ends the sequence: a refusal, or nothing left to try.  A bound parks it.
Stops(e, enabled, circuitOpen) ==
    \/ Refused(e, enabled)
    \/ ~Parked(e, circuitOpen) /\ Remaining(e) = {}

\* The contact reads "unresolved" when nothing took the dead address's place,
\* unless the reason says nothing about the contact: a ladder that is switched off
\* is asked only after an unreported send, which is about it.
Unresolves(e, enabled, circuitOpen) ==
    LET c == Owner[e]
    IN  /\ ~left[c] /\ ~Dead(c, mail[e].to) /\ ~over[e]
        /\ enabled \/ mail[e].at = "followed"
        /\ ~Advances(e, enabled, circuitOpen)

\* advanceAddressLadder, in the transaction that records the failure and
\* suppresses the address.
AddressDies(e, enabled, circuitOpen) ==
    LET c == Owner[e]
        f == mail[e].to
        deaths == IF Dead(c, f) THEN died ELSE [died EXCEPT ![c][f] = era]
        demoted == DemotedGiven(deaths)
        settled == AfterVerdict(c, f, demoted)
        advance == Advances(e, enabled, circuitOpen)
    IN  /\ mail[e].at \in {"sent", "followed"}
        /\ died' = deaths
        /\ blocked' = [blocked EXCEPT ![c] = @ \cup {f}]
        /\ verdict' = Latch(demoted)
        /\ inUse' = IF advance
                    THEN [settled EXCEPT ![c] = FirstRung(c, Remaining(e), demoted, byHand)]
                    ELSE settled
        /\ today' = IF advance THEN today + 1 ELSE today
        /\ advances' = IF advance THEN [advances EXCEPT ![c] = @ + 1] ELSE advances
        /\ resolved' = IF advance THEN resolved \cup {c}
                       ELSE IF Unresolves(e, enabled, circuitOpen) THEN resolved \ {c} ELSE resolved
        /\ over' = [over EXCEPT ![e] = @ \/ Stops(e, enabled, circuitOpen)]
        /\ mail' = [mail EXCEPT ![e].at = "dead"]
        /\ UNCHANGED <<held, byHand, tried, left, pass, era, lastLift>>

\* The last day's advances fall out of the window.
DayPasses ==
    /\ today > 0
    /\ today' = 0
    /\ UNCHANGED <<held, inUse, byHand, tried, died, blocked, resolved, left,
                   pass, mail, over, verdict, era, advances, lastLift>>

-----------------------------------------------------------------------------
(* liftConventionDemotion. *)

\* Mutant: the best address is put in use for whoever holds one.
PromotedAnyway(c, f, demoted) ==
    LET best == Usable(c) \ demoted
    IN  IF f \in held[c] /\ Unwritten(c) /\ best # {}
        THEN FirstRung(c, best, demoted, byHand) ELSE inUse[c]

\* Putting the order back moves an acceptance, it never makes one.
Promoted(c, f, demoted) ==
    LET best == Usable(c) \ demoted
    IN  IF f \in held[c] /\ Unwritten(c) /\ inUse[c] # NoForm /\ best # {}
        THEN FirstRung(c, best, demoted, byHand) ELSE inUse[c]

\* The stamp is where the record restarts.
LiftDemotion(f) ==
    LET others == {g \in Forms \ {f} : g \in Demoted}
    IN  /\ verdict[f].standing
        /\ era < LastEra
        /\ era' = era + 1
        /\ verdict' = [verdict EXCEPT ![f] = [standing |-> FALSE, lifted |-> era']]
        /\ lastLift' = [lastLift EXCEPT ![f] = era']
        /\ inUse' = [c \in People |-> Promoted(c, f, others)]
        /\ UNCHANGED <<held, byHand, tried, died, blocked, resolved, left, pass, mail,
                       over, today, advances>>

-----------------------------------------------------------------------------

PersonStep(c) ==
    \/ Resolve(c) \/ MxLookupFails(c)
    \/ \E found \in SUBSET Forms : \E good \in SUBSET found : Conclude(c, found, good)
    \/ Leaves(c)
    \/ \E f \in Forms : AcceptByHand(c, f) \/ Suppress(c, f) \/ Unsuppress(c, f)

MessageStep(e) ==
    \/ PrepareDraft(e) \/ WriteDraft(e) \/ Send(e) \/ SendFollowUp(e) \/ Ends(e)
    \/ \E enabled, circuitOpen \in BOOLEAN : AddressDies(e, enabled, circuitOpen)

LadderNext ==
    \/ \E c \in People : PersonStep(c)
    \/ \E e \in Sequences : MessageStep(e)
    \/ \E f \in Forms : LiftDemotion(f)
    \/ DayPasses

LadderSpec == LadderInit /\ [][LadderNext]_ladderVars

-----------------------------------------------------------------------------

\* An address delivery has proven dead is never in use again, whatever a
\* resolution that started earlier found, whoever asks and whatever is restored
\* or taken off the suppression list.
TheDeadStayDead == \A c \in People : inUse[c] # NoForm => ~Dead(c, inUse[c])

\* Several messages may be under way to one address when it dies; together they
\* cost the person one further address.
OneDeathOneAddress ==
    \A c \in People : advances[c] <= Cardinality({f \in Forms : Dead(c, f)})

\* A verdict stands on failures its last restoration did not excuse.
ExcusedStaysExcused ==
    \A f \in Forms : verdict[f].standing =>
        Cardinality({c \in People : Dead(c, f) /\ died[c][f] >= lastLift[f]})
            >= MinimumPeople

\* Nobody is given an address at a company they have left: neither by a late
\* answer or report, nor by a verdict or its restoration.
LeaversAreLeftAlone == \A c \in People : left[c] => inUse[c] = NoForm

\* Silence confirms nothing: however many attempts fail to bounce, a
\* convention that reads as demoted does so until the operator restores it.
VerdictsStand ==
    [][\A f \in Forms : f \in Demoted /\ f \notin Demoted' =>
           lastLift'[f] # lastLift[f]]_ladderVars

\* An address somebody was written to stays in use until it dies or is
\* suppressed, the person moves, the operator names another one, or another of
\* the person's addresses dies.
LiveAddressIsKept ==
    [][\A c \in People :
           inUse[c] # NoForm /\ Tried(c, inUse[c]) /\ ~Blocked(c, inUse[c])
           /\ inUse'[c] # inUse[c] =>
               \/ died'[c][inUse[c]] # Never
               \/ left'[c]
               \/ inUse'[c] \in byHand'[c]
               \/ advances'[c] # advances[c]]_ladderVars

\* "the send policy checks the recipient is still the accepted candidate"
\* (service.ts): a message is only ever sent to the address in use.
OnlyTheAddressInUse ==
    [][\A e \in Sequences :
           mail[e].at = "proposed" /\ mail'[e].at = "sent" =>
               inUse[Owner[e]] = mail[e].to]_ladderVars

=============================================================================
