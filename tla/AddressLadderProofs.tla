-------------------------- MODULE AddressLadderProofs --------------------------
(* That what delivery has proven is never forgotten: no dead address comes   *)
(* into use again, a death costs one further address, a verdict stands until *)
(* it is lifted and then needs failures of its own.  For any number of       *)
(* people, messages and conventions, and any thresholds.                     *)
EXTENDS AddressLadder, FiniteSetTheorems, WellFoundedInduction, TLAPS

\* What an address is worth to a person does not depend on whom the claim
\* belongs to: a person who has moved has no resolution under way either.
Deserted == \A c \in People : left[c] => inUse[c] = NoForm /\ pass[c].at = "none"

\* A message in hand has a recipient.
Addressed == \A e \in Sequences : mail[e].at # "none" => mail[e].to \in Forms

\* An address was attempted by a message that is still on record.
Witnessed == \A c \in People, f \in Forms : Tried(c, f) => ~Unwritten(c)

\* Nothing is dated in an era that has not begun.
Dated ==
    /\ \A c \in People, f \in Forms : died[c][f] <= era
    /\ \A f \in Forms : lastLift[f] <= era

\* A verdict the record supports is written down, and a row that does not stand
\* says when it was last lifted.
Latched ==
    \A f \in Forms :
        /\ Discredited(f, Since(f), died) => verdict[f].standing
        /\ ~verdict[f].standing => verdict[f].lifted = lastLift[f]

LadderInv ==
    /\ LadderTypeOK
    /\ TheDeadStayDead /\ Deserted /\ Addressed /\ OneDeathOneAddress
    /\ Witnessed /\ Dated /\ Latched /\ ExcusedStaysExcused

-----------------------------------------------------------------------------
(* The operators. *)

LEMMA NaturalOrder == OpToRel(<, Nat) = {ss \in Nat \X Nat : ss[1] < ss[2]}
BY Zenon DEF OpToRel

LEMMA LeastNumber ==
    ASSUME NEW T, T \subseteq Nat, T # {}
    PROVE  \E m \in T : \A n \in T : m <= n
<1>1. PICK m \in T : \A n \in T : ~(<<n, m>> \in OpToRel(<, Nat))
  BY NatLessThanWellFounded, WFMin
<1>2. \A n \in T : <<n, m>> \notin {ss \in Nat \X Nat : ss[1] < ss[2]}
  BY <1>1, NaturalOrder
<1>3. \A n \in T : ~(n < m)
  BY <1>2
<1> QED BY <1>3

\* The ladder has a first rung as soon as it has one.
LEMMA FirstRungIsOne ==
    ASSUME NEW c \in People, NEW forms \in SUBSET Forms, forms # {},
           NEW demoted, NEW vouched
    PROVE  FirstRung(c, forms, demoted, vouched) \in forms
<1> DEFINE P(f) == Place(c, f, demoted, vouched)
           T == {P(f) : f \in forms}
<1>1. \A f \in Forms : P(f) \in Nat
  BY LadderAssumption DEF Forms, Place
<1>2. T \subseteq Nat /\ T # {}
  BY <1>1
<1>3. PICK m \in T : \A n \in T : m <= n
  BY <1>2, LeastNumber
<1>4. PICK f \in forms : m = P(f)
  OBVIOUS
<1>5. \A g \in forms : P(f) <= P(g)
  BY <1>3, <1>4
<1> QED BY <1>4, <1>5 DEF FirstRung

LEMMA FewPeople ==
    ASSUME NEW S \in SUBSET People, NEW T \in SUBSET S
    PROVE  /\ Cardinality(S) \in Nat /\ Cardinality(T) \in Nat
           /\ Cardinality(T) <= Cardinality(S)
<1>1. IsFiniteSet(S)
  BY LadderAssumption, FS_Subset
<1> QED BY <1>1, FS_Subset, FS_CardinalityType

LEMMA FewForms ==
    ASSUME NEW S \in SUBSET Forms
    PROVE  /\ IsFiniteSet(S) /\ Cardinality(S) \in Nat
           /\ \A T \in SUBSET S : Cardinality(T) \in Nat /\ Cardinality(T) <= Cardinality(S)
<1>1. IsFiniteSet(Forms)
  BY LadderAssumption, FS_Interval DEF Forms
<1>2. IsFiniteSet(S)
  BY <1>1, FS_Subset
<1> QED BY <1>2, FS_Subset, FS_CardinalityType

-----------------------------------------------------------------------------
(* Initially. *)

LEMMA LadderInvInit == LadderInit => LadderInv
<1> SUFFICES ASSUME LadderInit PROVE LadderInv
  OBVIOUS
<1> USE LadderAssumption
<1>1. LadderTypeOK
  BY DEF LadderInit, LadderTypeOK, Forms, Eras, NoForm, Never, Resting
<1>2. \A c \in People, f \in Forms : died[c][f] = Never /\ tried[c][f] = Never
  BY DEF LadderInit
<1>3. TheDeadStayDead /\ Deserted /\ Addressed /\ Witnessed
  BY <1>2 DEF LadderInit, TheDeadStayDead, Deserted, Addressed, Witnessed, Tried
<1>4. OneDeathOneAddress
  <2>1. \A c \in People : advances[c] = 0
    BY DEF LadderInit
  <2>2. \A c \in People : Cardinality({f \in Forms : Dead(c, f)}) \in Nat
    BY FewForms
  <2> QED BY <2>1, <2>2 DEF OneDeathOneAddress
<1>5. Dated
  BY DEF LadderInit, Dated, Never
<1>6. ASSUME NEW f \in Forms PROVE ~Discredited(f, Since(f), died)
  <2>1. Since(f) = 1
    BY DEF LadderInit, Since
  <2>2. DeadSince(f, 1, died) = {}
    BY <1>2 DEF DeadSince, Never
  <2>3. Cardinality(DeadSince(f, 1, died)) = 0
    BY <2>2, FS_EmptySet
  <2> QED BY <2>1, <2>3 DEF Discredited
<1>7. Latched /\ ExcusedStaysExcused
  BY <1>6 DEF LadderInit, Latched, ExcusedStaysExcused
<1> QED BY <1>1, <1>3, <1>4, <1>5, <1>7 DEF LadderInv

-----------------------------------------------------------------------------
(* The steps of a person. *)

\* What speaks of attempts, deaths and verdicts alone.
LEMMA RecordStands ==
    ASSUME LadderInv, UNCHANGED <<tried, died, mail, verdict, era, advances, lastLift>>
    PROVE  /\ Addressed' /\ OneDeathOneAddress' /\ Witnessed' /\ Dated'
           /\ Latched' /\ ExcusedStaysExcused'
BY DEF LadderInv, Addressed, OneDeathOneAddress, Witnessed, Dated, Latched, ExcusedStaysExcused,
   Tried, Dead, Unwritten, Discredited, DeadSince, TriedSince, Since

\* An address that was not dead before the step and is in use after it.
LEMMA InUseAlive ==
    ASSUME LadderInv, died' = died, NEW c \in People,
           \A p \in People \ {c} : inUse'[p] = inUse[p],
           inUse'[c] # inUse[c] /\ inUse'[c] # NoForm => ~Dead(c, inUse'[c])
    PROVE  TheDeadStayDead'
BY DEF LadderInv, TheDeadStayDead, Dead

LEMMA ResolveKeepsInv ==
    ASSUME LadderInv, NEW c \in People, Resolve(c) PROVE LadderInv'
<1>1. LadderTypeOK'
  BY DEF LadderInv, LadderTypeOK, Resolve, Demoted, DemotedGiven
<1>2. TheDeadStayDead' /\ Deserted'
  BY DEF LadderInv, LadderTypeOK, TheDeadStayDead, Deserted, Resolve, Dead
<1> QED BY <1>1, <1>2, RecordStands DEF Resolve, LadderInv

LEMMA MxLookupFailsKeepsInv ==
    ASSUME LadderInv, NEW c \in People, MxLookupFails(c) PROVE LadderInv'
<1>1. LadderTypeOK'
  BY DEF LadderInv, LadderTypeOK, MxLookupFails, Resting
<1>2. TheDeadStayDead' /\ Deserted'
  BY DEF LadderInv, LadderTypeOK, TheDeadStayDead, Deserted, MxLookupFails, Dead, Resting
<1> QED BY <1>1, <1>2, RecordStands DEF MxLookupFails, LadderInv

\* A pass puts in use what the record, read again, does not call dead.
LEMMA AcceptedIsAlive ==
    ASSUME LadderInv, NEW c \in People, NEW good \in SUBSET Forms
    PROVE  /\ Accepted(c, good) \in Forms \cup {NoForm}
           /\ Accepted(c, good) # NoForm => ~Dead(c, Accepted(c, good))
<1>1. inUse[c] \in Forms \cup {NoForm} /\ (inUse[c] # NoForm => ~Dead(c, inUse[c]))
  BY DEF LadderInv, LadderTypeOK, TheDeadStayDead
<1>2. CASE ~Pinned(c) /\ Open(c, good) # {}
  <2>1. Open(c, good) \in SUBSET Forms /\ \A f \in Open(c, good) : ~Dead(c, f)
    BY DEF Open, Blocked
  <2> DEFINE f == FirstRung(c, Open(c, good), pass[c].demoted, [p \in People |-> {}])
  <2>2. f \in Open(c, good)
    BY <1>2, <2>1, FirstRungIsOne
  <2>3. Accepted(c, good) = f
    BY <1>2 DEF Accepted
  <2> QED BY <2>1, <2>2, <2>3
<1>3. CASE Pinned(c) \/ Open(c, good) = {}
  BY <1>1, <1>3 DEF Accepted
<1> QED BY <1>2, <1>3

LEMMA ConcludeKeepsInv ==
    ASSUME LadderInv, NEW c \in People, NEW found \in SUBSET Forms, NEW good \in SUBSET found,
           Conclude(c, found, good)
    PROVE  LadderInv'
<1>1. good \in SUBSET Forms
  OBVIOUS
<1>2. /\ inUse \in [People -> Forms \cup {NoForm}] /\ inUse' = [inUse EXCEPT ![c] = Accepted(c, good)]
      /\ pass[c].at = "search" /\ died' = died /\ left' = left
  BY DEF LadderInv, LadderTypeOK, Conclude
<1>3. LadderTypeOK'
  BY <1>1, <1>2, AcceptedIsAlive DEF LadderInv, LadderTypeOK, Conclude, Resting
<1>4. TheDeadStayDead'
  BY <1>1, <1>2, AcceptedIsAlive, InUseAlive
<1>5. Deserted'
  BY <1>2 DEF LadderInv, LadderTypeOK, Deserted, Conclude, Resting
<1> QED BY <1>3, <1>4, <1>5, RecordStands DEF Conclude, LadderInv

LEMMA AcceptByHandKeepsInv ==
    ASSUME LadderInv, NEW c \in People, NEW f \in Forms, AcceptByHand(c, f) PROVE LadderInv'
<1>1. /\ inUse \in [People -> Forms \cup {NoForm}] /\ inUse' = [inUse EXCEPT ![c] = f]
      /\ ~Dead(c, f) /\ ~left[c] /\ died' = died
  BY DEF LadderInv, LadderTypeOK, AcceptByHand, Blocked
<1>2. LadderTypeOK'
  BY DEF LadderInv, LadderTypeOK, AcceptByHand
<1>3. TheDeadStayDead'
  BY <1>1, InUseAlive
<1>4. Deserted'
  BY <1>1 DEF LadderInv, Deserted, AcceptByHand
<1> QED BY <1>2, <1>3, <1>4, RecordStands DEF AcceptByHand, LadderInv

LEMMA LeavesKeepsInv ==
    ASSUME LadderInv, NEW c \in People, Leaves(c) PROVE LadderInv'
<1>1. LadderTypeOK'
  BY DEF LadderInv, LadderTypeOK, Leaves, Resting
<1>2. TheDeadStayDead' /\ Deserted'
  BY DEF LadderInv, LadderTypeOK, TheDeadStayDead, Deserted, Leaves, Dead, Resting
<1> QED BY <1>1, <1>2, RecordStands DEF Leaves, LadderInv

LEMMA SuppressionKeepsInv ==
    ASSUME LadderInv, NEW c \in People, NEW f \in Forms, Suppress(c, f) \/ Unsuppress(c, f)
    PROVE  LadderInv'
<1>1. LadderTypeOK'
  <2>1. CASE Suppress(c, f)
    BY <2>1 DEF LadderInv, LadderTypeOK, Suppress
  <2>2. CASE Unsuppress(c, f)
    BY <2>2 DEF LadderInv, LadderTypeOK, Unsuppress
  <2> QED BY <2>1, <2>2
<1>2. TheDeadStayDead' /\ Deserted'
  BY DEF LadderInv, TheDeadStayDead, Deserted, Suppress, Unsuppress, Dead
<1> QED BY <1>1, <1>2, RecordStands DEF Suppress, Unsuppress, LadderInv

-----------------------------------------------------------------------------
(* The steps of a message. *)

\* A message moves on, and a person who was written to stays written to.
LEMMA MessageMoves ==
    ASSUME LadderInv, UNCHANGED <<inUse, died, left, pass, verdict, era, advances, lastLift>>,
           Addressed', \A c \in People : Unwritten(c)' => Unwritten(c),
           \A c \in People, f \in Forms :
               \/ tried'[c][f] = tried[c][f]
               \/ tried[c][f] = Never /\ tried'[c][f] = era /\ ~Unwritten(c)'
    PROVE  /\ TheDeadStayDead' /\ Deserted' /\ OneDeathOneAddress' /\ Witnessed'
           /\ Dated' /\ Latched' /\ ExcusedStaysExcused'
<1>1. TheDeadStayDead' /\ Deserted' /\ OneDeathOneAddress' /\ Dated' /\ ExcusedStaysExcused'
  BY DEF LadderInv, TheDeadStayDead, Deserted, OneDeathOneAddress, Dated, ExcusedStaysExcused, Dead
<1>2. Witnessed'
  <2> SUFFICES ASSUME NEW c \in People, NEW f \in Forms, tried'[c][f] # Never
               PROVE  ~Unwritten(c)'
    BY DEF Witnessed, Tried
  <2> QED BY DEF LadderInv, Witnessed, Tried
<1>3. Latched'
  <2> SUFFICES ASSUME NEW f \in Forms, Discredited(f, Since(f), died)'
               PROVE  Discredited(f, Since(f), died)
    BY DEF LadderInv, Latched
  <2> DEFINE since == Since(f)
             D == DeadSince(f, since, died)
             T == TriedSince(f, since, died)
  <2>1. Since(f)' = since /\ DeadSince(f, since, died)' = D
    BY DEF Since, DeadSince
  <2>2. T \in SUBSET (TriedSince(f, since, died)')
    <3>1. since \in Nat /\ since >= 1
      <4>1. verdict[f].lifted \in Eras \cup {Never}
        BY DEF LadderInv, LadderTypeOK
      <4> QED BY <4>1, LadderAssumption DEF Since, Eras, Never
    <3>2. ASSUME NEW c \in People, tried[c][f] >= since PROVE tried'[c][f] >= since'
      BY <2>1, <3>1, <3>2 DEF Never
    <3>3. ASSUME NEW c \in People, died[c][f] >= since PROVE died'[c][f] >= since'
      BY <2>1, <3>3
    <3> HIDE DEF since
    <3> QED BY <3>2, <3>3 DEF TriedSince
  <2>3. T \in SUBSET People /\ TriedSince(f, since, died)' \in SUBSET People /\ D \in SUBSET People
    BY DEF TriedSince, DeadSince
  <2>4. /\ Cardinality(T) \in Nat /\ Cardinality(TriedSince(f, since, died)') \in Nat
        /\ Cardinality(D) \in Nat
        /\ Cardinality(T) <= Cardinality(TriedSince(f, since, died)')
    BY <2>2, <2>3, FewPeople
  <2>5. /\ Cardinality(D) >= MinimumPeople
        /\ Cardinality(D) * 100 >= Cardinality(TriedSince(f, since, died)') * FailureShare
    BY <2>1 DEF Discredited, DeadSince, TriedSince
  <2>6. \A a, b \in Nat : a <= b => a * FailureShare <= b * FailureShare
    BY LadderAssumption
  <2>7. Cardinality(D) * 100 >= Cardinality(T) * FailureShare
    <3> DEFINE a == Cardinality(T)  b == Cardinality(TriedSince(f, since, died)')
               d == Cardinality(D)
    <3>1. a \in Nat /\ b \in Nat /\ d \in Nat /\ a <= b /\ d * 100 >= b * FailureShare
      BY <2>4, <2>5
    <3>2. a * FailureShare <= b * FailureShare /\ FailureShare \in Nat
      BY <2>6, <3>1, LadderAssumption
    <3> HIDE DEF a, b, d
    <3>3. a * FailureShare \in Nat /\ b * FailureShare \in Nat
      BY <3>1, <3>2
    <3>4. d * 100 >= a * FailureShare
      BY <3>1, <3>2, <3>3
    <3> QED BY <3>4 DEF a, d
  <2> QED BY <2>5, <2>7 DEF Discredited
<1> QED BY <1>1, <1>2, <1>3

LEMMA DraftingKeepsInv ==
    ASSUME LadderInv, NEW e \in Sequences, PrepareDraft(e) \/ WriteDraft(e) PROVE LadderInv'
<1>1. Owner[e] \in People /\ inUse[Owner[e]] \in Forms \cup {NoForm}
      /\ mail[e] \in [at: {"none", "drafting", "proposed", "sent", "followed", "dead", "redrafting"},
                      to: Forms \cup {NoForm}]
  BY LadderAssumption DEF LadderInv, LadderTypeOK
<1>2. LadderTypeOK' /\ Addressed' /\ \A c \in People : Unwritten(c)' => Unwritten(c)
  <2>1. CASE PrepareDraft(e)
    BY <1>1, <2>1 DEF LadderInv, LadderTypeOK, Addressed, Unwritten, Drafting, PrepareDraft
  <2>2. CASE WriteDraft(e)
    BY <1>1, <2>2 DEF LadderInv, LadderTypeOK, Addressed, Unwritten, Drafting, WriteDraft
  <2> QED BY <2>1, <2>2
<1> QED BY <1>2, MessageMoves DEF LadderInv, PrepareDraft, WriteDraft

LEMMA SendKeepsInv ==
    ASSUME LadderInv, NEW e \in Sequences, Send(e) PROVE LadderInv'
<1> DEFINE c == Owner[e]  f == mail[e].to
<1>1. c \in People /\ f \in Forms /\ mail[e].at = "proposed"
  BY LadderAssumption DEF LadderInv, LadderTypeOK, Addressed, Send
<1>2. mail' = [mail EXCEPT ![e].at = "sent"]
      /\ tried' = IF Tried(c, f) THEN tried ELSE [tried EXCEPT ![c][f] = era]
  BY DEF Send
<1>3. tried \in [People -> [Forms -> Eras \cup {Never}]] /\ era \in Eras
      /\ mail \in [Sequences -> [at: {"none", "drafting", "proposed", "sent", "followed", "dead",
                                      "redrafting"}, to: Forms \cup {NoForm}]]
  BY DEF LadderInv, LadderTypeOK
<1>4. LadderTypeOK'
  <2>1. tried' \in [People -> [Forms -> Eras \cup {Never}]]
    BY <1>1, <1>2, <1>3
  <2>2. mail' \in [Sequences -> [at: {"none", "drafting", "proposed", "sent", "followed", "dead",
                                      "redrafting"}, to: Forms \cup {NoForm}]]
    BY <1>2, <1>3
  <2> QED BY <2>1, <2>2 DEF LadderInv, LadderTypeOK, Send
<1>5. Addressed' /\ ~Unwritten(c)' /\ \A p \in People : Unwritten(p)' => Unwritten(p)
  BY <1>1, <1>2, <1>3 DEF LadderInv, Addressed, Unwritten, Drafting
<1>6. \A p \in People, g \in Forms :
          \/ tried'[p][g] = tried[p][g]
          \/ tried[p][g] = Never /\ tried'[p][g] = era /\ ~Unwritten(p)'
  BY <1>1, <1>2, <1>3, <1>5 DEF Tried
<1> QED BY <1>4, <1>5, <1>6, MessageMoves DEF LadderInv, Send

LEMMA FollowUpAndEndKeepInv ==
    ASSUME LadderInv, NEW e \in Sequences, SendFollowUp(e) \/ Ends(e) PROVE LadderInv'
<1>1. LadderTypeOK' /\ Addressed' /\ \A c \in People : Unwritten(c)' => Unwritten(c)
  <2>1. CASE SendFollowUp(e)
    BY <2>1 DEF LadderInv, LadderTypeOK, Addressed, Unwritten, Drafting, SendFollowUp
  <2>2. CASE Ends(e)
    BY <2>2 DEF LadderInv, LadderTypeOK, Addressed, Unwritten, Drafting, Ends
  <2> QED BY <2>1, <2>2
<1> QED BY <1>1, MessageMoves DEF LadderInv, SendFollowUp, Ends

-----------------------------------------------------------------------------
(* Deaths. *)

\* What else a death may change: the dead address, and nothing that was dead.
Buries(deaths, c, f) ==
    /\ deaths \in [People -> [Forms -> Eras \cup {Never}]]
    /\ deaths[c][f] # Never
    /\ \A p \in People, g \in Forms :
           \/ deaths[p][g] = died[p][g]
           \/ p = c /\ g = f /\ died[p][g] = Never /\ deaths[p][g] = era

LEMMA DeathIsDated ==
    ASSUME LadderInv, NEW c \in People, NEW f \in Forms
    PROVE  Buries(IF Dead(c, f) THEN died ELSE [died EXCEPT ![c][f] = era], c, f)
<1>1. died \in [People -> [Forms -> Eras \cup {Never}]] /\ era \in Eras
  BY DEF LadderInv, LadderTypeOK
<1>2. era # Never
  BY <1>1 DEF Eras, Never
<1> QED BY <1>1, <1>2 DEF Dead, Buries

\* The verdicts are latched on the failures that speak against them.
LEMMA LatchingKeepsVerdicts ==
    ASSUME LadderInv, NEW c \in People, NEW f \in Forms, NEW deaths, Buries(deaths, c, f),
           died' = deaths, verdict' = Latch(DemotedGiven(deaths)),
           UNCHANGED <<tried, lastLift>>
    PROVE  Latched' /\ ExcusedStaysExcused'
<1> DEFINE demoted == DemotedGiven(deaths)
<1>1. \A g \in Forms : verdict'[g] = IF g \in demoted THEN [standing |-> TRUE, lifted |-> Never]
                                     ELSE verdict[g]
  BY DEF Latch
<1>2. Latched'
  <2> SUFFICES ASSUME NEW g \in Forms, ~verdict'[g].standing
               PROVE  ~Discredited(g, Since(g), died)' /\ verdict'[g].lifted = lastLift'[g]
    BY DEF Latched
  <2>1. g \notin demoted /\ verdict'[g] = verdict[g]
    BY <1>1
  <2>2. ~Discredited(g, Since(g), deaths)
    BY <2>1 DEF DemotedGiven
  <2>3. Discredited(g, Since(g), died)' = Discredited(g, Since(g), deaths)
    BY <2>1 DEF Discredited, Since, DeadSince, TriedSince
  <2> QED BY <2>1, <2>2, <2>3 DEF LadderInv, Latched
<1>3. ExcusedStaysExcused'
  <2> SUFFICES ASSUME NEW g \in Forms, verdict'[g].standing
               PROVE  Cardinality({p \in People : Dead(p, g) /\ died[p][g] >= lastLift[g]}')
                          >= MinimumPeople
    BY DEF ExcusedStaysExcused
  <2> DEFINE now == {p \in People : deaths[p][g] # Never /\ deaths[p][g] >= lastLift[g]}
  <2>1. {p \in People : Dead(p, g) /\ died[p][g] >= lastLift[g]}' = now
    BY DEF Dead
  <2>2. now \in SUBSET People /\ MinimumPeople \in Nat
    BY LadderAssumption
  <2>3. ASSUME NEW S \in SUBSET now, Cardinality(S) >= MinimumPeople
        PROVE  Cardinality(now) >= MinimumPeople
    <3> HIDE DEF now
    <3>1. Cardinality(now) \in Nat /\ Cardinality(S) \in Nat /\ Cardinality(S) <= Cardinality(now)
      BY <2>2, FewPeople
    <3> QED BY <2>2, <2>3, <3>1
  <2>4. CASE verdict[g].standing
    <3> DEFINE S == {p \in People : Dead(p, g) /\ died[p][g] >= lastLift[g]}
    <3>1. Cardinality(S) >= MinimumPeople
      BY <2>4 DEF LadderInv, ExcusedStaysExcused
    <3>2. S \in SUBSET now
      BY DEF Buries, Dead
    <3> QED BY <2>1, <2>3, <3>1, <3>2
  <2>5. CASE ~verdict[g].standing
    <3> DEFINE S == DeadSince(g, Since(g), deaths)
    <3>1. Discredited(g, Since(g), deaths)
      BY <1>1, <2>5 DEF DemotedGiven
    <3>2. verdict[g].lifted = lastLift[g] /\ lastLift[g] \in Eras \cup {Never}
      BY <2>5 DEF LadderInv, Latched, LadderTypeOK
    <3>3. Since(g) \in Nat /\ Since(g) >= 1 /\ Since(g) >= lastLift[g] /\ lastLift[g] \in Nat
      BY <3>2, LadderAssumption DEF Since, Eras, Never
    <3>4. \A p \in People : deaths[p][g] \in Nat
      BY LadderAssumption DEF Buries, Eras, Never
    <3>5. S \in SUBSET now
      BY <3>3, <3>4 DEF DeadSince, Never
    <3>6. Cardinality(S) >= MinimumPeople
      BY <3>1 DEF Discredited
    <3> QED BY <2>1, <2>3, <3>5, <3>6
  <2> QED BY <2>4, <2>5
<1> QED BY <1>2, <1>3

\* What a verdict makes of the addresses in use.
LEMMA VerdictMovesToTheLiving ==
    ASSUME LadderInv, NEW c \in People, NEW f \in Forms, NEW deaths, Buries(deaths, c, f),
           NEW demoted \in SUBSET Forms, NEW p \in People
    PROVE  LET a == AfterVerdict(c, f, demoted)[p]
           IN  /\ a \in Forms \cup {NoForm}
               /\ a # NoForm => deaths[p][a] = Never
               /\ left[p] => a = NoForm
<1> DEFINE a == AfterVerdict(c, f, demoted)[p]
           best == Usable(p) \ demoted
<1>1. inUse[p] \in Forms \cup {NoForm} /\ (inUse[p] # NoForm => died[p][inUse[p]] = Never)
      /\ (left[p] => inUse[p] = NoForm)
  BY DEF LadderInv, LadderTypeOK, TheDeadStayDead, Deserted, Dead
<1>2. CASE p = c
  BY <1>1, <1>2 DEF AfterVerdict, Buries
<1>3. CASE p # c /\ f \in demoted /\ Moves(p, demoted)
  <2>1. best \in SUBSET Forms /\ best # {} /\ \A g \in best : died[p][g] = Never
    BY <1>3 DEF LadderInv, LadderTypeOK, Usable, Moves, Blocked, Dead
  <2>2. FirstRung(p, best, demoted, byHand) \in best
    BY <2>1, FirstRungIsOne
  <2>3. a = FirstRung(p, best, demoted, byHand)
    BY <1>3 DEF AfterVerdict
  <2>4. ~left[p]
    BY <1>3 DEF Moves
  <2> QED BY <1>3, <2>1, <2>2, <2>3, <2>4 DEF Buries
<1>4. CASE p # c /\ ~(f \in demoted /\ Moves(p, demoted))
  BY <1>1, <1>4 DEF AfterVerdict, Buries
<1> QED BY <1>2, <1>3, <1>4

LEMMA AddressDiesKeepsInv ==
    ASSUME LadderInv, NEW e \in Sequences, NEW enabled \in BOOLEAN, NEW circuitOpen \in BOOLEAN,
           AddressDies(e, enabled, circuitOpen)
    PROVE  LadderInv'
<1> DEFINE c == Owner[e]
           f == mail[e].to
           deaths == IF Dead(c, f) THEN died ELSE [died EXCEPT ![c][f] = era]
           demoted == DemotedGiven(deaths)
           settled == AfterVerdict(c, f, demoted)
           advance == Advances(e, enabled, circuitOpen)
           next == FirstRung(c, Remaining(e), demoted, byHand)
<1>1. c \in People /\ f \in Forms /\ demoted \in SUBSET Forms
  BY LadderAssumption DEF LadderInv, Addressed, AddressDies, DemotedGiven
<1>2. Buries(deaths, c, f)
  BY <1>1, DeathIsDated
<1>3. /\ died' = deaths
      /\ verdict' = Latch(demoted)
      /\ inUse' = IF advance THEN [settled EXCEPT ![c] = next] ELSE settled
      /\ today' = IF advance THEN today + 1 ELSE today
      /\ advances' = IF advance THEN [advances EXCEPT ![c] = @ + 1] ELSE advances
      /\ mail' = [mail EXCEPT ![e].at = "dead"]
      /\ mail[e].at \in {"sent", "followed"}
      /\ UNCHANGED <<held, byHand, tried, left, pass, era, lastLift>>
  BY DEF AddressDies
<1> HIDE DEF deaths, demoted, settled, advance, next, c, f
<1>4. ASSUME advance
      PROVE  /\ next \in Forms /\ died[c][next] = Never /\ next # f
             /\ ~left[c] /\ died[c][f] = Never /\ today < DailyCap
  <2>1. Remaining(e) \in SUBSET Forms /\ Remaining(e) # {}
        /\ \A g \in Remaining(e) : died[c][g] = Never /\ g # f
    <3>1. held[c] \in SUBSET Forms
      BY <1>1 DEF LadderInv, LadderTypeOK
    <3> QED BY <1>4, <3>1 DEF Remaining, Usable, Blocked, Dead, Advances, advance, c, f
  <2>2. next \in Remaining(e)
    BY <1>1, <2>1, FirstRungIsOne DEF next
  <2>3. today \in 0..DailyCap
    BY DEF LadderInv, LadderTypeOK
  <2>4. ~left[c] /\ died[c][f] = Never /\ today < DailyCap
    BY <1>4, <2>3, LadderAssumption DEF Advances, Refused, Parked, Dead, advance, c, f
  <2> QED BY <2>1, <2>2, <2>4
<1>5. \A p \in People :
          /\ settled[p] \in Forms \cup {NoForm}
          /\ settled[p] # NoForm => deaths[p][settled[p]] = Never
          /\ left[p] => settled[p] = NoForm
  BY <1>1, <1>2, VerdictMovesToTheLiving DEF settled
<1>6. settled = [p \in People |-> settled[p]]
  BY DEF settled, AfterVerdict
<1>7. \A p \in People :
          /\ inUse'[p] \in Forms \cup {NoForm}
          /\ inUse'[p] # NoForm => deaths[p][inUse'[p]] = Never
          /\ left[p] => inUse'[p] = NoForm
  BY <1>1, <1>2, <1>3, <1>4, <1>5, <1>6 DEF Buries
<1>8. LadderTypeOK'
  <2>1. inUse' \in [People -> Forms \cup {NoForm}]
    BY <1>3, <1>6, <1>7
  <2>2. verdict' \in [Forms -> [standing: BOOLEAN, lifted: Eras \cup {Never}]]
    BY <1>3 DEF LadderInv, LadderTypeOK, Latch
  <2>3. today' \in 0..DailyCap /\ advances' \in [People -> Nat]
    <3>1. today \in 0..DailyCap /\ advances \in [People -> Nat] /\ DailyCap \in Nat
      BY LadderAssumption DEF LadderInv, LadderTypeOK
    <3>2. today' \in 0..DailyCap
      BY <1>3, <1>4, <3>1
    <3>3. advances' \in [People -> Nat]
      <4>1. advances[c] + 1 \in Nat
        BY <1>1, <3>1
      <4>2. [advances EXCEPT ![c] = advances[c] + 1] \in [People -> Nat]
        BY <3>1, <4>1
      <4> QED BY <1>3, <3>1, <4>2
    <3> QED BY <3>2, <3>3
  <2>4. died' \in [People -> [Forms -> Eras \cup {Never}]]
    BY <1>2, <1>3 DEF Buries
  <2>5. blocked' \in [People -> SUBSET Forms]
    BY <1>1 DEF LadderInv, LadderTypeOK, AddressDies, c, f
  <2>6. resolved' \subseteq People /\ over' \in [Sequences -> BOOLEAN]
    <3>1. Stops(e, enabled, circuitOpen) \in BOOLEAN
      BY DEF Stops
    <3> QED BY <1>1, <3>1 DEF LadderInv, LadderTypeOK, AddressDies, c
  <2>7. mail' \in [Sequences -> [at: {"none", "drafting", "proposed", "sent", "followed", "dead",
                                      "redrafting"}, to: Forms \cup {NoForm}]]
    <3>1. mail \in [Sequences -> [at: {"none", "drafting", "proposed", "sent", "followed", "dead",
                                       "redrafting"}, to: Forms \cup {NoForm}]]
      BY DEF LadderInv, LadderTypeOK
    <3> QED BY <1>3, <3>1
  <2> QED BY <1>3, <2>1, <2>2, <2>3, <2>4, <2>5, <2>6, <2>7 DEF LadderInv, LadderTypeOK
<1>9. TheDeadStayDead' /\ Deserted'
  BY <1>3, <1>7 DEF TheDeadStayDead, Deserted, Dead, LadderInv
<1>10. Addressed' /\ Witnessed'
  <2>1. mail \in [Sequences -> [at: {"none", "drafting", "proposed", "sent", "followed", "dead",
                                      "redrafting"}, to: Forms \cup {NoForm}]]
    BY DEF LadderInv, LadderTypeOK
  <2>2. Addressed'
    BY <1>3, <2>1 DEF LadderInv, Addressed
  <2>3. \A p \in People : Unwritten(p)' => Unwritten(p)
    BY <1>3, <2>1 DEF Unwritten, Drafting
  <2> QED BY <1>3, <2>2, <2>3 DEF LadderInv, Witnessed, Tried
<1>11. Dated'
  <2>1. era \in Nat
    BY LadderAssumption DEF LadderInv, LadderTypeOK, Eras
  <2> QED BY <1>2, <1>3, <2>1 DEF LadderInv, Dated, Buries
<1>12. OneDeathOneAddress'
  <2> SUFFICES ASSUME NEW p \in People
               PROVE  advances'[p] <= Cardinality({g \in Forms : Dead(p, g)}')
    BY DEF OneDeathOneAddress
  <2> DEFINE D == {g \in Forms : Dead(p, g)}
             N == {g \in Forms : deaths[p][g] # Never}
  <2>1. {g \in Forms : Dead(p, g)}' = N /\ D \in SUBSET N
    BY <1>2, <1>3 DEF Dead, Buries
  <2>2. /\ advances[p] \in Nat /\ advances \in [People -> Nat] /\ advances[p] <= Cardinality(D)
        /\ N \in SUBSET Forms
    BY DEF LadderInv, LadderTypeOK, OneDeathOneAddress
  <2>3. /\ Cardinality(D) \in Nat /\ Cardinality(N) \in Nat /\ Cardinality(D) <= Cardinality(N)
        /\ IsFiniteSet(D)
    <3> HIDE DEF D, N
    <3> QED BY <2>1, <2>2, FewForms
  <2>4. CASE advance /\ p = c
    <3>1. f \notin D /\ N = D \cup {f}
      BY <1>1, <1>2, <1>4, <2>4 DEF Dead, Buries
    <3>2. Cardinality(N) = Cardinality(D) + 1
      <4> HIDE DEF D, N
      <4> QED BY <2>3, <3>1, FS_AddElement
    <3>3. advances'[p] = advances[p] + 1
      BY <1>3, <2>2, <2>4
    <3>4. advances[p] + 1 <= Cardinality(N)
      <4> HIDE DEF D, N
      <4> QED BY <2>2, <2>3, <3>2
    <3> HIDE DEF N, advance
    <3> QED BY <2>1, <3>3, <3>4
  <2>5. CASE ~(advance /\ p = c)
    <3>1. advances'[p] = advances[p]
      BY <1>3, <2>2, <2>5
    <3>2. advances[p] <= Cardinality(N)
      <4> HIDE DEF D, N
      <4> QED BY <2>2, <2>3
    <3> HIDE DEF N, advance
    <3> QED BY <2>1, <3>1, <3>2
  <2> QED BY <2>4, <2>5
<1>13. Latched' /\ ExcusedStaysExcused'
  BY <1>1, <1>2, <1>3, LatchingKeepsVerdicts DEF demoted
<1> QED BY <1>8, <1>9, <1>10, <1>11, <1>12, <1>13 DEF LadderInv

-----------------------------------------------------------------------------
(* Restorations, and the passing of a day. *)

LEMMA LiftDemotionKeepsInv ==
    ASSUME LadderInv, NEW f \in Forms, LiftDemotion(f) PROVE LadderInv'
<1> DEFINE others == {g \in Forms \ {f} : g \in Demoted}
<1>1. /\ verdict' = [verdict EXCEPT ![f] = [standing |-> FALSE, lifted |-> era']]
      /\ lastLift' = [lastLift EXCEPT ![f] = era']
      /\ inUse' = [c \in People |-> Promoted(c, f, others)]
      /\ era' = era + 1 /\ era < LastEra
      /\ UNCHANGED <<held, byHand, tried, died, blocked, resolved, left, pass, mail,
                     over, today, advances>>
  BY DEF LiftDemotion
<1>2. era \in Eras /\ era' \in Eras /\ era \in Nat /\ era' \in Nat /\ era # Never /\ era' # Never
  BY <1>1, LadderAssumption DEF LadderInv, LadderTypeOK, Eras, Never
<1>3. /\ verdict \in [Forms -> [standing: BOOLEAN, lifted: Eras \cup {Never}]]
      /\ lastLift \in [Forms -> Eras \cup {Never}]
      /\ died \in [People -> [Forms -> Eras \cup {Never}]]
  BY DEF LadderInv, LadderTypeOK
<1>4. ASSUME NEW c \in People
      PROVE  /\ inUse'[c] \in Forms \cup {NoForm}
             /\ inUse'[c] # NoForm => ~Dead(c, inUse'[c])
             /\ left[c] => inUse'[c] = NoForm
  <2> DEFINE best == Usable(c) \ others
  <2>1. inUse[c] \in Forms \cup {NoForm} /\ (inUse[c] # NoForm => ~Dead(c, inUse[c]))
        /\ (left[c] => inUse[c] = NoForm)
    BY DEF LadderInv, LadderTypeOK, TheDeadStayDead, Deserted
  <2>2. best \in SUBSET Forms /\ \A g \in best : ~Dead(c, g)
    BY DEF LadderInv, LadderTypeOK, Usable, Blocked
  <2>3. best # {} => FirstRung(c, best, others, byHand) \in best
    BY <2>2, FirstRungIsOne
  <2> QED BY <1>1, <2>1, <2>2, <2>3 DEF Promoted
<1>5. LadderTypeOK'
  <2>1. inUse' \in [People -> Forms \cup {NoForm}]
    BY <1>1, <1>4
  <2>2. verdict' \in [Forms -> [standing: BOOLEAN, lifted: Eras \cup {Never}]]
        /\ lastLift' \in [Forms -> Eras \cup {Never}]
    BY <1>1, <1>2, <1>3
  <2> QED BY <1>1, <1>2, <2>1, <2>2 DEF LadderInv, LadderTypeOK
<1>6. TheDeadStayDead' /\ Deserted' /\ Addressed' /\ OneDeathOneAddress' /\ Witnessed'
  BY <1>1, <1>4 DEF LadderInv, TheDeadStayDead, Deserted, Addressed, OneDeathOneAddress, Witnessed,
     Dead, Tried, Unwritten
<1>7. Dated'
  <2>1. \A c \in People, g \in Forms : died[c][g] \in Nat /\ died[c][g] <= era
    BY <1>3, LadderAssumption DEF LadderInv, Dated, Eras, Never
  <2>2. \A g \in Forms : lastLift[g] \in Nat /\ lastLift[g] <= era
    BY <1>3, LadderAssumption DEF LadderInv, Dated, Eras, Never
  <2> QED BY <1>1, <1>2, <1>3, <2>1, <2>2 DEF Dated
<1>8. ~Discredited(f, Since(f), died)'
  <2>1. Since(f)' = era'
    BY <1>1, <1>2, <1>3 DEF Since
  <2>2. \A c \in People : ~(died[c][f] >= era')
    <3>1. \A c \in People : died[c][f] \in Nat /\ died[c][f] <= era
      BY <1>3, LadderAssumption DEF LadderInv, Dated, Eras, Never
    <3> QED BY <1>1, <1>2, <3>1
  <2>3. DeadSince(f, Since(f), died)' = {}
    BY <1>1, <2>1, <2>2 DEF DeadSince
  <2>4. Cardinality(DeadSince(f, Since(f), died)') = 0
    BY <2>3, FS_EmptySet
  <2> QED BY <2>4, LadderAssumption DEF Discredited
<1>9. \A g \in Forms \ {f} : verdict'[g] = verdict[g] /\ lastLift'[g] = lastLift[g]
  BY <1>1, <1>3
<1>10. Latched'
  <2>1. \A g \in Forms \ {f} : Discredited(g, Since(g), died)' = Discredited(g, Since(g), died)
    BY <1>1, <1>9 DEF Discredited, Since, DeadSince, TriedSince
  <2>2. verdict'[f].lifted = lastLift'[f]
    BY <1>1, <1>3
  <2> QED BY <1>8, <1>9, <2>1, <2>2 DEF LadderInv, Latched
<1>11. ExcusedStaysExcused'
  <2>1. ~verdict'[f].standing
    BY <1>1, <1>3
  <2> QED BY <1>1, <1>9, <2>1 DEF LadderInv, ExcusedStaysExcused, Dead
<1> QED BY <1>5, <1>6, <1>7, <1>10, <1>11 DEF LadderInv

LEMMA DayPassesKeepsInv == ASSUME LadderInv, DayPasses PROVE LadderInv'
<1>1. LadderTypeOK'
  BY LadderAssumption DEF LadderInv, LadderTypeOK, DayPasses
<1>2. TheDeadStayDead' /\ Deserted'
  BY DEF LadderInv, TheDeadStayDead, Deserted, DayPasses, Dead
<1> QED BY <1>1, <1>2, RecordStands DEF DayPasses, LadderInv

-----------------------------------------------------------------------------

LEMMA LadderInvStep == LadderInv /\ [LadderNext]_ladderVars => LadderInv'
<1> SUFFICES ASSUME LadderInv, [LadderNext]_ladderVars PROVE LadderInv'
  OBVIOUS
<1>1. CASE UNCHANGED ladderVars
  <2>1. LadderTypeOK' /\ TheDeadStayDead' /\ Deserted'
    BY <1>1 DEF ladderVars, LadderInv, LadderTypeOK, TheDeadStayDead, Deserted, Dead
  <2> QED BY <1>1, <2>1, RecordStands DEF ladderVars, LadderInv
<1>2. ASSUME NEW c \in People, PersonStep(c) PROVE LadderInv'
  BY <1>2, ResolveKeepsInv, MxLookupFailsKeepsInv, ConcludeKeepsInv, LeavesKeepsInv,
     AcceptByHandKeepsInv, SuppressionKeepsInv DEF PersonStep
<1>3. ASSUME NEW e \in Sequences, MessageStep(e) PROVE LadderInv'
  BY <1>3, DraftingKeepsInv, SendKeepsInv, FollowUpAndEndKeepInv, AddressDiesKeepsInv
     DEF MessageStep
<1> QED BY <1>1, <1>2, <1>3, LiftDemotionKeepsInv, DayPassesKeepsInv DEF LadderNext

LEMMA LadderInvariance == LadderSpec => []LadderInv
<1>1. LadderInit => LadderInv
  BY LadderInvInit
<1>2. LadderInv /\ [LadderNext]_ladderVars => LadderInv'
  BY LadderInvStep
<1> QED BY <1>1, <1>2, PTL DEF LadderSpec

\* No address that delivery proved dead is in use again, by whatever way an
\* address comes into use (acceptCandidate, acceptManualEmail,
\* advanceAddressLadder, liftConventionDemotion).
THEOREM TheDeadAreNeverInUse == LadderSpec => []TheDeadStayDead
<1>1. LadderInv => TheDeadStayDead
  BY DEF LadderInv
<1> QED BY <1>1, LadderInvariance, PTL

\* However many messages report one dead address, the person is given one
\* further address for it (the check for an earlier death in
\* advanceAddressLadder).
THEOREM ADeathCostsOneAddress == LadderSpec => []OneDeathOneAddress
<1>1. LadderInv => OneDeathOneAddress
  BY DEF LadderInv
<1> QED BY <1>1, LadderInvariance, PTL

\* Nothing gives an address to a person who has moved on (the checks of the
\* contact's status in service.ts and ladder-service.ts).
THEOREM LeaversGetNoAddress == LadderSpec => []LeaversAreLeftAlone
<1>1. LadderInv => LeaversAreLeftAlone
  BY DEF LadderInv, Deserted, LeaversAreLeftAlone
<1> QED BY <1>1, LadderInvariance, PTL

\* A standing verdict rests on enough failures after its last restoration (the
\* window of conventionRecord).
THEOREM VerdictsNeedNewFailures == LadderSpec => []ExcusedStaysExcused
<1>1. LadderInv => ExcusedStaysExcused
  BY DEF LadderInv
<1> QED BY <1>1, LadderInvariance, PTL

-----------------------------------------------------------------------------
(* What a step may not do. *)

\* The record and the latch agree: what reads as demoted is written down.
LEMMA DemotedIsWritten == ASSUME LadderInv PROVE Demoted = {f \in Forms : verdict[f].standing}
BY DEF LadderInv, Latched, Demoted, DemotedGiven

\* A written verdict goes with a restoration alone.
LEMMA OnlyALiftUnlatches ==
    ASSUME LadderInv, LadderNext, NEW f \in Forms, verdict[f].standing, ~verdict'[f].standing
    PROVE  lastLift'[f] # lastLift[f]
<1>1. ASSUME NEW c \in People, PersonStep(c) PROVE verdict' = verdict
  BY <1>1 DEF PersonStep, Resolve, MxLookupFails, Conclude, Leaves, AcceptByHand, Suppress, Unsuppress
<1>2. ASSUME NEW e \in Sequences, MessageStep(e) PROVE verdict'[f].standing
  <2>1. CASE \E enabled, circuitOpen \in BOOLEAN : AddressDies(e, enabled, circuitOpen)
    <3>1. PICK enabled \in BOOLEAN, circuitOpen \in BOOLEAN : AddressDies(e, enabled, circuitOpen)
      BY <2>1
    <3> QED BY <3>1 DEF AddressDies, Latch
  <2>2. CASE PrepareDraft(e) \/ WriteDraft(e) \/ Send(e) \/ SendFollowUp(e) \/ Ends(e)
    BY <2>2 DEF PrepareDraft, WriteDraft, Send, SendFollowUp, Ends
  <2> QED BY <1>2, <2>1, <2>2 DEF MessageStep
<1>3. ASSUME NEW g \in Forms, LiftDemotion(g) PROVE lastLift'[f] # lastLift[f]
  <2>1. verdict \in [Forms -> [standing: BOOLEAN, lifted: Eras \cup {Never}]]
        /\ lastLift \in [Forms -> Eras \cup {Never}] /\ era \in Nat /\ lastLift[f] <= era
    BY LadderAssumption DEF LadderInv, LadderTypeOK, Dated, Eras
  <2>2. g = f
    BY <1>3, <2>1 DEF LiftDemotion
  <2>3. lastLift'[f] = era + 1
    BY <1>3, <2>1, <2>2 DEF LiftDemotion
  <2>4. lastLift[f] \in Nat
    BY <2>1, LadderAssumption DEF Eras, Never
  <2> QED BY <2>1, <2>3, <2>4
<1>4. CASE DayPasses
  BY <1>4 DEF DayPasses
<1> QED BY <1>1, <1>2, <1>3, <1>4 DEF LadderNext

\* Attempts that do not bounce redeem nothing: a convention that reads as
\* demoted does so until the operator lifts the verdict (the latch of
\* convention_demotions).
THEOREM VerdictsStandUntilLifted == LadderSpec => VerdictsStand
<1>1. ASSUME LadderInv, LadderInv', [LadderNext]_ladderVars,
             NEW f \in Forms, f \in Demoted, f \notin Demoted'
      PROVE  lastLift'[f] # lastLift[f]
  <2>1. verdict[f].standing
    BY <1>1, DemotedIsWritten
  <2>2. ~verdict'[f].standing
    BY <1>1 DEF Demoted, DemotedGiven
  <2>3. LadderNext
    BY <1>1, <2>1, <2>2 DEF ladderVars
  <2> QED BY <1>1, <2>1, <2>2, <2>3, OnlyALiftUnlatches
<1>2. LadderInv /\ LadderInv' /\ [LadderNext]_ladderVars
      => [\A f \in Forms : f \in Demoted /\ f \notin Demoted' =>
              lastLift'[f] # lastLift[f]]_ladderVars
  BY <1>1
<1> QED BY <1>2, LadderInvariance, PTL DEF LadderSpec, VerdictsStand

\* Who was written to keeps the address, unless the record or the person gives
\* a reason to move it.
LEMMA LiveAddressStep ==
    ASSUME LadderInv, LadderNext, NEW c \in People,
           inUse[c] # NoForm, Tried(c, inUse[c]), ~Blocked(c, inUse[c]), inUse'[c] # inUse[c]
    PROVE  \/ died'[c][inUse[c]] # Never
           \/ left'[c]
           \/ inUse'[c] \in byHand'[c]
           \/ advances'[c] # advances[c]
<1>1. inUse \in [People -> Forms \cup {NoForm}] /\ byHand \in [People -> SUBSET Forms]
      /\ left \in [People -> BOOLEAN] /\ advances \in [People -> Nat]
      /\ died \in [People -> [Forms -> Eras \cup {Never}]] /\ era \in Eras
  BY DEF LadderInv, LadderTypeOK
<1>2. ~Unwritten(c)
  BY <1>1 DEF LadderInv, Witnessed
<1>3. ASSUME NEW p \in People, PersonStep(p)
      PROVE  left'[c] \/ inUse'[c] \in byHand'[c]
  <2>1. CASE Resolve(p) \/ MxLookupFails(p) \/ \E f \in Forms : Suppress(p, f) \/ Unsuppress(p, f)
    BY <2>1 DEF Resolve, MxLookupFails, Suppress, Unsuppress
  <2>2. ASSUME NEW found \in SUBSET Forms, NEW good \in SUBSET found, Conclude(p, found, good)
        PROVE  FALSE
    BY <1>1, <2>2 DEF Conclude, Accepted, Pinned
  <2>3. CASE Leaves(p)
    BY <1>1, <2>3 DEF Leaves
  <2>4. ASSUME NEW f \in Forms, AcceptByHand(p, f) PROVE inUse'[c] \in byHand'[c]
    BY <1>1, <2>4 DEF AcceptByHand
  <2> QED BY <1>3, <2>1, <2>2, <2>3, <2>4 DEF PersonStep
<1>4. ASSUME NEW e \in Sequences, MessageStep(e)
      PROVE  died'[c][inUse[c]] # Never \/ advances'[c] # advances[c]
  <2>1. CASE PrepareDraft(e) \/ WriteDraft(e) \/ Send(e) \/ SendFollowUp(e) \/ Ends(e)
    BY <2>1 DEF PrepareDraft, WriteDraft, Send, SendFollowUp, Ends
  <2>2. ASSUME NEW enabled \in BOOLEAN, NEW circuitOpen \in BOOLEAN,
             AddressDies(e, enabled, circuitOpen)
        PROVE  died'[c][inUse[c]] # Never \/ advances'[c] # advances[c]
    <3> DEFINE d == Owner[e]
               f == mail[e].to
               deaths == IF Dead(d, f) THEN died ELSE [died EXCEPT ![d][f] = era]
               settled == AfterVerdict(d, f, DemotedGiven(deaths))
               advance == Advances(e, enabled, circuitOpen)
    <3>1. d \in People /\ f \in Forms
      BY <2>2, LadderAssumption DEF LadderInv, Addressed, AddressDies
    <3>2. Buries(deaths, d, f)
      BY <3>1, DeathIsDated
    <3>3. /\ died' = deaths
          /\ inUse' = IF advance
                      THEN [settled EXCEPT ![d] = FirstRung(d, Remaining(e), DemotedGiven(deaths), byHand)]
                      ELSE settled
          /\ advances' = IF advance THEN [advances EXCEPT ![d] = @ + 1] ELSE advances
      BY <2>2 DEF AddressDies
    <3>4. settled[c] = inUse[c] \/ (c = d /\ inUse[c] = f)
      BY <1>2 DEF AfterVerdict, Moves
    <3> HIDE DEF d, f, deaths, settled, advance
    <3>5. CASE c = d /\ inUse[c] = f
      BY <3>2, <3>3, <3>5 DEF Buries
    <3>6. CASE settled[c] = inUse[c]
      <4>1. advance /\ c = d
        BY <3>3, <3>6
      <4>2. advances[c] \in Nat /\ advances'[c] = advances[c] + 1
        BY <1>1, <3>3, <4>1
      <4> QED BY <4>2
    <3> QED BY <3>4, <3>5, <3>6
  <2> QED BY <1>4, <2>1, <2>2 DEF MessageStep
<1>5. ASSUME NEW f \in Forms, LiftDemotion(f) PROVE FALSE
  BY <1>2, <1>5 DEF LiftDemotion, Promoted
<1>6. CASE DayPasses
  BY <1>6 DEF DayPasses
<1> QED BY <1>3, <1>4, <1>5, <1>6 DEF LadderNext

\* A resolution, a colleague's bounce or a restoration never takes a live
\* address away from somebody who was written to.
THEOREM LiveAddressesAreKept == LadderSpec => LiveAddressIsKept
<1>1. LadderInv /\ [LadderNext]_ladderVars
      => [\A c \in People :
              inUse[c] # NoForm /\ Tried(c, inUse[c]) /\ ~Blocked(c, inUse[c])
              /\ inUse'[c] # inUse[c] =>
                  \/ died'[c][inUse[c]] # Never
                  \/ left'[c]
                  \/ inUse'[c] \in byHand'[c]
                  \/ advances'[c] # advances[c]]_ladderVars
  BY LiveAddressStep DEF ladderVars
<1> QED BY <1>1, LadderInvariance, PTL DEF LadderSpec, LiveAddressIsKept

=============================================================================
