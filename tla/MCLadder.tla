------------------------------ MODULE MCLadder ------------------------------
(* Instances of AddressLadder: one person written to by two campaigns, and a *)
(* company of two, one of whom nobody may have written to yet.               *)
EXTENDS AddressLadder

CONSTANTS c1, c2, e1, e2, e3

OwnerDef == [e \in Sequences |-> IF e = e3 THEN c2 ELSE c1]

Writes(e) == PrepareDraft(e) \/ WriteDraft(e) \/ Send(e)

PersonPart ==
    \/ Resolve(c1) \/ MxLookupFails(c1)
    \/ \E found \in SUBSET Forms : \E good \in SUBSET found : Conclude(c1, found, good)
    \/ AcceptByHand(c1, 2) \/ Suppress(c1, 1) \/ Unsuppress(c1, 1) \/ Leaves(c1)
    \/ \E e \in {e1, e2} : Writes(e) \/ \E enabled, open \in BOOLEAN : AddressDies(e, enabled, open)
    \/ SendFollowUp(e1) \/ Ends(e2)
    \/ DayPasses

CompanyPart ==
    \/ \E f \in Forms : AcceptByHand(c1, f) \/ LiftDemotion(f)
    \/ Resolve(c2) \/ \E found \in SUBSET Forms : Conclude(c2, found, found)
    \/ Leaves(c2)
    \/ \E e \in {e1, e3} : Writes(e) \/ AddressDies(e, TRUE, FALSE)

PersonSpec == LadderInit /\ [][PersonPart]_ladderVars
=============================================================================
