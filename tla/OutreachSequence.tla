-------------------------- MODULE OutreachSequence --------------------------
(* What a sequence of messages to one person promises, with no holds,       *)
(* schedules, claims, workers or operators in it: one message is under way  *)
(* at a time, the one the sequence is at; the sequence moves on when that   *)
(* one is confirmed, completes with its last, and what ended it is final.   *)
(* It goes back for one reason: the address it wrote to is dead.            *)
EXTENDS Naturals

CONSTANT Last       \* the last step

VARIABLES
    place,      \* the step the sequence is at
    mail,       \* per step: unsent, handed over, confirmed or refused
    outcome,    \* open, completed or ended
    dead,       \* whether the first address turned out to be dead
    unattended  \* whether nobody reviews its follow-ups

sequenceVars == <<place, mail, outcome, dead, unattended>>

\* The first message was handed over.
SequenceInit ==
    /\ place = 0
    /\ mail = [s \in 0..Last |-> IF s = 0 THEN "handed" ELSE "unsent"]
    /\ outcome = "open"
    /\ dead = FALSE
    /\ unattended \in BOOLEAN

HandOver ==
    /\ outcome = "open"
    /\ mail[place] = "unsent" /\ \A s \in 0..Last : mail[s] # "handed"
    /\ mail' = [mail EXCEPT ![place] = "handed"]
    /\ UNCHANGED <<place, outcome, dead, unattended>>

\* A confirmation may come after the end, and the last one while a reply is
\* being read.
Confirm ==
    /\ mail[place] = "handed"
    /\ mail' = [mail EXCEPT ![place] = "confirmed"]
    /\ place' = IF outcome = "open" /\ place < Last THEN place + 1 ELSE place
    /\ \/ outcome' = outcome
       \/ outcome = "open" /\ place = Last /\ outcome' = "completed"
    /\ UNCHANGED <<dead, unattended>>

Complete ==
    /\ outcome = "open" /\ place = Last /\ mail[Last] = "confirmed"
    /\ outcome' = "completed"
    /\ UNCHANGED <<place, mail, dead, unattended>>

\* For good, or because of the address.
Refuse ==
    /\ mail[place] = "handed"
    /\ \/ mail' = [mail EXCEPT ![place] = "refused"] /\ outcome' = outcome
       \/ /\ mail' = [mail EXCEPT ![place] = "unsent"]
          /\ outcome' = outcome \/ (outcome = "open" /\ outcome' = "ended")
    /\ UNCHANGED <<place, dead, unattended>>

\* A report on the first message: its address is dead.
Bounce ==
    /\ ~dead /\ dead' = TRUE
    /\ mail[0] \in {"handed", "confirmed"}
    /\ mail' = [mail EXCEPT ![0] = "unsent"]
    /\ \/ /\ place' = place
          /\ outcome' = IF outcome = "open" THEN "ended" ELSE outcome
       \/ /\ outcome # "ended" /\ \A s \in 1..Last : mail[s] = "unsent"
          /\ place' = 0 /\ outcome' = "open"
    /\ UNCHANGED unattended

End ==
    /\ outcome = "open" /\ outcome' = "ended"
    /\ UNCHANGED <<place, mail, dead, unattended>>

\* Only where nobody looks does a sequence that is over go on.
Reopen ==
    /\ unattended /\ outcome # "open" /\ outcome' = "open"
    /\ UNCHANGED <<place, mail, dead, unattended>>

SequenceNext ==
    HandOver \/ Confirm \/ Complete \/ Refuse \/ Bounce \/ End \/ Reopen

SequenceSpec == SequenceInit /\ [][SequenceNext]_sequenceVars
=============================================================================
