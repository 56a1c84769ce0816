-------------------------- MODULE OutreachDelivery --------------------------
(* What sending one outreach message promises, with no journal, mailbox or *)
(* callers in it: the server settles the message once, by taking one copy  *)
(* or by refusing it for good, and the application is only ever told what  *)
(* the server settled.                                                     *)
EXTENDS Naturals

VARIABLES
    copies,     \* copies the server took for delivery
    refused,    \* whether it refused the message for good
    told        \* the outcome the application may rely on

deliveryVars == <<copies, refused, told>>

DeliveryInit ==
    /\ copies = 0
    /\ refused = FALSE
    /\ told = "nothing"

Open == copies = 0 /\ ~refused

Deliver ==
    /\ Open
    /\ copies' = 1
    /\ UNCHANGED <<refused, told>>

Refuse ==
    /\ Open
    /\ refused' = TRUE
    /\ UNCHANGED <<copies, told>>

Tell ==
    /\ ~Open /\ told = "nothing"
    /\ told' = IF refused THEN "rejected" ELSE "sent"
    /\ UNCHANGED <<copies, refused>>

DeliveryNext == Deliver \/ Refuse \/ Tell

DeliverySpec == DeliveryInit /\ [][DeliveryNext]_deliveryVars
=============================================================================
