------------------------------- MODULE MCMail -------------------------------
\* The mailbox between the sends: one part of it awake in each behaviour, the
\* others where they start, with nothing to do.
EXTENDS ScheduledSends, InboundRounds, GraphTokens, GraphSubscription, GraphInbound

VARIABLE part

MailParts == {"lane", "rounds", "tokens", "subscription", "graph"}
Awake(p) == part = p /\ UNCHANGED part

Hours(days, start, end, changeAt, change) ==
    [days |-> days, start |-> start, end |-> end, changeAt |-> changeAt, change |-> change]
MCLaneCalendars == {Hours({0, 1}, 0, 4, 0, 0)}

MailTypeOK ==
    /\ part \in MailParts
    /\ ScheduleTypeOK /\ InboundTypeOK /\ TokensTypeOK /\ SubscriptionTypeOK /\ GraphTypeOK

MailInit ==
    /\ part \in MailParts
    /\ ScheduleInit /\ InboundInit /\ TokensInit /\ SubscriptionInit /\ GraphInit
    /\ part # "rounds" => exempt = {}
    /\ part # "subscription" => secret = CHOOSE c \in ClientStates : TRUE
    /\ bad = IF part = "graph" THEN {CHOOSE m \in Letters : TRUE} ELSE {}

Others(p) ==
    /\ p # "lane" => UNCHANGED scheduleVars
    /\ p # "rounds" => UNCHANGED inboundVars
    /\ p # "tokens" => UNCHANGED tokenVars
    /\ p # "subscription" => UNCHANGED subscriptionVars
    /\ p # "graph" => UNCHANGED graphVars

MailNext ==
    \/ Awake("lane") /\ ScheduleNext /\ Others("lane")
    \/ Awake("rounds") /\ InboundNext /\ Others("rounds")
    \/ Awake("tokens") /\ TokensNext /\ Others("tokens")
    \/ Awake("subscription") /\ SubscriptionNext /\ Others("subscription")
    \/ Awake("graph") /\ GraphNext /\ Others("graph")

MailVars == <<part, scheduleVars, inboundVars, tokenVars, subscriptionVars, graphVars>>
MailSpec == MailInit /\ [][MailNext]_MailVars

=============================================================================
