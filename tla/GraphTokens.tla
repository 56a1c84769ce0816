----------------------------- MODULE GraphTokens -----------------------------
(***************************************************************************)
(* The tokens of a Microsoft mailbox: consent given in a browser, refresh  *)
(* by whoever needs an access token, refusal by Microsoft, disconnection.  *)
(* The callback and the refresh write without the mailbox's lock; what     *)
(* keeps them apart is the ciphertext of the refresh token, new with every *)
(* write.  Microsoft is external.                                          *)
(***************************************************************************)
EXTENDS Integers, FiniteSets

CONSTANTS Grants,     \* consents, one per exchange of a code
          Writes,     \* ciphertexts of one consent's refresh token
          Requests,   \* oauth_authorization_requests
          Callbacks   \* deliveries of the browser's redirect

ASSUME TokenAssumption == Cardinality(Writes) > 1

VARIABLES account,    \* status and refresh token of the mailbox's row
          grant,      \* per consent: not given yet, live, or refused from now on
          request,    \* per request: absent, open, expired or consumed
          callback,   \* per delivery: where it is
          refresh,    \* the one refresh under the refresh lock
          leaving     \* a disconnection that has read the row

tokenVars == <<account, grant, request, callback, refresh, leaving>>

NoToken == [grant |-> "none", write |-> "none"]
Tokens == [grant: Grants, write: Writes] \cup {NoToken}
CallbackOff == [step |-> "off", request |-> "none", grant |-> "none"]
RefreshOff == [step |-> "off", token |-> NoToken]

TokensTypeOK ==
    /\ account \in [status: {"absent", "available", "revoked", "disconnected"}, token: Tokens]
    /\ grant \in [Grants -> {"none", "live", "refused"}]
    /\ request \in [Requests -> {"none", "open", "expired", "consumed"}]
    /\ \A c \in Callbacks :
        /\ callback[c].step \in {"off", "read", "exchange", "write", "over"}
        /\ callback[c].request \in Requests \cup {"none"}
        /\ callback[c].grant \in Grants \cup {"none"}
    /\ refresh.step \in {"off", "asked", "granted", "refused"}
    /\ refresh.token \in Tokens
    /\ leaving \in BOOLEAN

TokensInit ==
    /\ account = [status |-> "absent", token |-> NoToken]
    /\ grant = [g \in Grants |-> "none"]
    /\ request = [r \in Requests |-> "none"]
    /\ callback = [c \in Callbacks |-> CallbackOff]
    /\ refresh = RefreshOff
    /\ leaving = FALSE

\* Encryption takes a new nonce: no ciphertext is like one still known.
FreshToken(g) ==
    {t \in [grant: {g}, write: Writes] : t \notin {account.token, refresh.token}}

-----------------------------------------------------------------------------
(* Connecting *)

\* beginMicrosoftAuthorization
BeginAuthorization(r) ==
    /\ request[r] = "none"
    /\ request' = [request EXCEPT ![r] = "open"]
    /\ UNCHANGED <<account, grant, callback, refresh, leaving>>

RequestExpires(r) ==
    /\ request[r] = "open"
    /\ request' = [request EXCEPT ![r] = "expired"]
    /\ UNCHANGED <<account, grant, callback, refresh, leaving>>

\* consumeMicrosoftAuthorizationState, first half: the browser may deliver the
\* same redirect twice.
ReadState(c, r) ==
    /\ callback[c].step = "off"
    /\ request[r] = "open"
    /\ callback' = [callback EXCEPT ![c] = [step |-> "read", request |-> r, grant |-> "none"]]
    /\ UNCHANGED <<account, grant, request, refresh, leaving>>

Move(c, step) == callback' = [callback EXCEPT ![c].step = step]

\* Second half: one of them consumes it.
ClaimState(c) ==
    /\ callback[c].step = "read"
    /\ IF request[callback[c].request] = "consumed"
       THEN Move(c, "over") /\ UNCHANGED request
       ELSE /\ Move(c, "exchange")
            /\ request' = [request EXCEPT ![callback[c].request] = "consumed"]
    /\ UNCHANGED <<account, grant, refresh, leaving>>

\* completeMicrosoftConnection: the code becomes a consent.
Exchange(c) ==
    /\ callback[c].step = "exchange"
    /\ \E g \in Grants :
        /\ grant[g] = "none"
        /\ grant' = [grant EXCEPT ![g] = "live"]
        /\ callback' = [callback EXCEPT ![c].step = "write", ![c].grant = g]
    /\ UNCHANGED <<account, request, refresh, leaving>>

\* Missing scopes or refresh token, an unreachable profile, a crash.
CallbackFails(c) ==
    /\ callback[c].step \in {"read", "exchange", "write"}
    /\ Move(c, "over")
    /\ UNCHANGED <<account, grant, request, refresh, leaving>>

\* The row is written without a lock, whatever it holds.
WriteConnection(c) ==
    /\ callback[c].step = "write"
    /\ \E t \in FreshToken(callback[c].grant) :
        account' = [status |-> "available", token |-> t]
    /\ Move(c, "over")
    /\ UNCHANGED <<grant, request, refresh, leaving>>

-----------------------------------------------------------------------------
(* Refreshing: getMicrosoftAccessToken, one at a time over all processes *)

RefreshBegins ==
    /\ refresh.step = "off"
    /\ account.status = "available" /\ account.token # NoToken
    /\ refresh' = [step |-> "asked", token |-> account.token]
    /\ UNCHANGED <<account, grant, request, callback, leaving>>

\* Microsoft answers, at its own time, for the consent it was asked about.
RefreshAnswered ==
    /\ refresh.step = "asked"
    /\ refresh' = [refresh EXCEPT !.step =
         IF grant[refresh.token.grant] = "live" THEN "granted" ELSE "refused"]
    /\ UNCHANGED <<account, grant, request, callback, leaving>>

\* Mutant: whoever was granted a token owns the row.
StoreTokenUnfenced ==
    /\ refresh.step = "granted"
    /\ \E t \in FreshToken(refresh.token.grant) :
        account' = [status |-> "available", token |-> t]
    /\ refresh' = RefreshOff
    /\ UNCHANGED <<grant, request, callback, leaving>>

\* The rotation is stored if the row still holds what was refreshed.
StoreToken ==
    /\ refresh.step = "granted"
    /\ IF account.token = refresh.token
       THEN \E t \in FreshToken(refresh.token.grant) :
                account' = [status |-> "available", token |-> t]
       ELSE UNCHANGED account
    /\ refresh' = RefreshOff
    /\ UNCHANGED <<grant, request, callback, leaving>>

\* invalid_grant or lost consent revokes the connection that was refused.
Revoke ==
    /\ refresh.step = "refused"
    /\ account' = IF account.status = "available" /\ account.token = refresh.token
                  THEN [status |-> "revoked", token |-> NoToken] ELSE account
    /\ refresh' = RefreshOff
    /\ UNCHANGED <<grant, request, callback, leaving>>

\* A timeout, another error, a crash: the row stays as it is.
RefreshFails ==
    /\ refresh.step # "off"
    /\ refresh' = RefreshOff
    /\ UNCHANGED <<account, grant, request, callback, leaving>>

\* The user withdraws the consent, or its scopes.
ConsentWithdrawn(g) ==
    /\ grant[g] = "live"
    /\ grant' = [grant EXCEPT ![g] = "refused"]
    /\ UNCHANGED <<account, request, callback, refresh, leaving>>

-----------------------------------------------------------------------------
(* Disconnecting: under the mailbox's lock, which the others do not take *)

DisconnectReads ==
    /\ ~leaving
    /\ account.status # "absent"
    /\ leaving' = TRUE
    /\ UNCHANGED <<account, grant, request, callback, refresh>>

DisconnectWrites ==
    /\ leaving
    /\ account' = [status |-> "disconnected", token |-> NoToken]
    /\ leaving' = FALSE
    /\ UNCHANGED <<grant, request, callback, refresh>>

TokensNext ==
    \/ \E r \in Requests : BeginAuthorization(r) \/ RequestExpires(r)
    \/ \E c \in Callbacks :
        \/ \E r \in Requests : ReadState(c, r)
        \/ ClaimState(c) \/ Exchange(c) \/ CallbackFails(c) \/ WriteConnection(c)
    \/ RefreshBegins \/ RefreshAnswered \/ StoreToken \/ Revoke \/ RefreshFails
    \/ \E g \in Grants : ConsentWithdrawn(g)
    \/ DisconnectReads \/ DisconnectWrites

TokensSpec == TokensInit /\ [][TokensNext]_tokenVars

-----------------------------------------------------------------------------

\* A redirect delivered twice is exchanged once.
StatesAreUsedOnce ==
    \A c, d \in Callbacks :
        /\ callback[c].step \in {"exchange", "write"} /\ callback[d].step \in {"exchange", "write"}
        /\ callback[c].request = callback[d].request
        => c = d

\* An answer that comes late harms nobody: only the operator's consent puts a
\* token where there was none or replaces one consent by another, and a mailbox
\* is revoked only for a refusal of the very consent it lives on.
LateAnswersAreHarmless ==
    [][/\ (account'.token # NoToken /\ account'.token.grant # account.token.grant) =>
            (\E c \in Callbacks : callback[c].step = "write" /\ callback'[c].step = "over")
       /\ (account'.status = "revoked" /\ account.status # "revoked") =>
            (account.token # NoToken /\ grant[account.token.grant] = "refused")
      ]_tokenVars

=============================================================================
