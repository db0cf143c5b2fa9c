------------------------------ MODULE Connector ------------------------------
(***************************************************************************)
(* One connector: its circuit breaker, its cached token, and the calls     *)
(* that share them.  A call is a GetSession, which only needs a token, or  *)
(* a ProxyMCPRequest, which takes the breaker, gets a token (through the   *)
(* same breaker when that needs the network) and forwards the request.     *)
(*                                                                         *)
(* The breaker is a mutex around three methods, so each of them is atomic, *)
(* and what is not atomic is a call: other calls run between its Allow and *)
(* the outcome it records.  The outcome of a network call is fixed by the  *)
(* state of the upstream when the call is sent and known when it returns.  *)
(***************************************************************************)
EXTENDS Integers, FiniteSets

CONSTANTS
    Calls,             \* slots for concurrent calls
    FailureThreshold,  \* circuit_breaker.failure_threshold
    Deployments        \* auth types, and routes in use, of the connectors

ASSUME ThresholdAssumption == FailureThreshold \in Nat \ {0}

AuthTypes == {"static", "client_credentials", "token_exchange"}

ASSUME DeploymentsAssumption ==
    Deployments \subseteq [auth : AuthTypes, routes : SUBSET {"session", "proxy"}]

VARIABLES
    deployment,           \* configuration of this connector
    state,                \* breakerState
    consecutiveFailures,  \* counted up to the threshold it is compared with
    cooled,               \* cooldown_seconds have passed since openedAt
    cachedToken,          \* the cached token is valid for another minute
    tokenMu,              \* the calls holding the token mutex
    call,                 \* the calls
    healthy,              \* the upstreams answer every call from now on
    badCalls,             \* history: proxied calls failed since one succeeded
    fetches               \* history: tokens fetched for the cache since the last
                          \* one in it ran out

breakerVars == <<state, consecutiveFailures, cooled>>
vars == <<deployment, breakerVars, cachedToken, tokenMu, call, healthy, badCalls,
          fetches>>

CallState ==
    [route : {"session", "proxy"}, ok : BOOLEAN, trial : BOOLEAN,
     pc : {"idle", "token", "fetching", "noToken", "forwarding"}]

Idle == [route |-> "session", ok |-> TRUE, trial |-> FALSE, pc |-> "idle"]

TypeOK ==
    /\ deployment \in Deployments
    /\ state \in {"closed", "open", "half_open"}
    /\ consecutiveFailures \in 0 .. FailureThreshold
    /\ cooled \in BOOLEAN
    /\ cachedToken \in BOOLEAN
    /\ tokenMu \in {{}} \cup {{c} : c \in Calls}
    /\ call \in [Calls -> CallState]
    /\ healthy \in BOOLEAN
    /\ badCalls \in 0 .. FailureThreshold
    /\ fetches \in Nat

Init ==
    /\ deployment \in Deployments
    /\ state = "closed" /\ consecutiveFailures = 0 /\ cooled = FALSE
    /\ cachedToken = FALSE /\ tokenMu = {}
    /\ call = [c \in Calls |-> Idle]
    /\ healthy = FALSE /\ badCalls = 0 /\ fetches = 0

-----------------------------------------------------------------------------
(***************************************************************************)
(* The breaker.  Allowed and Refused are the two results of Allow.         *)
(***************************************************************************)
MayTry == state = "closed" \/ (state = "open" /\ cooled)

Allowed ==
    /\ MayTry
    /\ state' = IF state = "open" THEN "half_open" ELSE state
    /\ UNCHANGED <<consecutiveFailures, cooled>>

Refused == ~MayTry /\ UNCHANGED breakerVars

\* A half-open breaker that a success does not close.
RecordSuccess_StaysHalfOpen ==
    /\ consecutiveFailures' = 0
    /\ UNCHANGED <<state, cooled>>

RecordSuccess ==
    /\ consecutiveFailures' = 0
    /\ state' = "closed"
    /\ cooled' = FALSE

Count(n) == IF n < FailureThreshold THEN n + 1 ELSE FailureThreshold

\* The threshold is passed, not reached, before the breaker opens.
RecordFailure_OneMore ==
    /\ consecutiveFailures' = Count(consecutiveFailures)
    /\ IF state = "half_open" \/ consecutiveFailures + 1 > FailureThreshold
         THEN state' = "open" /\ cooled' = FALSE
         ELSE UNCHANGED <<state, cooled>>

RecordFailure ==
    \/ /\ state = "half_open"
       /\ state' = "open"
       /\ cooled' = FALSE
       /\ UNCHANGED consecutiveFailures
    \/ /\ state # "half_open"
       /\ consecutiveFailures' = Count(consecutiveFailures)
       /\ IF consecutiveFailures + 1 >= FailureThreshold
            THEN state' = "open" /\ cooled' = FALSE
            ELSE UNCHANGED <<state, cooled>>

CoolDown ==
    /\ state = "open" /\ ~cooled
    /\ cooled' = TRUE
    /\ UNCHANGED <<deployment, state, consecutiveFailures, cachedToken, tokenMu,
                   call, healthy, badCalls, fetches>>

-----------------------------------------------------------------------------
(***************************************************************************)
(* Calls.                                                                  *)
(***************************************************************************)
At(c, l) == call[c].pc = l

Return(c) == call' = [call EXCEPT ![c] = Idle]

\* The call goes on at l; a network call it sends there will end with ok.
Goto(c, r, l, t, ok) ==
    call' = [call EXCEPT ![c] = [route |-> r, ok |-> ok, trial |-> t, pc |-> l]]

\* Outcomes a network call sent now may have.
Outcomes == IF healthy THEN {TRUE} ELSE BOOLEAN

GetSession(c) ==
    /\ "session" \in deployment.routes
    /\ At(c, "idle")
    /\ Goto(c, "session", "token", FALSE, TRUE)
    /\ UNCHANGED <<deployment, breakerVars, cachedToken, tokenMu, healthy, badCalls,
                   fetches>>

\* A refused request never starts a call.
ProxyMCPRequest(c) ==
    /\ "proxy" \in deployment.routes
    /\ At(c, "idle")
    /\ Allowed
    /\ Goto(c, "proxy", "token", state = "open", TRUE)
    /\ UNCHANGED <<deployment, cachedToken, tokenMu, healthy, badCalls, fetches>>

\* What follows getToken: a session is answered, a request forwarded.
\* The call is still the trial, t, if it was and has not reported yet.
HaveToken(c, t) ==
    \/ call[c].route = "session" /\ Return(c)
    \/ /\ call[c].route = "proxy"
       /\ \E ok \in Outcomes : Goto(c, "proxy", "forwarding", t, ok)

NoToken(c, t) ==
    \/ call[c].route = "session" /\ Return(c)
    \/ call[c].route = "proxy" /\ Goto(c, "proxy", "noToken", t, FALSE)

\* The token is fetched over the network, if the breaker lets it.
Fetch(c) ==
    \/ /\ Allowed
       /\ \E ok \in Outcomes :
             Goto(c, call[c].route, "fetching", call[c].trial \/ state = "open", ok)
    \/ Refused /\ NoToken(c, call[c].trial)

\* api_key and bearer need no call.
StaticToken(c) ==
    /\ deployment.auth = "static"
    /\ At(c, "token")
    /\ HaveToken(c, call[c].trial)
    /\ UNCHANGED <<deployment, breakerVars, cachedToken, tokenMu, healthy, badCalls,
                   fetches>>

\* Two calls that miss the cache fetch side by side.
GetClientCredentialsToken_NoLock(c) ==
    /\ deployment.auth = "client_credentials"
    /\ At(c, "token")
    /\ \/ /\ cachedToken
          /\ HaveToken(c, call[c].trial)
          /\ UNCHANGED <<breakerVars, tokenMu>>
       \/ /\ ~cachedToken
          /\ Fetch(c)
          /\ tokenMu' = IF MayTry THEN tokenMu \cup {c} ELSE tokenMu
    /\ UNCHANGED <<deployment, cachedToken, healthy, badCalls, fetches>>

\* A call that waited for the mutex does not look at the cache.
GetClientCredentialsToken_NoLook(c) ==
    /\ deployment.auth = "client_credentials"
    /\ At(c, "token")
    /\ tokenMu = {}
    /\ Fetch(c)
    /\ tokenMu' = IF MayTry THEN {c} ELSE {}
    /\ UNCHANGED <<deployment, cachedToken, healthy, badCalls, fetches>>

\* The token mutex is held over the look at the cache and the fetch.
GetClientCredentialsToken(c) ==
    /\ deployment.auth = "client_credentials"
    /\ At(c, "token")
    /\ tokenMu = {}
    /\ \/ /\ cachedToken
          /\ HaveToken(c, call[c].trial)
          /\ UNCHANGED <<breakerVars, tokenMu>>
       \/ /\ ~cachedToken
          /\ Fetch(c)
          /\ tokenMu' = IF MayTry THEN {c} ELSE {}
    /\ UNCHANGED <<deployment, cachedToken, healthy, badCalls, fetches>>

TokenExchange(c) ==
    /\ deployment.auth = "token_exchange"
    /\ At(c, "token")
    /\ Fetch(c)
    /\ UNCHANGED <<deployment, cachedToken, tokenMu, healthy, badCalls, fetches>>

\* An unresolved secret_ref or a missing sso_token: no token, no network call.
TokenUnavailable(c) ==
    /\ ~healthy
    /\ At(c, "token")
    /\ NoToken(c, call[c].trial)
    /\ UNCHANGED <<deployment, breakerVars, cachedToken, tokenMu, healthy, badCalls,
                   fetches>>

\* The fetch returns.  A proxied call that got no token records a second time.
Fetched(c) ==
    /\ At(c, "fetching")
    /\ IF call[c].ok THEN RecordSuccess /\ HaveToken(c, FALSE)
                     ELSE RecordFailure /\ NoToken(c, FALSE)
    /\ cachedToken' = (cachedToken \/ (call[c].ok /\ c \in tokenMu))
    /\ fetches' = IF call[c].ok /\ c \in tokenMu THEN fetches + 1 ELSE fetches
    /\ tokenMu' = tokenMu \ {c}
    /\ UNCHANGED <<deployment, healthy, badCalls>>

\* The error path returns without an outcome.
TokenError_Unrecorded(c) ==
    /\ At(c, "noToken")
    /\ Return(c)
    /\ UNCHANGED <<deployment, breakerVars, cachedToken, tokenMu, healthy, badCalls,
                   fetches>>

TokenError(c) ==
    /\ At(c, "noToken")
    /\ RecordFailure
    /\ Return(c)
    /\ UNCHANGED <<deployment, cachedToken, tokenMu, healthy, badCalls, fetches>>

Forwarded(c) ==
    /\ At(c, "forwarding")
    /\ IF call[c].ok
         THEN RecordSuccess /\ badCalls' = 0
         ELSE /\ RecordFailure
              /\ badCalls' = Count(badCalls)
    /\ Return(c)
    /\ UNCHANGED <<deployment, cachedToken, tokenMu, healthy, fetches>>

TokenExpires ==
    /\ cachedToken
    /\ cachedToken' = FALSE
    /\ fetches' = 0
    /\ UNCHANGED <<deployment, breakerVars, tokenMu, call, healthy, badCalls>>

UpstreamRecovers ==
    /\ ~healthy
    /\ healthy' = TRUE
    /\ UNCHANGED <<deployment, breakerVars, cachedToken, tokenMu, call, badCalls, fetches>>

Progress(c) ==
    \/ StaticToken(c) \/ GetClientCredentialsToken(c) \/ TokenExchange(c)
    \/ Fetched(c) \/ TokenError(c) \/ Forwarded(c)

Next ==
    \/ \E c \in Calls : \/ GetSession(c) \/ ProxyMCPRequest(c)
                        \/ Progress(c) \/ TokenUnavailable(c)
    \/ CoolDown
    \/ TokenExpires
    \/ UpstreamRecovers

Spec == Init /\ [][Next]_vars

(***************************************************************************)
(* Every network call has a timeout and time passes; callers keep coming   *)
(* while the connector is in use.                                          *)
(***************************************************************************)
FairSpec ==
    /\ Spec
    /\ \A c \in Calls : WF_vars(Progress(c))
    /\ WF_vars(CoolDown)
    /\ WF_vars(\E c \in Calls : GetSession(c) \/ ProxyMCPRequest(c))

-----------------------------------------------------------------------------
(***************************************************************************)
(* Properties.                                                             *)
(***************************************************************************)

\* A half-open breaker has a trial that has not reported: since half-open
\* refuses every other call, it would be stuck for ever without one.
HalfOpenHasTrial ==
    state = "half_open" => \E c \in Calls : call[c].trial

\* A closed breaker is below its threshold, whatever calls end in what order.
ClosedBelowThreshold ==
    state = "closed" => consecutiveFailures < FailureThreshold

\* However many calls miss the token cache together, one of them fetches: until
\* the cached token runs out no second one is fetched, neither next to the first
\* nor by those that waited for the mutex (getClientCredentialsToken).
FetchedOnce == fetches <= 1

\* "The connector's existing circuit breaker (guarding token fetches) also
\* guards the proxied MCP call" (connectors.md): a threshold of proxied calls
\* failed in a row leaves the breaker open.
GuardsProxiedCall == badCalls >= FailureThreshold => state # "closed"

\* It does for connectors with an api_key or a bearer token, whose calls take
\* the breaker for the forwarded request only.
StaticGuarded == deployment.auth = "static" => GuardsProxiedCall

\* Once the upstreams answer, the breaker closes and stays closed: the next
\* trial succeeds, and calls that failed before cannot keep it open.
BreakerRecovers == healthy ~> [](state = "closed")

\* Every call of this connector takes the breaker once at most: it is used for
\* sessions only, or for proxied requests with static credentials.
TakesBreakerOnce ==
    \/ deployment.routes = {"session"}
    \/ deployment.routes = {"proxy"} /\ deployment.auth = "static"

\* BreakerRecovers, where the call that is the trial does not ask twice.
TrialRecovers == TakesBreakerOnce /\ healthy ~> [](state = "closed")
=============================================================================
