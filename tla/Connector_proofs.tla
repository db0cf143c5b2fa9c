-------------------------- MODULE Connector_proofs --------------------------
(***************************************************************************)
(* Safety of the circuit breaker for any number of concurrent calls and    *)
(* any threshold.                                                          *)
(***************************************************************************)
EXTENDS Connector, TLAPS

(***************************************************************************)
(* A call is a trial from the Allow that made the breaker half-open until  *)
(* it reports: never while idle, and a session only while it fetches.      *)
(***************************************************************************)
TrialRuns ==
    \A c \in Calls : call[c].trial =>
        /\ ~At(c, "idle")
        /\ call[c].route = "session" => At(c, "fetching")

\* A static connector fetches no token, so only forwarded calls report a
\* success, and those also end the series of failed calls.
StaticCounts ==
    deployment.auth = "static" =>
        /\ \A c \in Calls : ~At(c, "fetching")
        /\ state = "closed" => badCalls <= consecutiveFailures

\* A client_credentials call holds the token mutex exactly while it fetches.
MutexHeld ==
    deployment.auth = "client_credentials" =>
        \A c \in Calls : At(c, "fetching") <=> tokenMu = {c}

\* The mutex is only held while there is no valid token, so what the fetch under
\* it adds to the cache is the only one there.
FetchesCounted ==
    /\ fetches = IF cachedToken THEN 1 ELSE 0
    /\ cachedToken => tokenMu = {}

BreakerInv ==
    TypeOK /\ TrialRuns /\ HalfOpenHasTrial /\ ClosedBelowThreshold
           /\ MutexHeld /\ FetchesCounted /\ StaticCounts

-----------------------------------------------------------------------------
(***************************************************************************)
(* The breaker's methods and the moves of a call.                          *)
(***************************************************************************)

\* RecordSuccess and RecordFailure keep the count below the threshold of a
\* closed breaker and never leave it half-open.
LEMMA Recorded ==
    ASSUME TypeOK, ClosedBelowThreshold, RecordSuccess \/ RecordFailure
    PROVE  /\ state' \in {"closed", "open"}
           /\ consecutiveFailures' \in 0 .. FailureThreshold
           /\ cooled' \in BOOLEAN
           /\ ClosedBelowThreshold'
<1>1. cooled' \in BOOLEAN
  BY Zenon DEF RecordSuccess, RecordFailure, TypeOK
<1>2. CASE RecordSuccess
  <2>1. state' = "closed" /\ consecutiveFailures' = 0
    BY <1>2 DEF RecordSuccess
  <2>2. QED
    BY <1>1, <2>1, ThresholdAssumption DEF ClosedBelowThreshold
<1>3. CASE RecordFailure
  <2>1. /\ state' \in {"closed", "open"}
        /\ consecutiveFailures' \in 0 .. FailureThreshold
        /\ ClosedBelowThreshold'
    <3>1. /\ state \in {"closed", "open", "half_open"}
          /\ consecutiveFailures \in 0 .. FailureThreshold
      BY DEF TypeOK
    <3>2. \/ state' = "open" /\ consecutiveFailures' = consecutiveFailures
          \/ /\ consecutiveFailures' = Count(consecutiveFailures)
             /\ \/ state' = "open"
                \/ /\ consecutiveFailures + 1 < FailureThreshold
                   /\ state' = state /\ state # "half_open"
      BY <1>3, <3>1, ThresholdAssumption DEF RecordFailure
    <3>3. QED
      BY <3>1, <3>2, ThresholdAssumption DEF ClosedBelowThreshold, Count
  <2>2. QED
    BY <1>1, <2>1
<1>4. QED
  BY <1>2, <1>3

\* Allow counts nothing, and a breaker it makes half-open was open.
LEMMA AllowResult ==
    ASSUME TypeOK, ClosedBelowThreshold, Allowed \/ Refused
    PROVE  /\ state' \in {"closed", "open", "half_open"}
           /\ consecutiveFailures' \in 0 .. FailureThreshold
           /\ cooled' \in BOOLEAN
           /\ ClosedBelowThreshold'
           /\ state' = "half_open" => state = "open" \/ state = "half_open"
           /\ consecutiveFailures' = consecutiveFailures
           /\ state' = "closed" <=> state = "closed"
  BY DEF Allowed, Refused, MayTry, breakerVars, TypeOK, ClosedBelowThreshold

\* A call that goes on keeps the table of calls well typed and moves no other.
LEMMA Moved ==
    ASSUME TypeOK, NEW c \in Calls, NEW r \in {"session", "proxy"},
           NEW l \in {"idle", "token", "fetching", "noToken", "forwarding"},
           NEW t \in BOOLEAN, NEW ok \in BOOLEAN,
           Goto(c, r, l, t, ok)
    PROVE  /\ call' \in [Calls -> CallState]
           /\ call'[c].route = r /\ call'[c].pc = l /\ call'[c].trial = t
           /\ \A d \in Calls \ {c} : call'[d] = call[d]
<1>1. [route |-> r, ok |-> ok, trial |-> t, pc |-> l] \in CallState
  BY DEF CallState
<1>2. QED
  BY <1>1 DEF TypeOK, Goto

\* So does one that returns.
LEMMA Returned ==
    ASSUME TypeOK, NEW c \in Calls, Return(c)
    PROVE  /\ call' \in [Calls -> CallState]
           /\ call'[c].route = "session" /\ call'[c].pc = "idle"
           /\ call'[c].trial = FALSE
           /\ \A d \in Calls \ {c} : call'[d] = call[d]
<1>1. Idle \in CallState
  BY DEF CallState, Idle
<1>2. QED
  BY <1>1 DEF TypeOK, Return, Idle

(***************************************************************************)
(* What one call has to show of its step for the invariant to survive it:  *)
(* if the breaker is half-open afterwards the call is the trial, or was    *)
(* not; it holds the token mutex exactly while it fetches.                 *)
(***************************************************************************)
TypedStep ==
    /\ deployment' = deployment
    /\ state' \in {"closed", "open", "half_open"}
    /\ consecutiveFailures' \in 0 .. FailureThreshold
    /\ cooled' \in BOOLEAN
    /\ cachedToken' \in BOOLEAN
    /\ healthy' \in BOOLEAN
    /\ badCalls' \in 0 .. FailureThreshold
    /\ ClosedBelowThreshold'

MovesOnly(c) ==
    /\ call' \in [Calls -> CallState]
    /\ \A d \in Calls \ {c} : call'[d] = call[d]

KeepsTrial(c) ==
    /\ call'[c].trial => /\ call'[c].pc # "idle"
                         /\ call'[c].route = "session" => call'[c].pc = "fetching"
    /\ state' = "half_open" =>
          \/ call'[c].trial
          \/ state = "half_open" /\ ~call[c].trial

KeepsMutex(c) ==
    \/ call'[c].pc = "fetching" /\ tokenMu = {} /\ tokenMu' = {c}
    \/ call'[c].pc # "fetching" /\ tokenMu' = tokenMu \ {c}
    \/ /\ deployment.auth # "client_credentials"
       /\ tokenMu' \in {tokenMu, tokenMu \ {c}}

KeepsToken ==
    \/ /\ UNCHANGED <<cachedToken, fetches>>
       /\ ~cachedToken \/ tokenMu' \subseteq tokenMu
    \/ cachedToken' = TRUE /\ fetches' = 1 /\ tokenMu' = {}

KeepsCounts(c) ==
    deployment.auth = "static" =>
        /\ call'[c].pc # "fetching"
        /\ state' = "closed" => badCalls' <= consecutiveFailures'

\* A step with these six properties preserves the invariant.
LEMMA CallStep ==
    ASSUME BreakerInv, NEW c \in Calls, TypedStep, MovesOnly(c),
           KeepsTrial(c), KeepsMutex(c), KeepsToken, KeepsCounts(c)
    PROVE  BreakerInv'
<1>0. FetchesCounted' /\ fetches' \in Nat
  BY DEF BreakerInv, TypeOK, FetchesCounted, KeepsToken
<1>1. tokenMu' \in {{}} \cup {{d} : d \in Calls}
  BY DEF BreakerInv, TypeOK, KeepsMutex
<1>2. TypeOK'
  BY <1>0, <1>1 DEF TypedStep, MovesOnly, BreakerInv, TypeOK
<1>3. TrialRuns'
  BY DEF BreakerInv, TrialRuns, At, MovesOnly, KeepsTrial
<1>4. HalfOpenHasTrial'
  BY DEF BreakerInv, HalfOpenHasTrial, MovesOnly, KeepsTrial
<1>5. MutexHeld'
  <2> SUFFICES ASSUME deployment.auth = "client_credentials", NEW d \in Calls
               PROVE  call'[d].pc = "fetching" <=> tokenMu' = {d}
    BY DEF MutexHeld, At, TypedStep
  <2>1. \A e \in Calls : call[e].pc = "fetching" <=> tokenMu = {e}
    BY DEF BreakerInv, MutexHeld, At
  <2>2. tokenMu \in {{}} \cup {{e} : e \in Calls}
    BY DEF BreakerInv, TypeOK
  <2>3. QED
    BY <2>1, <2>2 DEF MovesOnly, KeepsMutex
<1>6. StaticCounts'
  BY DEF BreakerInv, StaticCounts, At, TypedStep, MovesOnly, KeepsCounts
<1>7. QED
  BY <1>0, <1>2, <1>3, <1>4, <1>5, <1>6 DEF BreakerInv, TypedStep

\* After getToken a session has returned; a proxied call stays the trial t.
LEMMA TokenMoves ==
    ASSUME TypeOK, NEW c \in Calls, NEW t \in BOOLEAN,
           HaveToken(c, t) \/ NoToken(c, t)
    PROVE  /\ MovesOnly(c)
           /\ call'[c].pc \in {"idle", "forwarding", "noToken"}
           /\ call'[c].pc = "idle" \/ call'[c].route = "session" =>
                 ~call'[c].trial
           /\ call[c].route = "proxy" => call'[c].trial = t
<1>1. CASE Return(c) /\ call[c].route = "session"
  BY <1>1, Returned DEF MovesOnly
<1>2. ASSUME call[c].route = "proxy",
             NEW l \in {"forwarding", "noToken"}, NEW ok \in BOOLEAN,
             Goto(c, "proxy", l, t, ok)
      PROVE  /\ MovesOnly(c)
             /\ call'[c].pc = l /\ call'[c].route = "proxy" /\ call'[c].trial = t
  <2>1. l \in {"idle", "token", "fetching", "noToken", "forwarding"}
    BY <1>2
  <2>2. "proxy" \in {"session", "proxy"}
    OBVIOUS
  <2>3. QED
    BY <1>2, <2>1, <2>2, Moved DEF MovesOnly
<1>3. Outcomes \subseteq BOOLEAN
  BY DEF Outcomes
<1>4. CASE ~(Return(c) /\ call[c].route = "session")
  <2>1. PICK l \in {"forwarding", "noToken"}, ok \in BOOLEAN :
           call[c].route = "proxy" /\ Goto(c, "proxy", l, t, ok)
    BY <1>3, <1>4 DEF HaveToken, NoToken
  <2>2. QED
    BY <1>2, <2>1
<1>5. QED
  BY <1>1, <1>4

\* The type of a call, as the provers need it.
LEMMA CallFields ==
    ASSUME TypeOK, NEW c \in Calls
    PROVE  /\ call[c].route \in {"session", "proxy"}
           /\ call[c].trial \in BOOLEAN
           /\ call[c].ok \in BOOLEAN
  BY DEF TypeOK, CallState

\* A step that leaves the breaker, the cache and the history alone is typed.
LEMMA Untouched ==
    ASSUME BreakerInv, UNCHANGED <<deployment, cachedToken, healthy, badCalls>>,
           \/ UNCHANGED breakerVars
           \/ Allowed
           \/ Refused
           \/ RecordSuccess
           \/ RecordFailure
    PROVE  TypedStep
<1>1. TypeOK /\ ClosedBelowThreshold
  BY DEF BreakerInv
<1>2. cachedToken' \in BOOLEAN /\ healthy' \in BOOLEAN
      /\ badCalls' \in 0 .. FailureThreshold /\ deployment' = deployment
  BY <1>1 DEF TypeOK
<1>3. CASE UNCHANGED breakerVars
  BY <1>1, <1>2, <1>3 DEF TypedStep, TypeOK, ClosedBelowThreshold, breakerVars
<1>4. CASE Allowed \/ Refused
  BY <1>1, <1>2, <1>4, AllowResult DEF TypedStep
<1>5. CASE RecordSuccess \/ RecordFailure
  BY <1>1, <1>2, <1>5, Recorded DEF TypedStep
<1>6. QED
  BY <1>3, <1>4, <1>5

\* A token call that neither reports nor fetches: the breaker is left alone.
LEMMA QuietTokenStep ==
    ASSUME BreakerInv, NEW c \in Calls, At(c, "token"),
           HaveToken(c, call[c].trial) \/ NoToken(c, call[c].trial),
           UNCHANGED <<deployment, breakerVars, cachedToken, tokenMu, healthy, badCalls,
                       fetches>>
    PROVE  BreakerInv'
<1>1. TypedStep
  BY Untouched
<1>2. TypeOK /\ TrialRuns /\ MutexHeld /\ StaticCounts
  BY DEF BreakerInv
<1>3. call[c].route \in {"session", "proxy"} /\ call[c].trial \in BOOLEAN
  BY <1>2, CallFields
<1>4. /\ MovesOnly(c)
      /\ call'[c].pc \in {"idle", "forwarding", "noToken"}
      /\ call'[c].pc = "idle" \/ call'[c].route = "session" => ~call'[c].trial
      /\ call[c].route = "proxy" => call'[c].trial = call[c].trial
  BY <1>2, <1>3, TokenMoves
<1>5. call[c].route = "session" => ~call[c].trial
  BY <1>2 DEF TrialRuns, At
<1>6. KeepsTrial(c)
  BY <1>3, <1>4, <1>5 DEF KeepsTrial, breakerVars
<1>7. KeepsMutex(c)
  <2>1. deployment.auth = "client_credentials" => tokenMu # {c}
    BY <1>2 DEF MutexHeld, At
  <2>2. tokenMu \in {{}} \cup {{d} : d \in Calls}
    BY <1>2 DEF TypeOK
  <2>3. QED
    BY <1>4, <2>1, <2>2 DEF KeepsMutex
<1>8. KeepsCounts(c)
  BY <1>2, <1>4 DEF KeepsCounts, StaticCounts, breakerVars
<1>9. KeepsToken
  BY DEF KeepsToken
<1>10. QED
  BY <1>1, <1>4, <1>6, <1>7, <1>8, <1>9, CallStep

\* A call that asks the breaker for a token: it fetches, or is refused.
LEMMA FetchStep ==
    ASSUME BreakerInv, NEW c \in Calls, At(c, "token"), Fetch(c),
           deployment.auth # "static",
           UNCHANGED <<deployment, cachedToken, healthy, badCalls, fetches>>,
           IF deployment.auth = "client_credentials"
             THEN /\ ~cachedToken
                  /\ tokenMu = {} /\ tokenMu' = IF MayTry THEN {c} ELSE {}
             ELSE tokenMu' = tokenMu
    PROVE  BreakerInv'
<1>1. TypedStep
  BY Untouched DEF Fetch
<1>2. TypeOK /\ TrialRuns
  BY DEF BreakerInv
<1>3. call[c].route \in {"session", "proxy"} /\ call[c].trial \in BOOLEAN
  BY <1>2, CallFields
<1>4. KeepsCounts(c) /\ KeepsToken
  BY DEF KeepsCounts, KeepsToken
<1>5. CASE Allowed /\ \E ok \in Outcomes :
             Goto(c, call[c].route, "fetching", call[c].trial \/ state = "open", ok)
  <2> DEFINE t == call[c].trial \/ state = "open"
  <2>1. PICK ok \in BOOLEAN : Goto(c, call[c].route, "fetching", t, ok)
    BY <1>5 DEF Outcomes
  <2>2. t \in BOOLEAN
    BY <1>3
  <2>3. "fetching" \in {"idle", "token", "fetching", "noToken", "forwarding"}
    OBVIOUS
  <2> HIDE DEF t
  <2>4. MovesOnly(c) /\ call'[c].pc = "fetching" /\ call'[c].trial = t
    BY <1>2, <1>3, <2>1, <2>2, <2>3, Moved DEF MovesOnly
  <2>5. state' = "half_open" => t
    BY <1>5 DEF Allowed, MayTry, t
  <2>6. KeepsTrial(c)
    BY <2>4, <2>5 DEF KeepsTrial
  <2>7. KeepsMutex(c)
    BY <1>5, <2>4 DEF KeepsMutex, Allowed
  <2>8. QED
    BY <1>1, <1>4, <2>4, <2>6, <2>7, CallStep
<1>6. CASE Refused /\ NoToken(c, call[c].trial)
  <2>1. /\ MovesOnly(c)
        /\ call'[c].pc \in {"idle", "forwarding", "noToken"}
        /\ call'[c].pc = "idle" \/ call'[c].route = "session" => ~call'[c].trial
        /\ call[c].route = "proxy" => call'[c].trial = call[c].trial
    BY <1>2, <1>3, <1>6, TokenMoves
  <2>2. call[c].route = "session" => ~call[c].trial
    BY <1>2 DEF TrialRuns, At
  <2>3. KeepsTrial(c)
    BY <1>3, <1>6, <2>1, <2>2 DEF KeepsTrial, Refused, breakerVars
  <2>4. KeepsMutex(c)
    BY <1>6, <2>1 DEF KeepsMutex, Refused
  <2>5. QED
    BY <1>1, <1>4, <2>1, <2>3, <2>4, CallStep
<1>7. QED
  BY <1>5, <1>6 DEF Fetch

\* getClientCredentialsToken preserves the invariant.
LEMMA ClientCredentialsStep ==
    ASSUME BreakerInv, NEW c \in Calls, GetClientCredentialsToken(c)
    PROVE  BreakerInv'
<1>1. CASE cachedToken
  BY <1>1, QuietTokenStep DEF GetClientCredentialsToken
<1>2. CASE ~cachedToken
  BY <1>2, FetchStep DEF GetClientCredentialsToken
<1>3. QED
  BY <1>1, <1>2

\* The return of a token fetch preserves the invariant.
LEMMA FetchedStep ==
    ASSUME BreakerInv, NEW c \in Calls, Fetched(c)
    PROVE  BreakerInv'
<1>1. TypeOK /\ ClosedBelowThreshold /\ StaticCounts /\ MutexHeld /\ FetchesCounted
  BY DEF BreakerInv
<1>2. /\ RecordSuccess \/ RecordFailure
      /\ HaveToken(c, FALSE) \/ NoToken(c, FALSE)
      /\ tokenMu' = tokenMu \ {c}
      /\ At(c, "fetching")
      /\ UNCHANGED <<deployment, healthy, badCalls>>
      /\ cachedToken' = (cachedToken \/ (call[c].ok /\ c \in tokenMu))
      /\ fetches' = IF call[c].ok /\ c \in tokenMu THEN fetches + 1 ELSE fetches
  BY DEF Fetched
<1>3. TypedStep /\ state' # "half_open"
  <2>1. cachedToken' \in BOOLEAN
    BY <1>2, Zenon
  <2>2. healthy' \in BOOLEAN /\ badCalls' \in 0 .. FailureThreshold
        /\ deployment' = deployment
    BY <1>1, <1>2 DEF TypeOK
  <2>3. QED
    BY <1>1, <1>2, <2>1, <2>2, Recorded DEF TypedStep
<1>4. call[c].route \in {"session", "proxy"} /\ FALSE \in BOOLEAN
  BY <1>1, CallFields
<1>5. /\ MovesOnly(c)
      /\ call'[c].pc \in {"idle", "forwarding", "noToken"}
      /\ call'[c].pc = "idle" \/ call'[c].route = "session" => ~call'[c].trial
  BY <1>1, <1>2, <1>4, TokenMoves
<1>6. KeepsTrial(c)
  BY <1>3, <1>5 DEF KeepsTrial
<1>7. KeepsMutex(c)
  BY <1>2, <1>5 DEF KeepsMutex
<1>8. KeepsCounts(c)
  BY <1>1, <1>2 DEF KeepsCounts, StaticCounts
<1>9. KeepsToken
  <2>1. tokenMu \in {{}} \cup {{d} : d \in Calls} /\ cachedToken \in BOOLEAN
    BY <1>1 DEF TypeOK
  <2>2. CASE call[c].ok /\ c \in tokenMu
    <3>1. tokenMu = {c}
      BY <2>1, <2>2
    <3>2. cachedToken = FALSE /\ fetches = 0
      BY <1>1, <2>1, <3>1 DEF FetchesCounted
    <3>3. cachedToken' = TRUE
      BY <1>2, <2>2
    <3>4. tokenMu' = {} /\ fetches' = 1
      BY <1>2, <2>2, <3>1, <3>2
    <3>5. QED
      BY <3>3, <3>4 DEF KeepsToken
  <2>3. CASE ~(call[c].ok /\ c \in tokenMu)
    <3>1. fetches' = fetches /\ tokenMu' \subseteq tokenMu
      BY <1>2, <2>3
    <3>2. cachedToken' = cachedToken
      BY <1>2, <2>1, <2>3, Zenon
    <3>3. QED
      BY <3>1, <3>2 DEF KeepsToken
  <2>4. QED
    BY <2>2, <2>3
<1>10. QED
  BY <1>3, <1>5, <1>6, <1>7, <1>8, <1>9, CallStep

\* A failure recorded on a closed breaker that stays closed raises the count.
LEMMA FailureCounts ==
    ASSUME TypeOK, RecordFailure, state' = "closed"
    PROVE  /\ state = "closed"
           /\ consecutiveFailures' = Count(consecutiveFailures)
           /\ consecutiveFailures' = consecutiveFailures + 1
<1>1. consecutiveFailures \in 0 .. FailureThreshold
  BY DEF TypeOK
<1>2. /\ state = "closed"
      /\ consecutiveFailures' = Count(consecutiveFailures)
      /\ ~(consecutiveFailures + 1 >= FailureThreshold)
  BY DEF RecordFailure
<1>3. QED
  BY <1>1, <1>2, ThresholdAssumption DEF Count

\* A call that reports a failure or a success and returns.
LEMMA ReportStep ==
    ASSUME BreakerInv, NEW c \in Calls, TokenError(c) \/ Forwarded(c)
    PROVE  BreakerInv'
<1>1. TypeOK /\ ClosedBelowThreshold /\ StaticCounts /\ MutexHeld
  BY DEF BreakerInv
<1>2. /\ UNCHANGED <<deployment, cachedToken, tokenMu, healthy, fetches>>
      /\ Return(c)
      /\ call[c].pc # "fetching"
      /\ \/ RecordSuccess /\ badCalls' = 0
         \/ RecordFailure /\ badCalls' \in {badCalls, Count(badCalls)}
  BY DEF TokenError, Forwarded, At
<1>3. badCalls \in 0 .. FailureThreshold /\ consecutiveFailures \in 0 .. FailureThreshold
  BY <1>1 DEF TypeOK
<1>4. badCalls' \in 0 .. FailureThreshold
  BY <1>2, <1>3, ThresholdAssumption DEF Count
<1>5. TypedStep /\ state' # "half_open"
  <2>1. cachedToken' \in BOOLEAN /\ healthy' \in BOOLEAN /\ deployment' = deployment
    BY <1>1, <1>2 DEF TypeOK
  <2>2. RecordSuccess \/ RecordFailure
    BY <1>2
  <2>3. QED
    BY <1>1, <1>4, <2>1, <2>2, Recorded DEF TypedStep
<1>6. /\ MovesOnly(c)
      /\ call'[c].pc = "idle" /\ call'[c].trial = FALSE
  BY <1>1, <1>2, Returned DEF MovesOnly
<1>7. KeepsTrial(c)
  BY <1>5, <1>6 DEF KeepsTrial
<1>8. KeepsMutex(c)
  <2>1. deployment.auth = "client_credentials" => tokenMu # {c}
    BY <1>1, <1>2 DEF MutexHeld, At
  <2>2. tokenMu \in {{}} \cup {{d} : d \in Calls}
    BY <1>1 DEF TypeOK
  <2>3. QED
    BY <1>2, <1>6, <2>1, <2>2 DEF KeepsMutex
<1>9. KeepsCounts(c)
  <2> SUFFICES ASSUME deployment.auth = "static", state' = "closed"
               PROVE  badCalls' <= consecutiveFailures'
    BY <1>6 DEF KeepsCounts
  <2>1. CASE RecordSuccess /\ badCalls' = 0
    BY <2>1 DEF RecordSuccess
  <2>2. CASE RecordFailure /\ badCalls' \in {badCalls, Count(badCalls)}
    <3>1. /\ state = "closed"
          /\ consecutiveFailures' = Count(consecutiveFailures)
          /\ consecutiveFailures' = consecutiveFailures + 1
      BY <1>1, <2>2, FailureCounts
    <3>2. badCalls <= consecutiveFailures
      BY <1>1, <3>1 DEF StaticCounts
    <3>3. QED
      BY <1>3, <2>2, <3>1, <3>2, ThresholdAssumption DEF Count
  <2>3. QED
    BY <1>2, <2>1, <2>2
<1>10. KeepsToken
  BY <1>2 DEF KeepsToken
<1>11. QED
  BY <1>5, <1>6, <1>7, <1>8, <1>9, <1>10, CallStep

\* A call that starts: a session, or a proxied call the breaker lets through.
LEMMA StartStep ==
    ASSUME BreakerInv, NEW c \in Calls, GetSession(c) \/ ProxyMCPRequest(c)
    PROVE  BreakerInv'
<1>1. TypeOK /\ TrialRuns /\ StaticCounts /\ MutexHeld /\ ClosedBelowThreshold
  BY DEF BreakerInv
<1>2. TypedStep
  BY Untouched DEF GetSession, ProxyMCPRequest
<1>3. PICK r \in {"session", "proxy"}, t \in BOOLEAN :
         /\ Goto(c, r, "token", t, TRUE)
         /\ state' = "half_open" => t \/ state = "half_open"
         /\ r = "session" => t = FALSE
  <2>1. CASE GetSession(c)
    BY <2>1 DEF GetSession, breakerVars
  <2>2. CASE ProxyMCPRequest(c)
    <3>1. Goto(c, "proxy", "token", state = "open", TRUE) /\ Allowed
      BY <2>2 DEF ProxyMCPRequest
    <3>2. state' = "half_open" => state = "open" \/ state = "half_open"
      BY <1>1, <3>1, AllowResult
    <3>3. (state = "open") \in BOOLEAN
      OBVIOUS
    <3>4. QED
      BY <3>1, <3>2, <3>3
  <2>3. QED
    BY <2>1, <2>2
<1>4. /\ MovesOnly(c)
      /\ call'[c].pc = "token" /\ call'[c].trial = t /\ call'[c].route = r
  <2>1. "token" \in {"idle", "token", "fetching", "noToken", "forwarding"}
        /\ TRUE \in BOOLEAN
    OBVIOUS
  <2>2. QED
    BY <1>1, <1>3, <2>1, Moved DEF MovesOnly
<1>5. At(c, "idle") /\ tokenMu' = tokenMu /\ badCalls' = badCalls
  BY DEF GetSession, ProxyMCPRequest
<1>6. KeepsTrial(c)
  <2>1. ~call[c].trial
    BY <1>1, <1>5 DEF TrialRuns
  <2>2. QED
    BY <1>3, <1>4, <2>1 DEF KeepsTrial
<1>7. KeepsMutex(c)
  <2>1. deployment.auth = "client_credentials" => tokenMu # {c}
    BY <1>1, <1>5 DEF MutexHeld, At
  <2>2. tokenMu \in {{}} \cup {{d} : d \in Calls}
    BY <1>1 DEF TypeOK
  <2>3. QED
    BY <1>4, <1>5, <2>1, <2>2 DEF KeepsMutex
<1>8. KeepsCounts(c)
  <2>1. /\ consecutiveFailures' = consecutiveFailures
        /\ state' = "closed" => state = "closed"
    BY DEF GetSession, ProxyMCPRequest, breakerVars, Allowed
  <2>2. QED
    BY <1>1, <1>4, <1>5, <2>1 DEF KeepsCounts, StaticCounts
<1>9. KeepsToken
  BY DEF KeepsToken, GetSession, ProxyMCPRequest
<1>10. QED
  BY <1>2, <1>4, <1>6, <1>7, <1>8, <1>9, CallStep

\* Time passing, a token expiring and the upstream recovering move no call.
LEMMA EnvironmentStep ==
    ASSUME BreakerInv, CoolDown \/ TokenExpires \/ UpstreamRecovers
    PROVE  BreakerInv'
<1>1. /\ UNCHANGED <<deployment, state, consecutiveFailures, tokenMu, call, badCalls>>
      /\ cooled' \in {cooled, TRUE}
      /\ \/ UNCHANGED <<cachedToken, fetches>>
         \/ cachedToken' = FALSE /\ fetches' = 0
      /\ healthy' \in {healthy, TRUE}
  BY DEF CoolDown, TokenExpires, UpstreamRecovers, breakerVars
<1>2. TypeOK'
  <2>1. TypeOK
    BY DEF BreakerInv
  <2>2. fetches' \in Nat
    BY <1>1, <2>1 DEF TypeOK
  <2>3. cachedToken' \in BOOLEAN
    BY <1>1, <2>1, ZenonT(30) DEF TypeOK
  <2>4. cooled' \in BOOLEAN /\ healthy' \in BOOLEAN
    BY <1>1, <2>1, ZenonT(30) DEF TypeOK
  <2>5. QED
    BY <1>1, <2>1, <2>2, <2>3, <2>4, ZenonT(30) DEF TypeOK
<1>3. TrialRuns' /\ HalfOpenHasTrial' /\ ClosedBelowThreshold'
  BY <1>1 DEF BreakerInv, TrialRuns, HalfOpenHasTrial, ClosedBelowThreshold, At
<1>4. MutexHeld' /\ StaticCounts' /\ FetchesCounted'
  BY <1>1 DEF BreakerInv, MutexHeld, StaticCounts, FetchesCounted, At
<1>5. QED
  BY <1>2, <1>3, <1>4 DEF BreakerInv

\* The initial state satisfies the invariant.
LEMMA BreakerInit == Init => BreakerInv
<1> SUFFICES ASSUME Init PROVE BreakerInv
  OBVIOUS
<1>1. \A c \in Calls : call[c].pc = "idle" /\ call[c].trial = FALSE
  BY DEF Init, Idle
<1>2. Idle \in CallState
  BY DEF Idle, CallState
<1>3. TypeOK
  <2>1. 0 \in 0 .. FailureThreshold
    BY ThresholdAssumption
  <2>2. call \in [Calls -> CallState]
    BY <1>2 DEF Init
  <2>3. QED
    BY <2>1, <2>2, ZenonT(30) DEF Init, TypeOK
<1>4. TrialRuns /\ HalfOpenHasTrial /\ ClosedBelowThreshold
  BY <1>1, ThresholdAssumption
     DEF Init, TrialRuns, HalfOpenHasTrial, ClosedBelowThreshold, At
<1>5. MutexHeld /\ StaticCounts /\ FetchesCounted
  BY <1>1 DEF Init, MutexHeld, StaticCounts, FetchesCounted, At
<1>6. QED
  BY <1>3, <1>4, <1>5 DEF BreakerInv

\* Every step preserves the invariant.
LEMMA BreakerNext == BreakerInv /\ [Next]_vars => BreakerInv'
<1> SUFFICES ASSUME BreakerInv, [Next]_vars PROVE BreakerInv'
  OBVIOUS
<1>1. ASSUME NEW c \in Calls, GetSession(c) \/ ProxyMCPRequest(c)
      PROVE  BreakerInv'
  BY <1>1, StartStep
<1>2. ASSUME NEW c \in Calls, StaticToken(c) \/ TokenUnavailable(c)
      PROVE  BreakerInv'
  BY <1>2, QuietTokenStep DEF StaticToken, TokenUnavailable
<1>3. ASSUME NEW c \in Calls, GetClientCredentialsToken(c)
      PROVE  BreakerInv'
  BY <1>3, ClientCredentialsStep
<1>4. ASSUME NEW c \in Calls, TokenExchange(c)
      PROVE  BreakerInv'
  BY <1>4, FetchStep DEF TokenExchange
<1>5. ASSUME NEW c \in Calls, Fetched(c)
      PROVE  BreakerInv'
  BY <1>5, FetchedStep
<1>6. ASSUME NEW c \in Calls, TokenError(c) \/ Forwarded(c)
      PROVE  BreakerInv'
  BY <1>6, ReportStep
<1>7. CASE CoolDown \/ TokenExpires \/ UpstreamRecovers
  BY <1>7, EnvironmentStep
<1>8. CASE UNCHANGED vars
  <2>1. TypeOK' /\ TrialRuns' /\ HalfOpenHasTrial' /\ ClosedBelowThreshold'
    BY <1>8, ZenonT(30) DEF vars, breakerVars, BreakerInv, TypeOK, TrialRuns,
       HalfOpenHasTrial, ClosedBelowThreshold, At
  <2>2. MutexHeld' /\ StaticCounts'
    BY <1>8, ZenonT(30) DEF vars, breakerVars, BreakerInv, MutexHeld, StaticCounts, At
  <2>3. FetchesCounted'
    BY <1>8 DEF vars, BreakerInv, FetchesCounted
  <2>4. QED
    BY <2>1, <2>2, <2>3 DEF BreakerInv
<1>9. QED
  BY <1>1, <1>2, <1>3, <1>4, <1>5, <1>6, <1>7, <1>8 DEF Next, Progress

\* The breaker of any connector, under any number of concurrent calls: a
\* half-open breaker has its trial in flight (Allow, RecordSuccess,
\* RecordFailure), and a closed one is below its threshold.
THEOREM BreakerSafety == Spec => [](HalfOpenHasTrial /\ ClosedBelowThreshold)
<1>1. BreakerInv => HalfOpenHasTrial /\ ClosedBelowThreshold
  BY DEF BreakerInv
<1>2. QED
  BY <1>1, BreakerInit, BreakerNext, PTL DEF Spec

\* getClientCredentialsToken fetches one token for the cache until that runs out,
\* however many calls find it empty.
THEOREM FetchesOnce == Spec => []FetchedOnce
<1>1. BreakerInv => FetchedOnce
  BY DEF BreakerInv, FetchesCounted, FetchedOnce
<1>2. QED
  BY <1>1, BreakerInit, BreakerNext, PTL DEF Spec

\* With api_key or bearer auth a threshold of failed proxied calls in a row
\* opens the breaker of ProxyMCPRequest.
THEOREM StaticCallsGuarded == Spec => []StaticGuarded
<1>1. BreakerInv => StaticGuarded
  <2> SUFFICES ASSUME BreakerInv, deployment.auth = "static", state = "closed"
               PROVE  ~(badCalls >= FailureThreshold)
    BY DEF StaticGuarded, GuardsProxiedCall
  <2>1. badCalls <= consecutiveFailures /\ consecutiveFailures < FailureThreshold
    BY DEF BreakerInv, StaticCounts, ClosedBelowThreshold
  <2>2. badCalls \in Nat /\ consecutiveFailures \in Nat
    BY ThresholdAssumption DEF BreakerInv, TypeOK
  <2>3. QED
    BY <2>1, <2>2, ThresholdAssumption
<1>2. QED
  BY <1>1, BreakerInit, BreakerNext, PTL DEF Spec
=============================================================================
