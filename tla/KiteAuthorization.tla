-------------------------- MODULE KiteAuthorization --------------------------
(***************************************************************************)
(* Interactive Kite authorization: KiteAuthorizationService.start and      *)
(* .complete over a KiteNonceStore and HttpxKiteTokenExchanger             *)
(* (connectors/zerodha_auth.py), called concurrently by any number of      *)
(* processes that share the nonce store.                                   *)
(*                                                                         *)
(* A call of start is a member of Attempt and a call of complete a member  *)
(* of Callback; each is split at its awaits, so that calls interleave, are *)
(* cancelled, or die with their process wherever the code can be           *)
(* suspended.  The row an attempt inserts is known by its attempt.         *)
(* The broker, the user's browser and the clock are the environment.       *)
(***************************************************************************)
EXTENDS Naturals

CONSTANTS
    Scope,          \* (tenant_id, connection_id) pairs
    ApiKey,         \* API keys of Kite applications
    Nonce,          \* what nonce_factory may return
    Stray,          \* callback states that no start call issued
    RequestToken,   \* request tokens the broker puts in its redirects
    Malformed,      \* values that _validate_nonce or _validate_credential reject
    Attempt,        \* calls of start
    Callback,       \* calls of complete
    Faults,         \* bound: the ways a broker's answer may fail to be a session
    NonceTTL,       \* _NONCE_TTL, in ticks of the clock
    MaxTime,        \* bound: the last instant the clock shows
    FreshNonces,    \* TRUE: secrets.token_urlsafe(32); FALSE: an injected factory that may repeat
    None

VARIABLES
    now,         \* the clock
    starting,    \* Attempt -> where its start call stands
    auth,        \* Attempt -> the PendingKiteAuthorization it made, with its nonce and key, or None
    pending,     \* attempts whose row is in the nonce store
    login,       \* RequestToken -> the attempt whose login page minted it, or None
    completing,  \* Callback -> where its complete call stands
    call,        \* Callback -> its arguments, or None
    grant,       \* Callback -> the attempt whose row it consumed, or None
    posted,      \* callbacks whose POST /session/token was sent
    minted,      \* pairs <<request token, callback>> the broker exchanged for a session
    answer,      \* Callback -> the response on the wire, or None
    outcome      \* Callback -> how its complete call ended, or None

startVars    == <<starting, auth>>
brokerVars   == <<login, minted, answer>>
completeVars == <<completing, call, grant, posted, outcome>>
vars == <<now, pending, startVars, brokerVars, completeVars>>

-----------------------------------------------------------------------------
(* Values.                                                                 *)

Authorization ==
    [scope : Scope, key : ApiKey, nonce : Nonce, expires_at : Nat]

Arguments ==
    [state : Nonce \union Stray, token : RequestToken, key : ApiKey]

\* A 2xx body names the key its access token was minted for; every other
\* response is a status class or a body that cannot be used.
Fault ==
    {"rejected", "throttled", "unavailable", "refused", "oversized", "unreadable", "nonascii"}
Answer == [ok : {TRUE}, key : ApiKey] \union [ok : {FALSE}, fault : Fault]

\* Mutant: a timeout is reported as a rejection.
ErrorCodeTimeoutRejected ==
    [rejected |-> "auth.exchange_rejected", throttled |-> "provider.rate_limit",
     unavailable |-> "provider.unavailable", refused |-> "provider.exchange_failed",
     oversized |-> "provider.response_too_large", unreadable |-> "provider.invalid_response",
     nonascii |-> "TypeError", timeout |-> "auth.exchange_rejected",
     network |-> "provider.network_error", protocol |-> "httpx.ProtocolError"]

\* What the caller of complete sees for each response or transport failure.  A
\* body whose key is not ASCII is one that compare_digest refuses to compare.
ErrorCode ==
    [rejected    |-> "auth.exchange_rejected",
     throttled   |-> "provider.rate_limit",
     unavailable |-> "provider.unavailable",
     refused     |-> "provider.exchange_failed",
     oversized   |-> "provider.response_too_large",
     unreadable  |-> "provider.invalid_response",
     nonascii    |-> "TypeError",
     timeout     |-> "provider.timeout",
     network     |-> "provider.network_error",
     protocol    |-> "httpx.ProtocolError"]

\* Every way complete ends.  ValueError, TypeError and httpx.ProtocolError leave
\* it untranslated; cancelled is a cancelled task or a process that died.
Outcome ==
    {ErrorCode[f] : f \in DOMAIN ErrorCode} \union
    {"auth.state_invalid", "auth.state_expired", "ValueError",
     "provider.api_key_mismatch", "cancelled", "session"}

ASSUME ConstantsAssumption ==
    /\ NonceTTL \in Nat
    /\ MaxTime \in Nat
    /\ FreshNonces \in BOOLEAN
    /\ Faults \subseteq Fault
    /\ Stray \intersect Nonce = {}
    /\ None \notin Attempt \union Authorization \union Arguments \union Answer \union Outcome

\* sha256: the digest tells nonces apart and nothing else matters of it.
Digest(nonce) == [sha256 |-> nonce]

-----------------------------------------------------------------------------
Init ==
    /\ now = 0
    /\ starting = [a \in Attempt |-> "idle"]
    /\ auth = [a \in Attempt |-> None]
    /\ pending = {}
    /\ login = [t \in RequestToken |-> None]
    /\ completing = [c \in Callback |-> "idle"]
    /\ call = [c \in Callback |-> None]
    /\ grant = [c \in Callback |-> None]
    /\ posted = {}
    /\ minted = {}
    /\ answer = [c \in Callback |-> None]
    /\ outcome = [c \in Callback |-> None]

Tick ==
    /\ now < MaxTime
    /\ now' = now + 1
    /\ UNCHANGED <<pending, startVars, brokerVars, completeVars>>

-----------------------------------------------------------------------------
(* KiteAuthorizationService.start                                          *)

Issued(n) == \E a \in Attempt : auth[a] # None /\ auth[a].nonce = n

\* Validate the key and the nonce, fix the deadline, and ask the store to
\* keep the row; the call is suspended in issue.
Start(a, s, k, n) ==
    /\ starting[a] = "idle"
    /\ {k, n} \intersect Malformed = {}
    /\ FreshNonces => ~Issued(n)
    /\ starting' = [starting EXCEPT ![a] = "issuing"]
    /\ auth' = [auth EXCEPT ![a] =
                  [scope |-> s, key |-> k, nonce |-> n, expires_at |-> now + NonceTTL]]
    /\ UNCHANGED <<now, pending, brokerVars, completeVars>>

\* A key or an injected nonce the validators reject: nothing was stored.
StartInvalid(a) ==
    /\ starting[a] = "idle"
    /\ (ApiKey \union Nonce) \intersect Malformed # {}
    /\ starting' = [starting EXCEPT ![a] = "failed"]
    /\ UNCHANGED <<now, auth, pending, brokerVars, completeVars>>

\* The store refuses a digest it already holds.
Conflicts(a) == \E b \in pending : Digest(auth[b].nonce) = Digest(auth[a].nonce)

IssueConflict(a) ==
    /\ starting[a] = "issuing"
    /\ Conflicts(a)
    /\ starting' = [starting EXCEPT ![a] = "failed"]
    /\ UNCHANGED <<now, auth, pending, brokerVars, completeVars>>

\* Mutant: the row is never flushed.
IssueUnflushed(a, end) ==
    /\ starting[a] = "issuing"
    /\ ~Conflicts(a)
    /\ starting' = [starting EXCEPT ![a] = end]
    /\ UNCHANGED <<now, auth, pending, brokerVars, completeVars>>

\* The row is kept and start returns the login URL, unless the call is
\* cancelled before it hears of it ("failed").
Issue(a, end) ==
    /\ starting[a] = "issuing"
    /\ ~Conflicts(a)
    /\ pending' = pending \union {a}
    /\ starting' = [starting EXCEPT ![a] = end]
    /\ UNCHANGED <<now, auth, brokerVars, completeVars>>

\* Cancelled, or the store failed, before the row was kept.
CancelStart(a) ==
    /\ starting[a] = "issuing"
    /\ starting' = [starting EXCEPT ![a] = "failed"]
    /\ UNCHANGED <<now, auth, pending, brokerVars, completeVars>>

-----------------------------------------------------------------------------
(* The user logs in at the URL an attempt returned, as often as they like; *)
(* each login mints a request token and redirects to the callback route.   *)

\* A request token is new: nobody presented it before it was minted.
BrokerLogin(t, a) ==
    /\ login[t] = None
    /\ \A c \in Callback : call[c] # None => call[c].token # t
    /\ t \notin Malformed
    /\ starting[a] = "started"
    /\ login' = [login EXCEPT ![t] = a]
    /\ UNCHANGED <<now, pending, startVars, minted, answer, completeVars>>

\* The browser sends the callback route whatever it likes, any number of
\* times, at any time: the nonce of a login URL or a state nobody issued, and
\* with either of them the token of any login, a forged or a mangled one.
Redirects(state) ==
    \/ state \in Stray
    \/ \E a \in Attempt : starting[a] = "started" /\ auth[a].nonce = state

-----------------------------------------------------------------------------
(* KiteAuthorizationService.complete                                       *)

Settle(c, how) ==
    /\ completing' = [completing EXCEPT ![c] = "settled"]
    /\ outcome' = [outcome EXCEPT ![c] = how]

\* The arguments are validated before the store is touched.
Complete(c, state, token, k) ==
    /\ completing[c] = "idle"
    /\ Redirects(state)
    /\ k \notin Malformed
    /\ call' = [call EXCEPT ![c] = [state |-> state, token |-> token, key |-> k]]
    /\ \/ /\ state \in Malformed
          /\ Settle(c, "auth.state_invalid")
       \/ /\ state \notin Malformed
          /\ token \in Malformed
          /\ Settle(c, "ValueError")
       \/ /\ {state, token} \intersect Malformed = {}
          /\ completing' = [completing EXCEPT ![c] = "consuming"]
          /\ UNCHANGED outcome
    /\ UNCHANGED <<now, pending, startVars, brokerVars, grant, posted>>

\* Mutant: the DELETE lost its WHERE clause.
MatchesAnyRow(a, c) == auth[a] # None

Matches(a, c) == Digest(auth[a].nonce) = Digest(call[c].state)

\* Mutant: SELECT instead of DELETE ... RETURNING.
ConsumeHitKeepsRow(c, a) ==
    /\ completing[c] = "consuming"
    /\ a \in pending
    /\ Matches(a, c)
    /\ grant' = [grant EXCEPT ![c] = a]
    /\ completing' = [completing EXCEPT ![c] = "consumed"]
    /\ UNCHANGED <<now, pending, startVars, brokerVars, call, posted, outcome>>

\* The store removes the row and hands it over in one step.
ConsumeHit(c, a) ==
    /\ completing[c] = "consuming"
    /\ a \in pending
    /\ Matches(a, c)
    /\ pending' = pending \ {a}
    /\ grant' = [grant EXCEPT ![c] = a]
    /\ completing' = [completing EXCEPT ![c] = "consumed"]
    /\ UNCHANGED <<now, startVars, brokerVars, call, posted, outcome>>

ConsumeMiss(c) ==
    /\ completing[c] = "consuming"
    /\ ~\E a \in pending : Matches(a, c)
    /\ Settle(c, "auth.state_invalid")
    /\ UNCHANGED <<now, pending, startVars, brokerVars, call, grant, posted>>

\* Mutant: off by one at the deadline.
ExpiredLate(c) == auth[grant[c]].expires_at < now

\* The deadline is read once the row is gone.
Expired(c) == auth[grant[c]].expires_at <= now

RejectExpired(c) ==
    /\ completing[c] = "consumed"
    /\ Expired(c)
    /\ Settle(c, "auth.state_expired")
    /\ UNCHANGED <<now, pending, startVars, brokerVars, call, grant, posted>>

\* exchange is called; it waits for a place in the pool and a connection, and
\* the clock goes on.
BeginExchange(c) ==
    /\ completing[c] = "consumed"
    /\ ~Expired(c)
    /\ completing' = [completing EXCEPT ![c] = "sending"]
    /\ UNCHANGED <<now, pending, startVars, brokerVars, call, grant, posted, outcome>>

\* The request leaves.
PostExchange(c) ==
    /\ completing[c] = "sending"
    /\ completing' = [completing EXCEPT ![c] = "exchanging"]
    /\ posted' = posted \union {c}
    /\ UNCHANGED <<now, pending, startVars, brokerVars, call, grant, outcome>>

-----------------------------------------------------------------------------
(* The broker answers a request it received, whether or not anybody still  *)
(* waits for the answer.  A request token is honoured once, for the key of *)
(* the login page that minted it; the answer may be damaged on its way.    *)

Honoured(c) ==
    /\ login[call[c].token] # None
    /\ auth[login[call[c].token]].key = call[c].key
    /\ \A d \in Callback : <<call[c].token, d>> \notin minted

\* What may come back for a token that was honoured.
MintAnswer ==
    [ok : {TRUE}, key : ApiKey] \union
    [ok : {FALSE},
     fault : Faults \intersect {"oversized", "unreadable", "nonascii", "unavailable"}]

BrokerMint(c, reply) ==
    /\ c \in posted
    /\ answer[c] = None
    /\ Honoured(c)
    /\ minted' = minted \union {<<call[c].token, c>>}
    /\ answer' = [answer EXCEPT ![c] = reply]
    /\ UNCHANGED <<now, pending, startVars, login, completeVars>>

BrokerRefuse(c, fault) ==
    /\ c \in posted
    /\ answer[c] = None
    /\ Honoured(c) => fault # "rejected"
    /\ answer' = [answer EXCEPT ![c] = [ok |-> FALSE, fault |-> fault]]
    /\ UNCHANGED <<now, pending, startVars, login, minted, completeVars>>

-----------------------------------------------------------------------------
(* HttpxKiteTokenExchanger.exchange, from the response on                  *)

Verdict(c) ==
    LET reply == answer[c] IN
    IF ~reply.ok THEN ErrorCode[reply.fault]
    ELSE IF reply.key # call[c].key THEN "provider.api_key_mismatch"
    ELSE "session"

ExchangeReturn(c) ==
    /\ completing[c] = "exchanging"
    /\ answer[c] # None
    /\ Settle(c, Verdict(c))
    /\ UNCHANGED <<now, pending, startVars, brokerVars, call, grant, posted>>

\* Mutant: the client has no timeout.
ExchangeFailNoTimeout(c, failure) ==
    /\ completing[c] \in {"sending", "exchanging"}
    /\ failure # "timeout"
    /\ Settle(c, ErrorCode[failure])
    /\ UNCHANGED <<now, pending, startVars, brokerVars, call, grant, posted>>

\* Mutant: a transport failure puts the nonce back for a retry.
ExchangeFailRestores(c, failure) ==
    /\ completing[c] \in {"sending", "exchanging"}
    /\ Settle(c, ErrorCode[failure])
    /\ pending' = pending \union {grant[c]}
    /\ UNCHANGED <<now, startVars, brokerVars, call, grant, posted>>

\* No connection or no response in time, or the connection broke: the broker
\* may still act on a request that left.
ExchangeFail(c, failure) ==
    /\ completing[c] \in {"sending", "exchanging"}
    /\ Settle(c, ErrorCode[failure])
    /\ UNCHANGED <<now, pending, startVars, brokerVars, call, grant, posted>>

\* The task is cancelled at an await, or its process dies there.
CancelComplete(c) ==
    /\ completing[c] \in {"consuming", "consumed", "sending", "exchanging"}
    /\ Settle(c, "cancelled")
    /\ UNCHANGED <<now, pending, startVars, brokerVars, call, grant, posted>>

-----------------------------------------------------------------------------
StartStep(a) ==
    \/ \E s \in Scope, k \in ApiKey, n \in Nonce : Start(a, s, k, n)
    \/ StartInvalid(a)
    \/ IssueConflict(a)
    \/ \E end \in {"started", "failed"} : Issue(a, end)
    \/ CancelStart(a)

CompleteStep(c) ==
    \/ \E state \in Nonce \union Stray, token \in RequestToken, k \in ApiKey :
          Complete(c, state, token, k)
    \/ \E a \in Attempt : ConsumeHit(c, a)
    \/ ConsumeMiss(c)
    \/ RejectExpired(c)
    \/ BeginExchange(c)
    \/ PostExchange(c)
    \/ ExchangeReturn(c)
    \/ \E failure \in {"timeout", "network", "protocol"} : ExchangeFail(c, failure)
    \/ CancelComplete(c)

BrokerStep ==
    \/ \E t \in RequestToken, a \in Attempt : BrokerLogin(t, a)
    \/ \E c \in Callback, reply \in MintAnswer : BrokerMint(c, reply)
    \/ \E c \in Callback, fault \in Faults : BrokerRefuse(c, fault)

Next ==
    \/ Tick
    \/ \E a \in Attempt : StartStep(a)
    \/ \E c \in Callback : CompleteStep(c)
    \/ BrokerStep

Spec == Init /\ [][Next]_vars

\* The store answers, and the exchange ends by an answer or by httpx's own
\* timeouts (connect 5 s, read 10 s, pool 5 s).  Nothing is assumed of the
\* broker, the user or the clock.
Fairness ==
    \A c \in Callback :
        /\ WF_vars(ConsumeMiss(c) \/ \E a \in Attempt : ConsumeHit(c, a))
        /\ WF_vars(RejectExpired(c) \/ BeginExchange(c))
        /\ WF_vars(ExchangeReturn(c) \/ ExchangeFail(c, "timeout"))

FairSpec == Spec /\ Fairness

-----------------------------------------------------------------------------
(* Properties.                                                             *)

\* Every variable keeps its shape: the states of the calls, the stored rows
\* and the values on the wire are those the code builds.
TypeOK ==
    /\ now \in Nat
    /\ starting \in [Attempt -> {"idle", "issuing", "started", "failed"}]
    /\ auth \in [Attempt -> Authorization \union {None}]
    /\ pending \subseteq Attempt
    /\ login \in [RequestToken -> Attempt \union {None}]
    /\ completing \in
         [Callback -> {"idle", "consuming", "consumed", "sending", "exchanging", "settled"}]
    /\ call \in [Callback -> Arguments \union {None}]
    /\ grant \in [Callback -> Attempt \union {None}]
    /\ posted \subseteq Callback
    /\ minted \subseteq RequestToken \X Callback
    /\ answer \in [Callback -> Answer \union {None}]
    /\ outcome \in [Callback -> Outcome \union {None}]

\* An issued row is handed to at most one call of complete, whatever the
\* number of duplicate redirects and processes ("a callback can succeed only
\* once", ADR 0011), and even if the nonce factory repeats itself.
SingleUse ==
    \A c, d \in Callback :
        grant[c] # None /\ grant[c] = grant[d] => c = d

\* With random nonces, a state gets its caller as far as the broker at most
\* once, also when the first exchange failed, timed out or was cancelled:
\* nothing puts a consumed nonce back.
ReplayRejected ==
    \A c, d \in posted : call[c].state = call[d].state => c = d

\* With random nonces, a session complete returns is filed under the scope of
\* the start call that issued the presented state, although the caller chooses
\* the credentials before it knows the scope; and it was minted for this call,
\* at a login page of these credentials.  Nothing ties the request token to the
\* state: the login may be that of another start call.
ResultScoped ==
    \A c \in Callback :
        outcome[c] = "session" =>
            /\ \A a \in Attempt :
                  auth[a] # None /\ auth[a].nonce = call[c].state =>
                      auth[grant[c]].scope = auth[a].scope
            /\ <<call[c].token, c>> \in minted
            /\ auth[login[call[c].token]].key = call[c].key
            /\ answer[c].key = call[c].key

\* The sessions the broker minted come from distinct rows: one start call
\* leads to at most one, however often its URL is used, its redirect delivered
\* and its nonce combined with the tokens of other logins.
OneSessionPerAttempt ==
    \A m, n \in minted : grant[m[2]] = grant[n[2]] => m = n

\* start returns its URL only once the row is stored, and only complete
\* removes it: a redirected callback is told that its state is invalid only
\* if another callback consumed that state.
LoginNeverOrphaned ==
    \A c \in Callback :
        /\ outcome[c] = "auth.state_invalid"
        /\ call[c].state \notin Stray
        => \E d \in Callback \ {c} :
              grant[d] # None /\ call[d].state = call[c].state

\* A call that ends in a refusal left nothing behind at the broker; only the
\* transport failures and the unusable answers leave that open.
RefusalIsSideEffectFree ==
    \A c \in Callback :
        outcome[c] \in {"auth.state_invalid", "auth.state_expired",
                        "ValueError", "auth.exchange_rejected",
                        "provider.rate_limit"} =>
            \A t \in RequestToken : <<t, c>> \notin minted

\* The deadline of every start call that issued the presented state has passed
\* before the deadline was checked.
Late(c) ==
    /\ completing[c] \in {"consuming", "consumed"}
    /\ \A a \in Attempt :
          auth[a] # None /\ auth[a].nonce = call[c].state => auth[a].expires_at <= now

\* With random nonces, a call that has not passed the check NonceTTL after the
\* start call whose login it completes stays late until it ends, and then it
\* never reached the broker: the time it spent waiting for the store counts.  A
\* call that passed the check may reach the broker after the deadline, by the
\* time it takes to get a connection.
TimelyExchange ==
    [][\A c \in Callback : Late(c) =>
          \/ Late(c)'
          \/ completing'[c] = "settled" /\ c \notin posted']_vars

\* A call of complete that began always ends.
CallbackSettles ==
    \A c \in Callback :
        completing[c] \in {"consuming", "consumed", "sending", "exchanging"}
            ~> completing[c] = "settled"

-----------------------------------------------------------------------------
(* The service implements one-time grants: a grant is open while its row is *)
(* stored, taken by the callback that consumed it, and redeemed by the      *)
(* POST of that callback.                                                   *)

taken == {<<grant[c], c>> : c \in {d \in Callback : grant[d] # None}}
redeemed == {<<grant[c], c>> : c \in posted}

OTG == INSTANCE OneTimeGrant
         WITH Grant <- Attempt, Holder <- Callback, open <- pending

\* Every behaviour of the service, seen through this mapping, is one of
\* one-time grants.
ImplementsOneTimeGrant == OTG!Spec

=============================================================================
