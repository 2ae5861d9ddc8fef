-------------------------- MODULE ZerodhaCollection --------------------------
(***************************************************************************)
(* ZerodhaConnector.collect (connectors/zerodha.py) over one               *)
(* HttpxKiteTransport (connectors/zerodha_http.py): concurrent collections *)
(* that share a session and a pool of connections.                         *)
(*                                                                         *)
(* A call of collect is a member of Collector.  It walks the requested     *)
(* capabilities in the order of their names and fetches the endpoints of   *)
(* each; a fetch checks the session, waits for a connection, sends its     *)
(* request and reads the response.  The broker, which may revoke the       *)
(* access token at any time, and the clock are the environment.            *)
(***************************************************************************)
EXTENDS Naturals, Sequences, FiniteSets

CONSTANTS
    Collector,     \* calls of collect
    Requests,      \* the sets of capabilities a call may ask for
    Reply,         \* the classes of responses the broker gives
    HasToken,      \* whether the session has an access token
    ExpiresAt,     \* the session's expires_at, or None
    PoolSize,      \* max_connections of _LIMITS
    MaxTime,       \* bound: the last instant the clock shows
    None

VARIABLES
    now,           \* the clock
    token,         \* whether the broker honours the access token or it was revoked
    stage,         \* Collector -> where its call stands
    request,       \* Collector -> the capabilities it was asked for
    retrieved_at,  \* Collector -> its retrieved_at, or None
    todo,          \* Collector -> capabilities not yet settled
    left,          \* Collector -> endpoints of the current capability not yet fetched
    issues,        \* Collector -> issues of the current capability
    authentication_issue, \* Collector -> the issue that stopped it, or None
    artifacts,     \* Collector -> the artifacts it gathered
    outcomes,      \* Collector -> the outcomes of the settled capabilities
    sent_at,       \* Collector -> when its pending request was sent, or None
    reply          \* Collector -> the response to it, or None

wireVars == <<sent_at, reply>>
resultVars == <<artifacts, outcomes>>
loopVars == <<request, retrieved_at, todo, left, issues, authentication_issue>>
vars == <<now, token, stage, loopVars, resultVars, wireVars>>

-----------------------------------------------------------------------------
(* Values.                                                                 *)

\* The capabilities by name, which is the order sorted() visits them in.
ByName ==
    <<"accounts", "activities", "balances", "holdings",
      "instruments", "positions", "prices", "tax_lots">>
Capability == {ByName[i] : i \in DOMAIN ByName}

\* _ENDPOINTS; a capability outside its domain is unsupported.
Endpoints ==
    [activities  |-> <<"orders", "trades">>,
     balances    |-> <<"funds">>,
     holdings    |-> <<"holdings">>,
     instruments |-> <<"instruments">>,
     positions   |-> <<"positions">>]
Supported(cap) == cap \in DOMAIN Endpoints
EndpointsOf(cap) == {Endpoints[cap][i] : i \in DOMAIN Endpoints[cap]}
Endpoint == UNION {EndpointsOf(cap) : cap \in DOMAIN Endpoints}

Before(cap, other) ==
    \E i, j \in DOMAIN ByName : i < j /\ ByName[i] = cap /\ ByName[j] = other

\* Mutant: the capabilities are visited against the order of their names.
LastByName(caps) == CHOOSE cap \in caps : \A other \in caps \ {cap} : Before(other, cap)

\* The member of a set of capabilities that sorted() puts first.
FirstByName(caps) == CHOOSE cap \in caps : \A other \in caps \ {cap} : Before(cap, other)

\* The reason code of every failure fetch translates into a ConnectorError.
ReasonCode ==
    [unauthorized |-> "session.expired",
     throttled    |-> "provider.rate_limit",
     bad_request  |-> "provider.invalid_request",
     gone         |-> "provider.endpoint_unavailable",
     unavailable  |-> "provider.unavailable",
     denied       |-> "provider.request_denied",
     bad_length   |-> "provider.invalid_content_length",
     oversized    |-> "provider.response_too_large",
     empty        |-> "provider.empty_response",
     timeout      |-> "provider.timeout",
     network      |-> "provider.network_error",
     missing      |-> "session.missing",
     expired      |-> "session.expired"]

\* What an outcome may give as a reason.
Issue == {ReasonCode[f] : f \in DOMAIN ReasonCode} \union {"capability.unsupported"}

\* Failures of kind AUTHENTICATION stop the collection.
StopsCollection(failure) == failure \in {"unauthorized", "missing", "expired"}

\* Failures nothing translates: a protocol or decoding error of httpx, and
\* KitePayload's ValueError for a response with an empty media type.
Untranslated == {"protocol", "untyped"}

Replies == {"ok", "untyped", "unauthorized", "throttled", "bad_request", "gone",
            "unavailable", "denied", "bad_length", "oversized", "empty"}
Status == {"succeeded", "partial", "failed", "unsupported"}

ASSUME CollectionAssumption ==
    /\ \A caps \in Requests : caps \subseteq Capability /\ caps # {}
    /\ Reply \subseteq Replies
    /\ HasToken \in BOOLEAN
    /\ ExpiresAt \in Nat \union {None}
    /\ PoolSize \in Nat \ {0}
    /\ MaxTime \in Nat
    /\ None \notin Nat \union Replies \union Issue

-----------------------------------------------------------------------------
Init ==
    /\ now = 0
    /\ token = "honoured"
    /\ stage = [c \in Collector |-> "idle"]
    /\ request = [c \in Collector |-> {}]
    /\ retrieved_at = [c \in Collector |-> None]
    /\ todo = [c \in Collector |-> {}]
    /\ left = [c \in Collector |-> <<>>]
    /\ issues = [c \in Collector |-> <<>>]
    /\ authentication_issue = [c \in Collector |-> None]
    /\ artifacts = [c \in Collector |-> <<>>]
    /\ outcomes = [c \in Collector |-> <<>>]
    /\ sent_at = [c \in Collector |-> None]
    /\ reply = [c \in Collector |-> None]

Tick ==
    /\ now < MaxTime
    /\ now' = now + 1
    /\ UNCHANGED <<token, stage, loopVars, resultVars, wireVars>>

\* The user logs in elsewhere, or the broker ends the session early.
Revoke ==
    /\ token = "honoured"
    /\ token' = "revoked"
    /\ UNCHANGED <<now, stage, loopVars, resultVars, wireVars>>

\* HttpxKiteTransport.authentication_state: why the session is not ready, or
\* None when it is.
NotReady ==
    IF ~HasToken THEN "missing"
    ELSE IF ExpiresAt # None /\ ExpiresAt <= now THEN "expired"
    ELSE None

-----------------------------------------------------------------------------
(* collect: the walk over the capabilities.                                *)

\* A session that is not ready ends the call before anything is gathered.
Refuse(c, caps) ==
    /\ stage[c] = "idle"
    /\ NotReady # None
    /\ stage' = [stage EXCEPT ![c] = "raised"]
    /\ request' = [request EXCEPT ![c] = caps]
    /\ UNCHANGED <<now, token, retrieved_at, todo, left, issues,
                   authentication_issue, resultVars, wireVars>>

Begin(c, caps) ==
    /\ stage[c] = "idle"
    /\ NotReady = None
    /\ stage' = [stage EXCEPT ![c] = "next"]
    /\ request' = [request EXCEPT ![c] = caps]
    /\ retrieved_at' = [retrieved_at EXCEPT ![c] = now]
    /\ todo' = [todo EXCEPT ![c] = caps]
    /\ UNCHANGED <<now, token, left, issues, authentication_issue, resultVars, wireVars>>

\* The capability of the loop's current iteration.
Current(c) == FirstByName(todo[c])

Outcome(cap, status, why) == [capability |-> cap, status |-> status, issues |-> why]

\* Record the outcome of the current capability.
Settle(c, status, why) ==
    /\ outcomes' = [outcomes EXCEPT ![c] = Append(@, Outcome(Current(c), status, why))]
    /\ todo' = [todo EXCEPT ![c] = @ \ {Current(c)}]
    /\ UNCHANGED <<now, token, request, retrieved_at, left, authentication_issue,
                   artifacts, wireVars>>

SkipUnsupported(c) ==
    /\ stage[c] = "next"
    /\ todo[c] # {}
    /\ ~Supported(Current(c))
    /\ Settle(c, "unsupported", <<"capability.unsupported">>)
    /\ UNCHANGED <<stage, issues>>

SkipUnauthenticated(c) ==
    /\ stage[c] = "next"
    /\ todo[c] # {}
    /\ Supported(Current(c))
    /\ authentication_issue[c] # None
    /\ Settle(c, "failed", <<authentication_issue[c]>>)
    /\ UNCHANGED <<stage, issues>>

\* Mutant: an authentication failure does not stop the later capabilities.
OpenCapabilityAnyway(c) ==
    /\ stage[c] = "next"
    /\ todo[c] # {}
    /\ Supported(Current(c))
    /\ stage' = [stage EXCEPT ![c] = "fetch"]
    /\ left' = [left EXCEPT ![c] = Endpoints[Current(c)]]
    /\ issues' = [issues EXCEPT ![c] = <<>>]
    /\ UNCHANGED <<now, token, request, retrieved_at, todo, authentication_issue,
                   resultVars, wireVars>>

OpenCapability(c) ==
    /\ stage[c] = "next"
    /\ todo[c] # {}
    /\ Supported(Current(c))
    /\ authentication_issue[c] = None
    /\ stage' = [stage EXCEPT ![c] = "fetch"]
    /\ left' = [left EXCEPT ![c] = Endpoints[Current(c)]]
    /\ issues' = [issues EXCEPT ![c] = <<>>]
    /\ UNCHANGED <<now, token, request, retrieved_at, todo, authentication_issue,
                   resultVars, wireVars>>

\* Endpoints of the current capability that yielded an artifact.
Fetched(c) == {artifacts[c][i].endpoint : i \in DOMAIN artifacts[c]}
Successful(c) == Fetched(c) \intersect EndpointsOf(Current(c))

\* Mutant: any artifact of the call counts for the capability.
CapabilityStatusLax(c) ==
    IF issues[c] = <<>> THEN "succeeded"
    ELSE IF artifacts[c] # <<>> THEN "partial"
    ELSE "failed"

CapabilityStatus(c) ==
    IF issues[c] = <<>> THEN "succeeded"
    ELSE IF Successful(c) # {} THEN "partial"
    ELSE "failed"

CloseCapability(c) ==
    /\ stage[c] = "fetch"
    /\ left[c] = <<>>
    /\ stage' = [stage EXCEPT ![c] = "next"]
    /\ Settle(c, CapabilityStatus(c), issues[c])
    /\ issues' = [issues EXCEPT ![c] = <<>>]

Return(c) ==
    /\ stage[c] = "next"
    /\ todo[c] = {}
    /\ stage' = [stage EXCEPT ![c] = "returned"]
    /\ UNCHANGED <<now, token, loopVars, resultVars, wireVars>>

-----------------------------------------------------------------------------
(* fetch, and what collect makes of its result.                            *)

\* Mutant: an issue is noted every time it occurs.
NoteIssueAgain(c, code) == issues' = [issues EXCEPT ![c] = Append(@, code)]

NoteIssue(c, code) ==
    issues' = [issues EXCEPT ![c] =
                 IF code \in {@[i] : i \in DOMAIN @} THEN @ ELSE Append(@, code)]

\* A ConnectorError: note it, and go on with the next endpoint unless the
\* session is at fault.
Fail(c, failure) ==
    /\ NoteIssue(c, ReasonCode[failure])
    /\ IF StopsCollection(failure)
         THEN /\ authentication_issue' =
                   [authentication_issue EXCEPT ![c] = ReasonCode[failure]]
              /\ left' = [left EXCEPT ![c] = <<>>]
         ELSE /\ UNCHANGED authentication_issue
              /\ left' = [left EXCEPT ![c] = Tail(@)]
    /\ stage' = [stage EXCEPT ![c] = "fetch"]
    /\ sent_at' = [sent_at EXCEPT ![c] = None]
    /\ reply' = [reply EXCEPT ![c] = None]
    /\ UNCHANGED <<now, token, request, retrieved_at, todo, resultVars>>

\* Anything that is not a ConnectorError leaves collect, with what it gathered.
Abort(c, how) ==
    /\ stage' = [stage EXCEPT ![c] = how]
    /\ sent_at' = [sent_at EXCEPT ![c] = None]
    /\ reply' = [reply EXCEPT ![c] = None]
    /\ UNCHANGED <<now, token, loopVars, resultVars>>

\* The session is checked before every request.
FetchRefused(c) ==
    /\ stage[c] = "fetch"
    /\ left[c] # <<>>
    /\ NotReady # None
    /\ Fail(c, NotReady)

Fetch(c) ==
    /\ stage[c] = "fetch"
    /\ left[c] # <<>>
    /\ NotReady = None
    /\ stage' = [stage EXCEPT ![c] = "pool"]
    /\ UNCHANGED <<now, token, loopVars, resultVars, wireVars>>

Connections == {c \in Collector : stage[c] = "sent"}

Send(c) ==
    /\ stage[c] = "pool"
    /\ Cardinality(Connections) < PoolSize
    /\ stage' = [stage EXCEPT ![c] = "sent"]
    /\ sent_at' = [sent_at EXCEPT ![c] = now]
    /\ UNCHANGED <<now, token, loopVars, resultVars, reply>>

\* The broker refuses a revoked token, or fails in a way of its own.
BrokerReply(c, class) ==
    /\ stage[c] = "sent"
    /\ reply[c] = None
    /\ token = "revoked" => class \notin {"ok", "untyped", "empty", "oversized", "bad_length"}
    /\ reply' = [reply EXCEPT ![c] = class]
    /\ UNCHANGED <<now, token, stage, loopVars, resultVars, sent_at>>

\* Mutant: an artifact is stamped when its response was read.
ArtifactStampedOnReceipt(c) == [endpoint |-> Head(left[c]), retrieved_at |-> now]

Artifact(c) == [endpoint |-> Head(left[c]), retrieved_at |-> retrieved_at[c]]

Receive(c) ==
    /\ stage[c] = "sent"
    /\ reply[c] = "ok"
    /\ artifacts' = [artifacts EXCEPT ![c] = Append(@, Artifact(c))]
    /\ left' = [left EXCEPT ![c] = Tail(@)]
    /\ stage' = [stage EXCEPT ![c] = "fetch"]
    /\ sent_at' = [sent_at EXCEPT ![c] = None]
    /\ reply' = [reply EXCEPT ![c] = None]
    /\ UNCHANGED <<now, token, request, retrieved_at, todo, issues,
                   authentication_issue, outcomes>>

ReceiveFailure(c) ==
    /\ stage[c] = "sent"
    /\ reply[c] \in DOMAIN ReasonCode
    /\ Fail(c, reply[c])

ReceiveUntyped(c) ==
    /\ stage[c] = "sent"
    /\ reply[c] \in Untranslated
    /\ Abort(c, "raised")

\* Mutant: the pool is waited for without a timeout.
TransportFailureOnWire(c, failure) ==
    /\ stage[c] = "sent"
    /\ Fail(c, failure)

\* No connection in time, no response in time, or the connection broke.
TransportFailure(c, failure) ==
    /\ stage[c] \in {"pool", "sent"}
    /\ Fail(c, failure)

\* The transport was closed before the request, or httpx raised a ProtocolError
\* or DecodingError: neither a timeout nor a network error.
TransportAbort(c) ==
    /\ stage[c] \in {"pool", "sent"}
    /\ Abort(c, "raised")

\* The task is cancelled at an await.
Cancel(c) ==
    /\ stage[c] \in {"pool", "sent"}
    /\ Abort(c, "cancelled")

-----------------------------------------------------------------------------
Step(c) ==
    \/ \E caps \in Requests : Refuse(c, caps) \/ Begin(c, caps)
    \/ SkipUnsupported(c) \/ SkipUnauthenticated(c) \/ OpenCapability(c)
    \/ CloseCapability(c) \/ Return(c)
    \/ FetchRefused(c) \/ Fetch(c) \/ Send(c)
    \/ Receive(c) \/ ReceiveFailure(c) \/ ReceiveUntyped(c)
    \/ \E failure \in {"timeout", "network"} : TransportFailure(c, failure)
    \/ TransportAbort(c) \/ Cancel(c)

Next ==
    \/ Tick
    \/ Revoke
    \/ \E c \in Collector : Step(c) \/ \E class \in Reply : BrokerReply(c, class)

Spec == Init /\ [][Next]_vars

\* A call that can go on goes on, and httpx ends every wait by a timeout;
\* the broker need not answer.
Fairness ==
    \A c \in Collector :
        /\ WF_vars(SkipUnsupported(c) \/ SkipUnauthenticated(c) \/ OpenCapability(c)
                   \/ CloseCapability(c) \/ Return(c) \/ FetchRefused(c) \/ Fetch(c))
        /\ WF_vars(TransportFailure(c, "timeout") \/ Receive(c) \/ ReceiveFailure(c)
                   \/ ReceiveUntyped(c))

FairSpec == Spec /\ Fairness

-----------------------------------------------------------------------------
(* Properties.                                                             *)

ArtifactRecord == [endpoint : Endpoint, retrieved_at : Nat]
OutcomeRecord == [capability : Capability, status : Status, issues : Seq(Issue)]

\* Every variable keeps its shape, in particular every artifact is stamped.
TypeOK ==
    /\ now \in Nat
    /\ token \in {"honoured", "revoked"}
    /\ stage \in [Collector -> {"idle", "next", "fetch", "pool", "sent",
                                "returned", "raised", "cancelled"}]
    /\ request \in [Collector -> SUBSET Capability]
    /\ retrieved_at \in [Collector -> Nat \union {None}]
    /\ todo \in [Collector -> SUBSET Capability]
    /\ left \in [Collector -> Seq(Endpoint)]
    /\ issues \in [Collector -> Seq(Issue)]
    /\ authentication_issue \in [Collector -> Issue \union {None}]
    /\ artifacts \in [Collector -> Seq(ArtifactRecord)]
    /\ outcomes \in [Collector -> Seq(OutcomeRecord)]
    /\ sent_at \in [Collector -> Nat \union {None}]
    /\ reply \in [Collector -> Replies \union {None}]

\* The status collect reports for a capability is what its artifacts show:
\* all of its endpoints, some, or none; unsupported exactly when there is
\* nothing to fetch; and no endpoint is kept twice.
EvidenceMatches ==
    \A c \in Collector :
        /\ \A i, j \in DOMAIN artifacts[c] :
              artifacts[c][i].endpoint = artifacts[c][j].endpoint => i = j
        /\ \A i \in DOMAIN outcomes[c] :
              LET o == outcomes[c][i]
                  wanted == IF Supported(o.capability)
                              THEN EndpointsOf(o.capability) ELSE {}
                  got == wanted \intersect Fetched(c)
              IN  /\ o.status = "unsupported" <=> wanted = {}
                  /\ o.status = "succeeded" <=> wanted # {} /\ got = wanted
                  /\ o.status = "partial" <=> got \notin {{}, wanted}

\* A result reports every requested capability once, in the order of names,
\* whatever failed on the way.
ResultComplete ==
    \A c \in Collector : stage[c] = "returned" =>
        /\ {outcomes[c][i].capability : i \in DOMAIN outcomes[c]} = request[c]
        /\ \A i, j \in DOMAIN outcomes[c] : i < j =>
              Before(outcomes[c][i].capability, outcomes[c][j].capability)

Distinct(s) == \A i, j \in DOMAIN s : s[i] = s[j] => i = j

\* collect never trips over the checks of the objects it builds: issues
\* exactly when a capability did not succeed, none of them repeated
\* (CapabilityOutcome), and at least one outcome (CollectionResult).
ConstructorsAccept ==
    \A c \in Collector :
        /\ stage[c] = "returned" => outcomes[c] # <<>>
        /\ \A i \in DOMAIN outcomes[c] :
              LET o == outcomes[c][i] IN
              /\ o.status = "succeeded" <=> o.issues = <<>>
              /\ Distinct(o.issues)

\* Once the session was refused, locally or by the broker, the call sends
\* nothing more, and every later capability fails for that reason alone.
AuthenticationFailureIsFinal ==
    \A c \in Collector : authentication_issue[c] # None =>
        /\ stage[c] \notin {"pool", "sent"}
        /\ \A i, j \in DOMAIN outcomes[c] :
              /\ i < j
              /\ \E k \in DOMAIN outcomes[c][i].issues :
                    outcomes[c][i].issues[k] = authentication_issue[c]
              /\ outcomes[c][j].status # "unsupported"
              => /\ outcomes[c][j].status = "failed"
                 /\ outcomes[c][j].issues = <<authentication_issue[c]>>

\* Every call ends, also when all connections are taken by calls whose
\* responses never come.
CollectSettles ==
    \A c \in Collector :
        stage[c] # "idle" ~> stage[c] \in {"returned", "raised", "cancelled"}

\* ADR 0006: partial success is a result, not an exception.  The code raises
\* with artifacts in hand when an error is not a ConnectorError.
PartialSuccessIsResult ==
    \A c \in Collector : stage[c] = "raised" => artifacts[c] = <<>>

\* An artifact is never older than its stamp says: retrieved_at is at or
\* before the moment its request was sent, however long the call took.
StampNeverLate ==
    [][\A c \in Collector : artifacts'[c] # artifacts[c] =>
          artifacts'[c][Len(artifacts'[c])].retrieved_at <= sent_at[c]]_vars

=============================================================================
