---------------------- MODULE KiteAuthorization_proofs ----------------------
(***************************************************************************)
(* Proofs about KiteAuthorization for any number of start and complete     *)
(* calls, nonces, tokens and scopes, and for any bound on the clock.       *)
(***************************************************************************)
EXTENDS KiteAuthorization, TLAPS

-----------------------------------------------------------------------------
(* The inductive invariant.                                                *)

\* How far a call of complete got says what it holds.
Progress ==
    \A c \in Callback :
        /\ completing[c] # "idle" => call[c] # None
        /\ completing[c] \in {"idle", "consuming"} => grant[c] = None
        /\ completing[c] \in {"consumed", "sending", "exchanging"} => grant[c] # None
        /\ c \in posted =>
              grant[c] # None /\ completing[c] \in {"exchanging", "settled"}
        /\ completing[c] = "exchanging" => c \in posted
        /\ answer[c] # None => c \in posted

\* A row is in the store or with one callback, which presented its nonce; it
\* got there from a start call that finished.
Custody ==
    /\ \A a \in Attempt :
          /\ starting[a] \in {"issuing", "started"} => auth[a] # None
          /\ starting[a] = "idle" => auth[a] = None
    /\ \A a \in pending :
          auth[a] # None /\ starting[a] \in {"started", "failed"}
    /\ \A c \in Callback : grant[c] # None =>
          /\ grant[c] \notin pending
          /\ starting[grant[c]] \in {"started", "failed"}
          /\ auth[grant[c]] # None
          /\ auth[grant[c]].nonce = call[c].state
    /\ SingleUse

\* A random nonce names one attempt.
NoncesUnique ==
    FreshNonces =>
        \A a, b \in Attempt :
            /\ auth[a] # None
            /\ auth[b] # None
            /\ auth[a].nonce = auth[b].nonce
            => a = b

\* Only a login page of a start call that returned its URL mints tokens, and a
\* callback that passed validation carries the nonce of such a call, unless its
\* state is a stray one.
Origins ==
    /\ \A t \in RequestToken : login[t] # None => starting[login[t]] = "started"
    /\ \A c \in Callback :
          completing[c] = "consuming" \/ grant[c] # None =>
              \/ call[c].state \in Stray
              \/ \E a \in Attempt : starting[a] = "started" /\ auth[a].nonce = call[c].state

\* What the broker honoured, and what the callback made of its answer.
Exchanges ==
    /\ \A m \in minted :
          /\ m[2] \in posted
          /\ m[1] = call[m[2]].token
          /\ login[m[1]] # None
          /\ auth[login[m[1]]].key = call[m[2]].key
    /\ \A c \in Callback : answer[c] # None /\ answer[c].ok =>
          <<call[c].token, c>> \in minted
    /\ \A c \in Callback : outcome[c] = "session" =>
          answer[c] # None /\ answer[c].ok /\ answer[c].key = call[c].key

-----------------------------------------------------------------------------
(* Type correctness.                                                       *)

\* Each step keeps every variable of its shape.
LEMMA TypeInit == Init => TypeOK
<1> SUFFICES ASSUME Init PROVE TypeOK
  OBVIOUS
<1> QED
  BY DEF Init, TypeOK

LEMMA TypeStart ==
    ASSUME TypeOK, NEW a \in Attempt, StartStep(a)
    PROVE  TypeOK'
<1> USE ConstantsAssumption DEF TypeOK, startVars, brokerVars, completeVars
<1>1. ASSUME NEW s \in Scope, NEW k \in ApiKey, NEW n \in Nonce, Start(a, s, k, n)
      PROVE  TypeOK'
  <2>1. [scope |-> s, key |-> k, nonce |-> n, expires_at |-> now + NonceTTL]
          \in Authorization
    BY DEF Authorization
  <2>. QED
    BY <1>1, <2>1 DEF Start
<1>2. CASE StartInvalid(a)
  BY <1>2 DEF StartInvalid
<1>3. CASE IssueConflict(a)
  BY <1>3 DEF IssueConflict
<1>4. ASSUME NEW end \in {"started", "failed"}, Issue(a, end)
      PROVE  TypeOK'
  BY <1>4 DEF Issue
<1>5. CASE CancelStart(a)
  BY <1>5 DEF CancelStart
<1>. QED
  BY <1>1, <1>2, <1>3, <1>4, <1>5 DEF StartStep

LEMMA TypeComplete ==
    ASSUME TypeOK, NEW c \in Callback, CompleteStep(c)
    PROVE  TypeOK'
<1> USE ConstantsAssumption DEF TypeOK, startVars, brokerVars, completeVars
<1>1. ASSUME NEW state \in Nonce \union Stray, NEW token \in RequestToken,
             NEW k \in ApiKey, Complete(c, state, token, k)
      PROVE  TypeOK'
  <2>1. [state |-> state, token |-> token, key |-> k] \in Arguments
    BY DEF Arguments
  <2>2. {"auth.state_invalid", "ValueError"} \subseteq Outcome
    BY DEF Outcome
  <2>. QED
    BY <1>1, <2>1, <2>2 DEF Complete, Settle
<1>2. ASSUME NEW a \in Attempt, ConsumeHit(c, a) PROVE TypeOK'
  BY <1>2 DEF ConsumeHit
<1>3. CASE ConsumeMiss(c)
  BY <1>3 DEF ConsumeMiss, Settle, Outcome
<1>4. CASE RejectExpired(c)
  BY <1>4 DEF RejectExpired, Settle, Outcome
<1>5. CASE BeginExchange(c) \/ PostExchange(c)
  BY <1>5 DEF BeginExchange, PostExchange
<1>6. CASE ExchangeReturn(c)
  <2>1. answer[c] \in Answer
    BY <1>6 DEF ExchangeReturn
  <2>2. Verdict(c) \in Outcome
    BY <2>1 DEF Verdict, Outcome, Answer, Fault, ErrorCode
  <2>. QED
    BY <1>6, <2>2 DEF ExchangeReturn, Settle
<1>7. ASSUME NEW failure \in {"timeout", "network", "protocol"}, ExchangeFail(c, failure)
      PROVE  TypeOK'
  <2>1. ErrorCode[failure] \in Outcome
    BY DEF Outcome, ErrorCode
  <2>. QED
    BY <1>7, <2>1 DEF ExchangeFail, Settle
<1>8. CASE CancelComplete(c)
  BY <1>8 DEF CancelComplete, Settle, Outcome
<1>. QED
  BY <1>1, <1>2, <1>3, <1>4, <1>5, <1>6, <1>7, <1>8 DEF CompleteStep

LEMMA TypeBroker ==
    ASSUME TypeOK, Progress, BrokerStep
    PROVE  TypeOK'
<1> USE ConstantsAssumption DEF TypeOK, startVars, completeVars
<1>1. ASSUME NEW t \in RequestToken, NEW a \in Attempt, BrokerLogin(t, a)
      PROVE  TypeOK'
  BY <1>1 DEF BrokerLogin
<1>2. ASSUME NEW c \in Callback, NEW reply \in MintAnswer, BrokerMint(c, reply)
      PROVE  TypeOK'
  <2>1. reply \in Answer
    BY DEF MintAnswer, Answer, Fault
  <2>2. call[c].token \in RequestToken
    BY <1>2 DEF BrokerMint, Progress, Arguments
  <2>. QED
    BY <1>2, <2>1, <2>2 DEF BrokerMint
<1>3. ASSUME NEW c \in Callback, NEW fault \in Faults, BrokerRefuse(c, fault)
      PROVE  TypeOK'
  <2>1. [ok |-> FALSE, fault |-> fault] \in Answer
    BY DEF Answer
  <2>. QED
    BY <1>3, <2>1 DEF BrokerRefuse
<1>. QED
  BY <1>1, <1>2, <1>3 DEF BrokerStep

LEMMA TypeStep == TypeOK /\ Progress /\ [Next]_vars => TypeOK'
<1> SUFFICES ASSUME TypeOK, Progress, [Next]_vars PROVE TypeOK'
  OBVIOUS
<1>1. CASE Tick
  BY <1>1 DEF Tick, TypeOK, startVars, brokerVars, completeVars
<1>2. CASE UNCHANGED vars
  BY <1>2 DEF TypeOK, vars, startVars, brokerVars, completeVars
<1>. QED
  BY <1>1, <1>2, TypeStart, TypeComplete, TypeBroker DEF Next

-----------------------------------------------------------------------------
(* Progress.                                                               *)

LEMMA ProgressStep == TypeOK /\ Progress /\ [Next]_vars => Progress'
<1> SUFFICES ASSUME TypeOK, Progress, [Next]_vars PROVE Progress'
  OBVIOUS
<1> USE ConstantsAssumption
    DEF TypeOK, Progress, startVars, brokerVars, completeVars
<1>1. CASE Tick
  BY <1>1 DEF Tick
<1>2. CASE UNCHANGED vars
  BY <1>2 DEF vars
<1>3. ASSUME NEW a \in Attempt, StartStep(a) PROVE Progress'
  BY <1>3 DEF StartStep, Start, StartInvalid, IssueConflict, Issue, CancelStart
<1>4. ASSUME NEW c \in Callback, CompleteStep(c) PROVE Progress'
  <2>1. ASSUME NEW state \in Nonce \union Stray, NEW token \in RequestToken,
               NEW k \in ApiKey, Complete(c, state, token, k)
        PROVE  Progress'
    <3>1. [state |-> state, token |-> token, key |-> k] # None
      BY DEF Arguments
    <3>. QED
      BY <2>1, <3>1 DEF Complete, Settle
  <2>2. ASSUME NEW a \in Attempt, ConsumeHit(c, a) PROVE Progress'
    BY <2>2 DEF ConsumeHit
  <2>3. CASE ConsumeMiss(c)
    BY <2>3 DEF ConsumeMiss, Settle
  <2>4. CASE RejectExpired(c)
    BY <2>4 DEF RejectExpired, Settle
  <2>5. CASE BeginExchange(c) \/ PostExchange(c)
    BY <2>5 DEF BeginExchange, PostExchange
  <2>6. CASE ExchangeReturn(c)
    BY <2>6 DEF ExchangeReturn, Settle
  <2>7. ASSUME NEW failure \in {"timeout", "network", "protocol"},
               ExchangeFail(c, failure)
        PROVE  Progress'
    BY <2>7 DEF ExchangeFail, Settle
  <2>8. CASE CancelComplete(c)
    BY <2>8 DEF CancelComplete, Settle
  <2>. QED
    BY <1>4, <2>1, <2>2, <2>3, <2>4, <2>5, <2>6, <2>7, <2>8 DEF CompleteStep
<1>5. CASE BrokerStep
  BY <1>5 DEF BrokerStep, BrokerLogin, BrokerMint, BrokerRefuse
<1>. QED
  BY <1>1, <1>2, <1>3, <1>4, <1>5 DEF Next

LEMMA ShapeInvariant == Spec => [](TypeOK /\ Progress)
<1>1. Init => TypeOK /\ Progress
  BY TypeInit DEF Init, Progress
<1>. QED
  BY <1>1, TypeStep, ProgressStep, PTL DEF Spec

\* Type correctness: in every reachable state, whatever the constants, the
\* variables hold only values start, complete, the store and the wire can hold.
THEOREM TypeCorrect == Spec => []TypeOK
<1>. QED
  BY ShapeInvariant, PTL

-----------------------------------------------------------------------------
(* Custody of the rows.                                                    *)

LEMMA CustodyStep == TypeOK /\ Progress /\ Custody /\ [Next]_vars => Custody'
<1> SUFFICES ASSUME TypeOK, Progress, Custody, [Next]_vars PROVE Custody'
  OBVIOUS
<1> USE ConstantsAssumption
    DEF TypeOK, Progress, Custody, SingleUse, startVars, brokerVars, completeVars
<1>1. CASE Tick
  BY <1>1 DEF Tick
<1>2. CASE UNCHANGED vars
  BY <1>2 DEF vars
<1>3. ASSUME NEW a \in Attempt, StartStep(a) PROVE Custody'
  <2>1. ASSUME NEW s \in Scope, NEW k \in ApiKey, NEW n \in Nonce, Start(a, s, k, n)
        PROVE  Custody'
    <3>1. [scope |-> s, key |-> k, nonce |-> n, expires_at |-> now + NonceTTL] # None
      BY DEF Authorization
    <3>2. \A b \in Attempt : b # a => auth'[b] = auth[b] /\ starting'[b] = starting[b]
      BY <2>1 DEF Start
    <3>3. a \notin pending /\ \A c \in Callback : grant[c] # a
      BY <2>1 DEF Start
    <3>4. auth'[a] # None /\ starting'[a] = "issuing"
      BY <2>1, <3>1 DEF Start
    <3>5. UNCHANGED <<pending, grant, call>>
      BY <2>1 DEF Start
    <3>. QED
      BY <3>2, <3>3, <3>4, <3>5
  <2>2. CASE StartInvalid(a)
    BY <2>2 DEF StartInvalid
  <2>3. CASE IssueConflict(a)
    BY <2>3 DEF IssueConflict
  <2>4. ASSUME NEW end \in {"started", "failed"}, Issue(a, end) PROVE Custody'
    BY <2>4 DEF Issue
  <2>5. CASE CancelStart(a)
    BY <2>5 DEF CancelStart
  <2>. QED
    BY <1>3, <2>1, <2>2, <2>3, <2>4, <2>5 DEF StartStep
<1>4. ASSUME NEW c \in Callback, CompleteStep(c) PROVE Custody'
  <2>1. ASSUME NEW state \in Nonce \union Stray, NEW token \in RequestToken,
               NEW k \in ApiKey, Complete(c, state, token, k)
        PROVE  Custody'
    BY <2>1 DEF Complete, Settle
  <2>2. ASSUME NEW a \in Attempt, ConsumeHit(c, a) PROVE Custody'
    <3>1. auth[a].nonce = call[c].state
      BY <2>2 DEF ConsumeHit, Matches, Digest
    <3>. QED
      BY <2>2, <3>1 DEF ConsumeHit
  <2>3. UNCHANGED <<starting, auth, pending, grant, call>> => Custody'
    OBVIOUS
  <2>. QED
    BY <1>4, <2>1, <2>2, <2>3
    DEF CompleteStep, ConsumeMiss, RejectExpired, BeginExchange, PostExchange,
        ExchangeReturn, ExchangeFail, CancelComplete
<1>5. CASE BrokerStep
  BY <1>5 DEF BrokerStep, BrokerLogin, BrokerMint, BrokerRefuse
<1>. QED
  BY <1>1, <1>2, <1>3, <1>4, <1>5 DEF Next

LEMMA CustodyInvariant == Spec => [](TypeOK /\ Progress /\ Custody)
<1>1. Init => Custody
  BY DEF Init, Custody, SingleUse
<1>. QED
  BY <1>1, ShapeInvariant, CustodyStep, PTL DEF Spec

\* No issued row is ever handed to two calls of complete, for any number of
\* concurrent calls and any nonce factory.
THEOREM SingleUseHolds == Spec => []SingleUse
<1>1. Custody => SingleUse
  BY DEF Custody
<1>. QED
  BY <1>1, CustodyInvariant, PTL

-----------------------------------------------------------------------------
(* Random nonces.                                                          *)

LEMMA NoncesStep ==
    TypeOK /\ Custody /\ NoncesUnique /\ [Next]_vars => NoncesUnique'
<1> SUFFICES ASSUME TypeOK, Custody, NoncesUnique, [Next]_vars PROVE NoncesUnique'
  OBVIOUS
<1> USE ConstantsAssumption DEF NoncesUnique, startVars, brokerVars, completeVars
<1>1. ASSUME NEW a \in Attempt, NEW s \in Scope, NEW k \in ApiKey, NEW n \in Nonce,
             Start(a, s, k, n)
      PROVE  NoncesUnique'
  <2>1. \A b \in Attempt : b # a => auth'[b] = auth[b]
    BY <1>1 DEF Start, TypeOK
  <2>2. auth'[a].nonce = n
    BY <1>1 DEF Start, TypeOK
  <2>3. FreshNonces => \A b \in Attempt : auth[b] # None => auth[b].nonce # n
    BY <1>1 DEF Start, Issued
  <2>. QED
    BY <2>1, <2>2, <2>3
<1>2. UNCHANGED auth => NoncesUnique'
  OBVIOUS
<1>3. ASSUME NEW a \in Attempt, StartStep(a), UNCHANGED auth \/
             \E s \in Scope, k \in ApiKey, n \in Nonce : Start(a, s, k, n)
      PROVE  NoncesUnique'
  BY <1>1, <1>2, <1>3
<1>4. ASSUME NEW a \in Attempt, StartStep(a)
      PROVE  UNCHANGED auth \/
             \E s \in Scope, k \in ApiKey, n \in Nonce : Start(a, s, k, n)
  BY <1>4 DEF StartStep, StartInvalid, IssueConflict, Issue, CancelStart
<1>5. ASSUME NEW c \in Callback, CompleteStep(c) PROVE UNCHANGED auth
  BY <1>5 DEF CompleteStep, Complete, ConsumeHit, ConsumeMiss, RejectExpired, BeginExchange,
              PostExchange, ExchangeReturn, ExchangeFail, CancelComplete
<1>6. BrokerStep => UNCHANGED auth
  BY DEF BrokerStep, BrokerLogin, BrokerMint, BrokerRefuse
<1>7. Tick \/ UNCHANGED vars => UNCHANGED auth
  BY DEF Tick, vars
<1>. QED
  BY <1>2, <1>3, <1>4, <1>5, <1>6, <1>7 DEF Next

LEMMA NoncesInvariant == Spec => [](TypeOK /\ Progress /\ Custody /\ NoncesUnique)
<1>1. Init => NoncesUnique
  BY DEF Init, NoncesUnique
<1>. QED
  BY <1>1, CustodyInvariant, NoncesStep, PTL DEF Spec

\* A state presented twice reaches the broker at most once: when the nonces
\* are random, two exchanges never carry the same state.
THEOREM ReplayRejectedHolds ==
    ASSUME FreshNonces
    PROVE  Spec => []ReplayRejected
<1>1. TypeOK /\ Progress /\ Custody /\ NoncesUnique => ReplayRejected
  <2> SUFFICES ASSUME TypeOK, Progress, Custody, NoncesUnique,
                      NEW c \in posted, NEW d \in posted,
                      call[c].state = call[d].state
               PROVE  c = d
    BY DEF ReplayRejected
  <2>1. c \in Callback /\ d \in Callback
    BY DEF TypeOK
  <2>2. /\ grant[c] \in Attempt /\ auth[grant[c]] # None
        /\ grant[d] \in Attempt /\ auth[grant[d]] # None
        /\ grant[c] # None
        /\ auth[grant[c]].nonce = auth[grant[d]].nonce
    BY <2>1 DEF TypeOK, Progress, Custody
  <2>3. grant[c] = grant[d]
    BY <2>2 DEF NoncesUnique
  <2>. QED
    BY <2>1, <2>2, <2>3 DEF Custody, SingleUse
<1>. QED
  BY <1>1, NoncesInvariant, PTL

-----------------------------------------------------------------------------
(* Where callbacks come from, and what the broker does for them.           *)

LEMMA OriginsStep ==
    TypeOK /\ Progress /\ Custody /\ Origins /\ [Next]_vars => Origins'
<1> SUFFICES ASSUME TypeOK, Progress, Custody, Origins, [Next]_vars PROVE Origins'
  OBVIOUS
<1> USE ConstantsAssumption DEF Origins, startVars, brokerVars, completeVars
<1>. DEFINE Untouched == UNCHANGED <<starting, auth, login, call, grant>>
<1>1. Untouched /\ (\A c \in Callback : completing'[c] = "consuming" =>
                                        completing[c] = "consuming") => Origins'
  OBVIOUS
<1>2. Tick \/ BrokerStep \/ UNCHANGED vars => Origins'
  <2>1. ASSUME NEW t \in RequestToken, NEW a \in Attempt, BrokerLogin(t, a)
        PROVE  Origins'
    <3>1. \A u \in RequestToken : u # t => login'[u] = login[u]
      BY <2>1 DEF BrokerLogin, TypeOK
    <3>2. login[t] = None /\ login'[t] = a /\ a # None /\ starting[a] = "started"
      BY <2>1 DEF BrokerLogin, TypeOK
    <3>3. UNCHANGED <<starting, auth, completing, call, grant>>
      BY <2>1 DEF BrokerLogin
    <3>4. \A c \in Callback : completing[c] = "consuming" \/ grant[c] # None =>
             call[c] \in Arguments
      BY DEF TypeOK, Progress
    <3>5. \A c \in Callback : call[c] \in Arguments => call[c].token \in RequestToken
      BY DEF Arguments
    <3>. QED
      BY <3>1, <3>2, <3>3, <3>4, <3>5
  <2>. QED
    BY <1>1, <2>1 DEF BrokerStep, BrokerMint, BrokerRefuse, Tick, vars
<1>3. ASSUME NEW a \in Attempt, StartStep(a) PROVE Origins'
  <2>1. \A b \in Attempt : starting[b] = "started" =>
           starting'[b] = "started" /\ auth'[b] = auth[b]
    BY <1>3 DEF TypeOK, StartStep, Start, StartInvalid, IssueConflict, Issue, CancelStart
  <2>2. UNCHANGED <<login, completing, call, grant>>
    BY <1>3 DEF StartStep, Start, StartInvalid, IssueConflict, Issue, CancelStart
  <2>3. \A c \in Callback : completing[c] = "consuming" \/ grant[c] # None =>
             call[c] \in Arguments
    BY DEF TypeOK, Progress
  <2>4. \A c \in Callback : call[c] \in Arguments => call[c].token \in RequestToken
    BY DEF Arguments
  <2>5. \A t \in RequestToken : login[t] # None => login[t] \in Attempt
    BY DEF TypeOK
  <2>. QED
    BY <2>1, <2>2, <2>3, <2>4, <2>5
<1>4. ASSUME NEW c \in Callback, CompleteStep(c) PROVE Origins'
  <2>1. ASSUME NEW state \in Nonce \union Stray, NEW token \in RequestToken,
               NEW k \in ApiKey, Complete(c, state, token, k)
        PROVE  Origins'
    <3>1. /\ call'[c].state = state /\ call'[c].token = token
          /\ \A d \in Callback : d # c => call'[d] = call[d] /\ completing'[d] = completing[d]
          /\ UNCHANGED <<starting, auth, login, grant>>
      BY <2>1 DEF Complete, Settle, TypeOK
    <3>2. grant[c] = None
      BY <2>1 DEF Complete, Progress
    <3>3. state \notin Stray =>
             \E a \in Attempt : starting[a] = "started" /\ auth[a].nonce = state
      BY <2>1 DEF Complete, Redirects
    <3>. QED
      BY <3>1, <3>2, <3>3
  <2>2. ASSUME NEW a \in Attempt, ConsumeHit(c, a) PROVE Origins'
    BY <2>2 DEF ConsumeHit, TypeOK
  <2>. QED
    BY <1>1, <1>4, <2>1, <2>2
    DEF CompleteStep, ConsumeMiss, RejectExpired, BeginExchange, PostExchange,
        ExchangeReturn, ExchangeFail, CancelComplete, Settle, TypeOK
<1>. QED
  BY <1>2, <1>3, <1>4 DEF Next

LEMMA ExchangesStep ==
    TypeOK /\ Progress /\ Custody /\ Origins /\ Exchanges /\ [Next]_vars => Exchanges'
<1> SUFFICES ASSUME TypeOK, Progress, Custody, Origins, Exchanges, [Next]_vars
             PROVE  Exchanges'
  OBVIOUS
<1> USE ConstantsAssumption DEF Exchanges, startVars, brokerVars, completeVars
<1>0. \A m \in minted : m \in RequestToken \X Callback
  BY DEF TypeOK
<1>1. UNCHANGED <<posted, call, minted, login, auth, answer, outcome>> => Exchanges'
  OBVIOUS
<1>2. Tick \/ UNCHANGED vars => Exchanges'
  BY <1>1 DEF Tick, vars
<1>3. ASSUME NEW a \in Attempt, StartStep(a) PROVE Exchanges'
  <2>1. \A b \in Attempt : starting[b] = "started" => auth'[b] = auth[b]
    BY <1>3 DEF TypeOK, StartStep, Start, StartInvalid, IssueConflict, Issue, CancelStart
  <2>2. UNCHANGED <<login, posted, call, minted, answer, outcome>>
    BY <1>3 DEF StartStep, Start, StartInvalid, IssueConflict, Issue, CancelStart
  <2>3. \A m \in minted : login[m[1]] \in Attempt /\ starting[login[m[1]]] = "started"
    BY <1>0 DEF Origins, TypeOK
  <2>. QED
    BY <2>1, <2>2, <2>3
<1>4. ASSUME NEW t \in RequestToken, NEW a \in Attempt, BrokerLogin(t, a)
      PROVE  Exchanges'
  <2>1. \A m \in minted : login'[m[1]] = login[m[1]]
    BY <1>0, <1>4 DEF BrokerLogin, TypeOK
  <2>. QED
    BY <1>4, <2>1 DEF BrokerLogin
<1>5. ASSUME NEW c \in Callback, NEW reply \in MintAnswer, BrokerMint(c, reply)
      PROVE  Exchanges'
  <2>1. /\ c \in posted /\ answer[c] = None
        /\ minted' = minted \union {<<call[c].token, c>>}
        /\ answer'[c] = reply
        /\ \A d \in Callback : d # c => answer'[d] = answer[d]
        /\ UNCHANGED <<login, auth, posted, call, outcome>>
        /\ login[call[c].token] # None
        /\ auth[login[call[c].token]].key = call[c].key
    BY <1>5 DEF BrokerMint, Honoured, TypeOK
  <2>. QED
    BY <2>1
<1>6. ASSUME NEW c \in Callback, NEW fault \in Faults, BrokerRefuse(c, fault)
      PROVE  Exchanges'
  BY <1>6 DEF BrokerRefuse, TypeOK
<1>7. ASSUME NEW c \in Callback, CompleteStep(c) PROVE Exchanges'
  <2>1. ASSUME NEW state \in Nonce \union Stray, NEW token \in RequestToken,
               NEW k \in ApiKey, Complete(c, state, token, k)
        PROVE  Exchanges'
    <3>1. /\ c \notin posted /\ answer[c] = None
          /\ \A d \in Callback : d # c => call'[d] = call[d] /\ outcome'[d] = outcome[d]
          /\ outcome'[c] = "session" => outcome[c] = "session"
          /\ UNCHANGED <<auth, login, posted, minted, answer>>
      BY <2>1 DEF Complete, Settle, TypeOK, Progress
    <3>. QED
      BY <1>0, <3>1
  <2>2. CASE ExchangeReturn(c)
    <3>1. /\ answer[c] # None
          /\ outcome' = [outcome EXCEPT ![c] = Verdict(c)]
          /\ UNCHANGED <<auth, login, posted, minted, answer, call>>
      BY <2>2 DEF ExchangeReturn, Settle
    <3>2. Verdict(c) = "session" => answer[c].ok /\ answer[c].key = call[c].key
      <4>1. answer[c] \in Answer
        BY <3>1 DEF TypeOK
      <4>2. \A f \in Fault : ErrorCode[f] # "session"
        BY DEF Fault, ErrorCode
      <4>3. CASE answer[c].ok
        BY <4>3 DEF Verdict
      <4>4. CASE ~answer[c].ok
        BY <4>1, <4>2, <4>4 DEF Verdict, Answer
      <4>. QED
        BY <4>3, <4>4
    <3>. QED
      BY <3>1, <3>2 DEF TypeOK
  <2>3. ASSUME NEW failure \in {"timeout", "network", "protocol"},
               ExchangeFail(c, failure)
        PROVE  Exchanges'
    <3>1. ErrorCode[failure] # "session"
      BY DEF ErrorCode
    <3>. QED
      BY <2>3, <3>1 DEF ExchangeFail, Settle, TypeOK
  <2>4. ASSUME NEW a \in Attempt, ConsumeHit(c, a) PROVE Exchanges'
    BY <2>4 DEF ConsumeHit
  <2>5. CASE ConsumeMiss(c) \/ RejectExpired(c) \/ CancelComplete(c)
    BY <2>5 DEF ConsumeMiss, RejectExpired, CancelComplete, Settle, TypeOK
  <2>6. CASE BeginExchange(c) \/ PostExchange(c)
    BY <2>6 DEF BeginExchange, PostExchange
  <2>. QED
    BY <1>7, <2>1, <2>2, <2>3, <2>4, <2>5, <2>6 DEF CompleteStep
<1>. QED
  BY <1>2, <1>3, <1>4, <1>5, <1>6, <1>7 DEF Next, BrokerStep

IInv ==
    TypeOK /\ Progress /\ Custody /\ NoncesUnique /\ Origins /\ Exchanges

LEMMA InductiveInvariant == Spec => []IInv
<1>1. Init => Origins /\ Exchanges
  BY ConstantsAssumption DEF Init, Origins, Exchanges, Outcome
<1>2. TypeOK /\ Progress /\ Custody /\ NoncesUnique /\ Origins /\ Exchanges => IInv
  BY DEF IInv
<1>. QED
  BY <1>1, <1>2, NoncesInvariant, OriginsStep, ExchangesStep, PTL DEF Spec

\* When the nonces are random, a session complete returns is filed under the
\* scope of the start call that issued the presented state, and was minted for
\* this call at a login page of its key, whichever token came with the state.
THEOREM ResultScopedHolds ==
    ASSUME FreshNonces
    PROVE  Spec => []ResultScoped
<1>1. IInv => ResultScoped
  <2> SUFFICES ASSUME IInv, NEW c \in Callback, outcome[c] = "session"
               PROVE  /\ \A a \in Attempt :
                            auth[a] # None /\ auth[a].nonce = call[c].state =>
                                auth[grant[c]].scope = auth[a].scope
                      /\ <<call[c].token, c>> \in minted
                      /\ auth[login[call[c].token]].key = call[c].key
                      /\ answer[c].key = call[c].key
    BY DEF ResultScoped
  <2>1. answer[c].key = call[c].key /\ <<call[c].token, c>> \in minted
    BY DEF IInv, Exchanges
  <2>2. auth[login[call[c].token]].key = call[c].key /\ c \in posted
    BY <2>1 DEF IInv, Exchanges
  <2>3. /\ grant[c] \in Attempt /\ auth[grant[c]] # None
        /\ auth[grant[c]].nonce = call[c].state
    BY <2>2 DEF IInv, TypeOK, Progress, Custody
  <2>4. \A a \in Attempt : auth[a] # None /\ auth[a].nonce = call[c].state => a = grant[c]
    BY <2>3 DEF IInv, NoncesUnique
  <2>. QED
    BY <2>1, <2>2, <2>4
<1>. QED
  BY <1>1, InductiveInvariant, PTL

\* For every stored row the broker mints at most one session, however many
\* logins and redirects follow it and whichever tokens they bring.
THEOREM OneSessionPerAttemptHolds == Spec => []OneSessionPerAttempt
<1>1. IInv => OneSessionPerAttempt
  <2> SUFFICES ASSUME IInv, NEW m \in minted, NEW n \in minted,
                      grant[m[2]] = grant[n[2]]
               PROVE  m = n
    BY DEF OneSessionPerAttempt
  <2>1. /\ m \in RequestToken \X Callback /\ n \in RequestToken \X Callback
        /\ m[2] \in posted /\ m[1] = call[m[2]].token
        /\ n[2] \in posted /\ n[1] = call[n[2]].token
    BY DEF IInv, TypeOK, Exchanges
  <2>2. grant[m[2]] # None
    BY <2>1 DEF IInv, Progress
  <2>3. m[2] = n[2]
    BY <2>1, <2>2 DEF IInv, Custody, SingleUse
  <2>. QED
    BY <2>1, <2>3
<1>. QED
  BY <1>1, InductiveInvariant, PTL

\* When the nonces are random, a call that has not passed the check when its
\* deadline comes ends without having reached the broker, however long it waited
\* for the store: the deadline is compared after consume, with the row of the
\* very start call that issued the state.
THEOREM TimelyExchangeHolds ==
    ASSUME FreshNonces
    PROVE  Spec => TimelyExchange
<1>. DEFINE Ends(c) == completing'[c] = "settled" /\ c \notin posted'
<1>1. ASSUME IInv, [Next]_vars, NEW c \in Callback, Late(c) PROVE Late(c)' \/ Ends(c)
  <2> USE ConstantsAssumption
  <2>1. /\ TypeOK /\ Progress /\ Custody /\ NoncesUnique
        /\ completing[c] \in {"consuming", "consumed"} /\ c \notin posted
        /\ \A a \in Attempt :
              auth[a] # None /\ auth[a].nonce = call[c].state => auth[a].expires_at <= now
    BY <1>1 DEF IInv, Late, Progress
  <2>2. ASSUME completing'[c] \in {"consuming", "consumed"}, call'[c] = call[c],
               UNCHANGED auth, now' \in Nat, now <= now'
        PROVE  Late(c)'
    <3>1. \A a \in Attempt : auth[a] # None => auth[a].expires_at \in Nat
      BY <2>1 DEF TypeOK, Authorization
    <3>2. now \in Nat
      BY <2>1 DEF TypeOK
    <3>. QED
      BY <2>1, <2>2, <3>1, <3>2 DEF Late
  <2>3. CASE Tick \/ BrokerStep \/ UNCHANGED vars
    <3>1. /\ UNCHANGED <<completing, call, auth>> /\ now' \in {now, now + 1} /\ now \in Nat
      BY <2>1, <2>3
      DEF Tick, BrokerStep, BrokerLogin, BrokerMint, BrokerRefuse, startVars, completeVars,
          vars, TypeOK
    <3>. QED
      BY <2>1, <2>2, <3>1
  <2>4. ASSUME NEW a \in Attempt, StartStep(a) PROVE Late(c)'
    <3>1. UNCHANGED <<now, completing, call>> /\ now \in Nat
      BY <2>1, <2>4
      DEF StartStep, Start, StartInvalid, IssueConflict, Issue, CancelStart, completeVars,
          TypeOK
    <3>2. CASE UNCHANGED auth
      BY <2>1, <2>2, <3>1, <3>2
    <3>3. ASSUME NEW s \in Scope, NEW k \in ApiKey, NEW n \in Nonce, Start(a, s, k, n)
          PROVE  Late(c)'
      <4>1. /\ \A b \in Attempt \ {a} : auth'[b] = auth[b]
            /\ auth'[a].nonce = n
            /\ \A b \in Attempt : auth[b] # None => auth[b].nonce # n
        BY <2>1, <3>3 DEF Start, Issued, TypeOK
      <4>2. n # call[c].state
        <5>1. \/ call[c].state \in Stray
              \/ \E b \in Attempt : starting[b] = "started" /\ auth[b].nonce = call[c].state
          BY <1>1, <2>1 DEF IInv, Origins, Progress
        <5>2. \A b \in Attempt : starting[b] = "started" => auth[b] # None
          BY <2>1 DEF Custody
        <5>. QED
          BY <4>1, <5>1, <5>2
      <4>. QED
        BY <2>1, <3>1, <4>1, <4>2 DEF Late
    <3>. QED
      BY <2>4, <3>2, <3>3
      DEF StartStep, StartInvalid, IssueConflict, Issue, CancelStart
  <2>5. ASSUME NEW d \in Callback \ {c}, CompleteStep(d) PROVE Late(c)'
    <3>1. /\ completing'[c] = completing[c] /\ call'[c] = call[c]
          /\ UNCHANGED <<now, auth>> /\ now \in Nat
      BY <2>1, <2>5
      DEF CompleteStep, Complete, ConsumeHit, ConsumeMiss, RejectExpired, BeginExchange,
          PostExchange, ExchangeReturn, ExchangeFail, CancelComplete, Settle, startVars, TypeOK
    <3>. QED
      BY <2>1, <2>2, <3>1
  <2>6. CASE CompleteStep(c)
    <3>1. ASSUME NEW a \in Attempt, ConsumeHit(c, a) PROVE Late(c)'
      <4>1. completing'[c] = "consumed" /\ UNCHANGED <<now, auth, call>> /\ now \in Nat
        BY <2>1, <3>1 DEF ConsumeHit, startVars, TypeOK
      <4>. QED
        BY <2>1, <2>2, <4>1
    <3>2. ~BeginExchange(c)
      <4>1. ASSUME BeginExchange(c) PROVE FALSE
        <5>1. /\ grant[c] \in Attempt /\ auth[grant[c]] # None
              /\ auth[grant[c]].nonce = call[c].state
          BY <2>1, <4>1 DEF BeginExchange, TypeOK, Progress, Custody
        <5>. QED
          BY <2>1, <4>1, <5>1 DEF BeginExchange, Expired
      <4>. QED
        BY <4>1
    <3>3. ConsumeMiss(c) \/ RejectExpired(c) \/ CancelComplete(c) => Ends(c)
      BY <2>1 DEF ConsumeMiss, RejectExpired, CancelComplete, Settle, TypeOK
    <3>4. ~PostExchange(c) /\ ~ExchangeReturn(c)
      BY <2>1 DEF PostExchange, ExchangeReturn
    <3>5. \A failure : ~ExchangeFail(c, failure)
      BY <2>1 DEF ExchangeFail
    <3>6. \A state, token, k : ~Complete(c, state, token, k)
      BY <2>1 DEF Complete
    <3>. QED
      BY <2>6, <3>1, <3>2, <3>3, <3>4, <3>5, <3>6 DEF CompleteStep
  <2>. QED
    BY <1>1, <2>3, <2>4, <2>5, <2>6 DEF Next
<1>2. IInv /\ [Next]_vars =>
         [\A c \in Callback : Late(c) =>
             \/ Late(c)'
             \/ completing'[c] = "settled" /\ c \notin posted']_vars
  BY <1>1
<1>. QED
  BY <1>2, InductiveInvariant, PTL DEF Spec, TimelyExchange

-----------------------------------------------------------------------------
(* How calls end.                                                          *)

EarlyRefusal == {"auth.state_invalid", "auth.state_expired", "ValueError"}
BrokerRefusal == {"auth.exchange_rejected", "provider.rate_limit"}

\* What a finished start call stored is stored until a callback took it.
Stored ==
    /\ \A a \in Attempt : auth[a] # None => auth[a].nonce \notin Malformed
    /\ \A a \in Attempt : starting[a] = "started" =>
          a \in pending \/ \E d \in Callback : grant[d] = a

\* A call that was refused before its request was sent never sends one, and
\* one that the broker refused was not honoured before or after.
Refusals ==
    /\ \A c \in Callback : outcome[c] # None => completing[c] = "settled"
    /\ \A m \in minted : answer[m[2]] # None /\ answer[m[2]] \in MintAnswer
    /\ \A c \in Callback : outcome[c] \in EarlyRefusal => c \notin posted
    /\ \A c \in Callback : outcome[c] \in BrokerRefusal =>
          answer[c] # None /\ ~answer[c].ok /\ answer[c].fault \in {"rejected", "throttled"}

LEMMA StoredStep == IInv /\ Stored /\ [Next]_vars => Stored'
<1> SUFFICES ASSUME IInv, Stored, [Next]_vars PROVE Stored'
  OBVIOUS
<1> USE ConstantsAssumption DEF Stored, startVars, completeVars
<1>1. TypeOK /\ Progress /\ Custody
  BY DEF IInv
<1>2. UNCHANGED <<auth, starting, pending, grant>> => Stored'
  OBVIOUS
<1>3. Tick \/ BrokerStep \/ UNCHANGED vars => Stored'
  BY <1>2 DEF Tick, BrokerStep, BrokerLogin, BrokerMint, BrokerRefuse, vars
<1>4. ASSUME NEW a \in Attempt, StartStep(a) PROVE Stored'
  <2>1. ASSUME NEW s \in Scope, NEW k \in ApiKey, NEW n \in Nonce, Start(a, s, k, n)
        PROVE  Stored'
    <3>1. /\ \A b \in Attempt \ {a} : auth'[b] = auth[b] /\ starting'[b] = starting[b]
          /\ auth'[a].nonce \notin Malformed /\ starting'[a] = "issuing"
          /\ UNCHANGED <<pending, grant>>
      BY <1>1, <2>1 DEF Start, TypeOK
    <3>. QED
      BY <3>1
  <2>2. ASSUME NEW end \in {"started", "failed"}, Issue(a, end) PROVE Stored'
    BY <1>1, <2>2 DEF Issue, TypeOK
  <2>3. CASE StartInvalid(a) \/ IssueConflict(a) \/ CancelStart(a)
    BY <1>1, <2>3 DEF StartInvalid, IssueConflict, CancelStart, TypeOK
  <2>. QED
    BY <1>4, <2>1, <2>2, <2>3 DEF StartStep
<1>5. ASSUME NEW c \in Callback, CompleteStep(c) PROVE Stored'
  <2>1. ASSUME NEW a \in Attempt, ConsumeHit(c, a) PROVE Stored'
    <3>1. /\ pending' = pending \ {a} /\ grant'[c] = a /\ grant[c] = None
          /\ \A d \in Callback \ {c} : grant'[d] = grant[d]
          /\ UNCHANGED <<auth, starting>>
      BY <1>1, <2>1 DEF ConsumeHit, TypeOK, Progress
    <3>. QED
      BY <3>1
  <2>. QED
    BY <1>2, <1>5, <2>1
    DEF CompleteStep, Complete, ConsumeMiss, RejectExpired, BeginExchange, PostExchange,
        ExchangeReturn, ExchangeFail, CancelComplete
<1>. QED
  BY <1>3, <1>4, <1>5 DEF Next

LEMMA RefusalsStep == IInv /\ Refusals /\ [Next]_vars => Refusals'
<1> SUFFICES ASSUME IInv, Refusals, [Next]_vars PROVE Refusals'
  OBVIOUS
<1> USE ConstantsAssumption DEF Refusals, brokerVars, completeVars
<1>1. TypeOK /\ Progress /\ Custody /\ Exchanges
  BY DEF IInv
<1>2. UNCHANGED <<completing, posted, minted, answer, outcome>> => Refusals'
  OBVIOUS
<1>3. Tick \/ UNCHANGED vars => Refusals'
  BY <1>2 DEF Tick, vars
<1>4. ASSUME NEW a \in Attempt, StartStep(a) PROVE Refusals'
  BY <1>2, <1>4 DEF StartStep, Start, StartInvalid, IssueConflict, Issue, CancelStart
<1>5. CASE BrokerStep
  <2>1. ASSUME NEW c \in Callback, NEW reply \in MintAnswer, BrokerMint(c, reply)
        PROVE  Refusals'
    <3>1. /\ answer[c] = None /\ answer'[c] = reply
          /\ \A d \in Callback \ {c} : answer'[d] = answer[d]
          /\ minted' = minted \union {<<call[c].token, c>>}
          /\ UNCHANGED <<completing, posted, outcome>>
      BY <1>1, <2>1 DEF BrokerMint, TypeOK
    <3>2. reply # None
      BY DEF MintAnswer, Answer, Fault
    <3>3. \A m \in minted : m[2] \in Callback
      BY <1>1 DEF TypeOK
    <3>. QED
      BY <3>1, <3>2, <3>3
  <2>2. ASSUME NEW c \in Callback, NEW fault \in Faults, BrokerRefuse(c, fault)
        PROVE  Refusals'
    <3>1. /\ answer[c] = None
          /\ \A d \in Callback \ {c} : answer'[d] = answer[d]
          /\ UNCHANGED <<completing, posted, minted, outcome>>
      BY <1>1, <2>2 DEF BrokerRefuse, TypeOK
    <3>2. \A m \in minted : m[2] \in Callback
      BY <1>1 DEF TypeOK
    <3>. QED
      BY <3>1, <3>2
  <2>3. ASSUME NEW t \in RequestToken, NEW a \in Attempt, BrokerLogin(t, a)
        PROVE  Refusals'
    BY <1>2, <2>3 DEF BrokerLogin
  <2>. QED
    BY <1>5, <2>1, <2>2, <2>3 DEF BrokerStep
<1>6. ASSUME NEW c \in Callback, CompleteStep(c) PROVE Refusals'
  <2>1. ASSUME NEW how, outcome' = [outcome EXCEPT ![c] = how],
               completing' = [completing EXCEPT ![c] = "settled"],
               UNCHANGED <<posted, minted, answer>>,
               how \in EarlyRefusal => c \notin posted,
               how \in BrokerRefusal =>
                   answer[c] # None /\ ~answer[c].ok
                     /\ answer[c].fault \in {"rejected", "throttled"}
        PROVE  Refusals'
    BY <1>1, <2>1 DEF TypeOK
  <2>2. ASSUME completing[c] # "settled", UNCHANGED <<minted, answer, outcome>>,
               posted' \subseteq posted \union {c},
               NEW at, completing' = [completing EXCEPT ![c] = at]
        PROVE  Refusals'
    <3>1. outcome[c] = None
      BY <2>2
    <3>2. None \notin EarlyRefusal \union BrokerRefusal
      BY DEF EarlyRefusal, BrokerRefusal, Outcome, ErrorCode
    <3>. QED
      BY <1>1, <2>2, <3>1, <3>2 DEF TypeOK
  <2>3. completing[c] \in {"idle", "consuming", "consumed", "sending"} => c \notin posted
    BY <1>1 DEF Progress
  <2>4. ASSUME NEW state \in Nonce \union Stray, NEW token \in RequestToken,
               NEW k \in ApiKey, Complete(c, state, token, k)
        PROVE  Refusals'
    <3>1. completing[c] = "idle" /\ UNCHANGED <<posted, minted, answer>>
      BY <2>4 DEF Complete
    <3>2. \/ \E how \in {"auth.state_invalid", "ValueError"} : Settle(c, how)
          \/ completing' = [completing EXCEPT ![c] = "consuming"] /\ UNCHANGED outcome
      BY <2>4 DEF Complete
    <3>. QED
      BY <2>1, <2>2, <2>3, <3>1, <3>2 DEF Settle, EarlyRefusal, BrokerRefusal
  <2>5. ASSUME NEW a \in Attempt, ConsumeHit(c, a) PROVE Refusals'
    BY <2>2, <2>5 DEF ConsumeHit
  <2>6. CASE BeginExchange(c) \/ PostExchange(c)
    BY <2>2, <2>6 DEF BeginExchange, PostExchange
  <2>7. CASE ConsumeMiss(c)
    BY <2>1, <2>3, <2>7 DEF ConsumeMiss, Settle, EarlyRefusal, BrokerRefusal
  <2>8. CASE RejectExpired(c)
    BY <2>1, <2>3, <2>8 DEF RejectExpired, Settle, EarlyRefusal, BrokerRefusal
  <2>9. CASE CancelComplete(c)
    BY <2>1, <2>9 DEF CancelComplete, Settle, EarlyRefusal, BrokerRefusal
  <2>10. ASSUME NEW failure \in {"timeout", "network", "protocol"}, ExchangeFail(c, failure)
         PROVE  Refusals'
    <3>1. ErrorCode[failure] \notin EarlyRefusal \union BrokerRefusal
      BY DEF ErrorCode, EarlyRefusal, BrokerRefusal
    <3>. QED
      BY <2>1, <2>10, <3>1 DEF ExchangeFail, Settle
  <2>11. CASE ExchangeReturn(c)
    <3>1. answer[c] \in Answer /\ answer[c] # None
      BY <1>1, <2>11 DEF ExchangeReturn, TypeOK
    <3>2. CASE answer[c].ok
      <4>1. Verdict(c) \in {"provider.api_key_mismatch", "session"}
        BY <3>2 DEF Verdict
      <4>2. Verdict(c) \notin EarlyRefusal \union BrokerRefusal
        BY <4>1 DEF EarlyRefusal, BrokerRefusal
      <4>. QED
        BY <2>1, <2>11, <4>2 DEF ExchangeReturn, Settle
    <3>3. CASE ~answer[c].ok
      <4>1. answer[c].fault \in Fault /\ Verdict(c) = ErrorCode[answer[c].fault]
        BY <3>1, <3>3 DEF Verdict, Answer
      <4>2. \A f \in Fault : /\ ErrorCode[f] \notin EarlyRefusal
                             /\ ErrorCode[f] \in BrokerRefusal => f \in {"rejected", "throttled"}
        BY DEF Fault, ErrorCode, EarlyRefusal, BrokerRefusal
      <4>. QED
        BY <2>1, <2>11, <3>1, <3>3, <4>1, <4>2 DEF ExchangeReturn, Settle
    <3>. QED
      BY <3>2, <3>3
  <2>. QED
    BY <1>6, <2>4, <2>5, <2>6, <2>7, <2>8, <2>9, <2>10, <2>11 DEF CompleteStep
<1>. QED
  BY <1>3, <1>4, <1>5, <1>6 DEF Next

LEMMA EndingsInvariant == Spec => [](IInv /\ Stored /\ Refusals)
<1>1. Init => Stored /\ Refusals
  <2>1. None \notin EarlyRefusal \union BrokerRefusal
    BY ConstantsAssumption DEF EarlyRefusal, BrokerRefusal, Outcome, ErrorCode
  <2>. QED
    BY <2>1 DEF Init, Stored, Refusals
<1>. QED
  BY <1>1, InductiveInvariant, StoredStep, RefusalsStep, PTL DEF Spec

\* A call that ended in a refusal left no session behind at the broker, neither
\* before it was refused nor after (complete and exchange).
THEOREM RefusalIsSideEffectFreeHolds == Spec => []RefusalIsSideEffectFree
<1>1. IInv /\ Refusals => RefusalIsSideEffectFree
  <2> SUFFICES ASSUME IInv, Refusals, NEW c \in Callback, NEW t \in RequestToken,
                      outcome[c] \in EarlyRefusal \union BrokerRefusal,
                      <<t, c>> \in minted
               PROVE  FALSE
    BY DEF RefusalIsSideEffectFree, EarlyRefusal, BrokerRefusal
  <2>1. c \in posted
    BY DEF IInv, Exchanges
  <2>2. outcome[c] \in BrokerRefusal
    BY <2>1 DEF Refusals
  <2>3. ~answer[c].ok /\ answer[c].fault \in {"rejected", "throttled"}
    BY <2>2 DEF Refusals
  <2>4. answer[c] \in MintAnswer
    BY DEF Refusals
  <2>. QED
    BY <2>3, <2>4 DEF MintAnswer
<1>. QED
  BY <1>1, EndingsInvariant, PTL

\* A call is told that its state is invalid when the row of its login is gone, and
\* then another call holds it and keeps it.
LEMMA OrphanStep ==
    IInv /\ Stored /\ Refusals /\ LoginNeverOrphaned /\ [Next]_vars => LoginNeverOrphaned'
<1> SUFFICES ASSUME IInv, Stored, Refusals, LoginNeverOrphaned, [Next]_vars
             PROVE  LoginNeverOrphaned'
  OBVIOUS
<1> USE ConstantsAssumption
<1>1. TypeOK /\ Progress /\ Custody /\ Origins
  BY DEF IInv
<1>2. ASSUME NEW d \in Callback, grant[d] # None
      PROVE  grant'[d] # None /\ call'[d] = call[d]
  <2>1. completing[d] \notin {"idle", "consuming"}
    BY <1>1, <1>2 DEF Progress
  <2>2. Tick \/ BrokerStep \/ UNCHANGED vars => UNCHANGED <<grant, call>>
    BY DEF Tick, BrokerStep, BrokerLogin, BrokerMint, BrokerRefuse, completeVars, vars
  <2>3. ASSUME NEW a \in Attempt, StartStep(a) PROVE UNCHANGED <<grant, call>>
    BY <2>3
    DEF StartStep, Start, StartInvalid, IssueConflict, Issue, CancelStart, completeVars
  <2>4. ASSUME NEW c \in Callback, CompleteStep(c)
        PROVE  grant'[d] = grant[d] /\ call'[d] = call[d]
    BY <1>1, <2>1, <2>4
    DEF CompleteStep, Complete, ConsumeHit, ConsumeMiss, RejectExpired, BeginExchange, PostExchange,
        ExchangeReturn, ExchangeFail, CancelComplete, TypeOK
  <2>. QED
    BY <1>2, <2>2, <2>3, <2>4 DEF Next
<1>3. ASSUME NEW c \in Callback, outcome'[c] = "auth.state_invalid",
             outcome[c] = "auth.state_invalid", call'[c].state \notin Stray
      PROVE  \E d \in Callback \ {c} : grant'[d] # None /\ call'[d].state = call'[c].state
  <2>1. completing[c] = "settled"
    BY <1>3 DEF Refusals, Outcome
  <2>2. call'[c] = call[c]
    <3>1. Tick \/ BrokerStep \/ UNCHANGED vars => UNCHANGED call
      BY DEF Tick, BrokerStep, BrokerLogin, BrokerMint, BrokerRefuse, completeVars, vars
    <3>2. ASSUME NEW a \in Attempt, StartStep(a) PROVE UNCHANGED call
      BY <3>2
      DEF StartStep, Start, StartInvalid, IssueConflict, Issue, CancelStart, completeVars
    <3>3. ASSUME NEW d \in Callback, CompleteStep(d) PROVE call'[c] = call[c]
      BY <1>1, <2>1, <3>3
      DEF CompleteStep, Complete, ConsumeHit, ConsumeMiss, RejectExpired, BeginExchange,
          PostExchange, ExchangeReturn, ExchangeFail, CancelComplete, TypeOK
    <3>. QED
      BY <3>1, <3>2, <3>3 DEF Next
  <2>3. PICK d \in Callback \ {c} : grant[d] # None /\ call[d].state = call[c].state
    BY <1>3, <2>2 DEF LoginNeverOrphaned
  <2>. QED
    BY <1>2, <2>2, <2>3
<1>4. ASSUME NEW c \in Callback, outcome'[c] = "auth.state_invalid",
             outcome[c] # "auth.state_invalid", call'[c].state \notin Stray
      PROVE  \E d \in Callback \ {c} : grant'[d] # None /\ call'[d].state = call'[c].state
  <2>1. \/ ConsumeMiss(c)
        \/ \E state \in Nonce \union Stray, token \in RequestToken, k \in ApiKey :
              Complete(c, state, token, k) /\ state \in Malformed
    <3>1. Tick \/ BrokerStep \/ UNCHANGED vars => UNCHANGED outcome
      BY DEF Tick, BrokerStep, BrokerLogin, BrokerMint, BrokerRefuse, completeVars, vars
    <3>2. ASSUME NEW a \in Attempt, StartStep(a) PROVE UNCHANGED outcome
      BY <3>2
      DEF StartStep, Start, StartInvalid, IssueConflict, Issue, CancelStart, completeVars
    <3>3. PICK d \in Callback : CompleteStep(d)
      BY <1>4, <3>1, <3>2 DEF Next
    <3>4. d = c
      BY <1>1, <1>4, <3>3
      DEF CompleteStep, Complete, ConsumeHit, ConsumeMiss, RejectExpired, BeginExchange,
          PostExchange, ExchangeReturn, ExchangeFail, CancelComplete, Settle, TypeOK
    <3>5. ExchangeReturn(c) => outcome'[c] = Verdict(c) /\ Verdict(c) # "auth.state_invalid"
      <4> SUFFICES ASSUME ExchangeReturn(c)
                   PROVE  outcome'[c] = Verdict(c) /\ Verdict(c) # "auth.state_invalid"
        OBVIOUS
      <4>1. outcome'[c] = Verdict(c) /\ answer[c] \in Answer
        BY <1>1 DEF ExchangeReturn, Settle, TypeOK
      <4>2. \A f \in Fault : ErrorCode[f] # "auth.state_invalid"
        BY DEF Fault, ErrorCode
      <4>3. CASE answer[c].ok
        BY <4>1, <4>3 DEF Verdict
      <4>4. CASE ~answer[c].ok
        BY <4>1, <4>2, <4>4 DEF Verdict, Answer
      <4>. QED
        BY <4>3, <4>4
    <3>6. ASSUME NEW failure \in {"timeout", "network", "protocol"}, ExchangeFail(c, failure)
          PROVE  outcome'[c] # "auth.state_invalid"
      BY <1>1, <3>6 DEF ExchangeFail, Settle, ErrorCode, TypeOK
    <3>7. RejectExpired(c) \/ CancelComplete(c) \/ BeginExchange(c) \/ PostExchange(c)
             \/ (\E a \in Attempt : ConsumeHit(c, a)) => outcome'[c] # "auth.state_invalid"
      BY <1>1, <1>4
      DEF RejectExpired, CancelComplete, BeginExchange, PostExchange, ConsumeHit, Settle, TypeOK
    <3>8. ASSUME NEW state \in Nonce \union Stray, NEW token \in RequestToken,
                 NEW k \in ApiKey, Complete(c, state, token, k)
          PROVE  state \in Malformed
      BY <1>1, <1>4, <3>8 DEF Complete, Settle, TypeOK
    <3>. QED
      BY <1>4, <3>3, <3>4, <3>5, <3>6, <3>7, <3>8 DEF CompleteStep
  <2>2. ASSUME NEW state \in Nonce \union Stray, NEW token \in RequestToken, NEW k \in ApiKey,
               Complete(c, state, token, k), state \in Malformed
        PROVE  FALSE
    <3>1. call'[c].state = state
      BY <1>1, <2>2 DEF Complete, TypeOK
    <3>2. PICK a \in Attempt : starting[a] = "started" /\ auth[a].nonce = state
      BY <1>4, <2>2, <3>1 DEF Complete, Redirects
    <3>. QED
      BY <1>1, <2>2, <3>2 DEF Stored, Custody
  <2>3. CASE ConsumeMiss(c)
    <3>1. /\ completing[c] = "consuming" /\ UNCHANGED <<call, grant>>
          /\ \A a \in pending : auth[a].nonce # call[c].state
      BY <2>3 DEF ConsumeMiss, Matches, Digest
    <3>2. PICK a \in Attempt : starting[a] = "started" /\ auth[a].nonce = call[c].state
      BY <1>1, <1>4, <3>1 DEF Origins
    <3>3. PICK d \in Callback : grant[d] = a
      BY <3>1, <3>2 DEF Stored
    <3>4. d # c /\ grant[d] # None
      BY <1>1, <3>1, <3>3 DEF Progress
    <3>5. call[d].state = call[c].state
      BY <1>1, <3>2, <3>3, <3>4 DEF Custody
    <3>. QED
      BY <3>1, <3>4, <3>5
  <2>. QED
    BY <2>1, <2>2, <2>3
<1>. QED
  BY <1>3, <1>4 DEF LoginNeverOrphaned

\* The redirect of a login whose start call returned is refused as invalid only
\* if another call consumed its state (start stores before it returns).
THEOREM LoginNeverOrphanedHolds == Spec => []LoginNeverOrphaned
<1>1. Init => LoginNeverOrphaned
  BY ConstantsAssumption DEF Init, LoginNeverOrphaned, Outcome
<1>. QED
  BY <1>1, EndingsInvariant, OrphanStep, PTL DEF Spec

-----------------------------------------------------------------------------
(* Progress.                                                               *)

Stages == <<"idle", "consuming", "consumed", "sending", "exchanging", "settled">>
After(from, to) == \E i, j \in 1 .. 6 : i < j /\ Stages[i] = from /\ Stages[j] = to

Forward(c) == After(completing[c], completing'[c])
Kept(c) ==
    /\ completing'[c] = completing[c] /\ call'[c] = call[c]
    /\ grant'[c] = grant[c] /\ outcome'[c] = outcome[c]
Advance == \A c \in Callback : Forward(c) \/ Kept(c)

\* A call of complete only goes forward, and what it received, holds and
\* answered changes with its stage only: the answer of a settled call stands,
\* whatever the broker does or the redirect brings later.  A call takes at
\* most five steps, which is what CallbackSettles needs beside fairness.
THEOREM CallbackAdvances == Spec => [][Advance]_vars
<1>1. /\ \A from \in {"idle", "consuming", "consumed", "sending", "exchanging"} :
            After(from, "settled")
      /\ After("idle", "consuming") /\ After("consuming", "consumed")
      /\ After("consumed", "sending") /\ After("sending", "exchanging")
  <2>1. /\ Stages[1] = "idle" /\ Stages[2] = "consuming" /\ Stages[3] = "consumed"
        /\ Stages[4] = "sending" /\ Stages[5] = "exchanging" /\ Stages[6] = "settled"
    BY DEF Stages
  <2>. QED
    BY <2>1 DEF After
<1>2. ASSUME TypeOK, NEW c \in Callback, CompleteStep(c) PROVE Forward(c)
  <2>1. DOMAIN completing = Callback
    BY <1>2 DEF TypeOK
  <2>2. ASSUME NEW state \in Nonce \union Stray, NEW token \in RequestToken, NEW k \in ApiKey,
               Complete(c, state, token, k)
        PROVE  Forward(c)
    BY <1>1, <2>1, <2>2 DEF Complete, Settle, Forward
  <2>3. ASSUME NEW a \in Attempt, ConsumeHit(c, a) PROVE Forward(c)
    BY <1>1, <2>1, <2>3 DEF ConsumeHit, Forward
  <2>4. CASE BeginExchange(c) \/ PostExchange(c)
    BY <1>1, <2>1, <2>4 DEF BeginExchange, PostExchange, Forward
  <2>5. ASSUME \/ ConsumeMiss(c) \/ RejectExpired(c) \/ ExchangeReturn(c) \/ CancelComplete(c)
               \/ \E failure \in {"timeout", "network", "protocol"} : ExchangeFail(c, failure)
        PROVE  Forward(c)
    <3>1. /\ completing[c] \in {"consuming", "consumed", "sending", "exchanging"}
          /\ completing'[c] = "settled"
      BY <2>1, <2>5
      DEF ConsumeMiss, RejectExpired, ExchangeReturn, CancelComplete, ExchangeFail, Settle
    <3>. QED
      BY <1>1, <3>1 DEF Forward
  <2>. QED
    BY <1>2, <2>2, <2>3, <2>4, <2>5 DEF CompleteStep
<1>3. ASSUME TypeOK, NEW c \in Callback, NEW d \in Callback \ {c}, CompleteStep(d) PROVE Kept(c)
  BY <1>3
  DEF CompleteStep, Complete, ConsumeHit, ConsumeMiss, RejectExpired, BeginExchange, PostExchange,
      ExchangeReturn, ExchangeFail, CancelComplete, Settle, TypeOK, Kept
<1>4. ASSUME Tick \/ BrokerStep \/ (\E a \in Attempt : StartStep(a)), NEW c \in Callback
      PROVE  Kept(c)
  BY <1>4
  DEF Tick, BrokerStep, BrokerLogin, BrokerMint, BrokerRefuse, StartStep, Start, StartInvalid,
      IssueConflict, Issue, CancelStart, completeVars, Kept
<1>5. TypeOK /\ [Next]_vars => [Advance]_vars
  <2> SUFFICES ASSUME TypeOK, Next, NEW c \in Callback
               PROVE  Forward(c) \/ Kept(c)
    BY DEF Advance
  <2>1. ASSUME NEW d \in Callback, CompleteStep(d) PROVE Forward(c) \/ Kept(c)
    BY <1>2, <1>3, <2>1
  <2>. QED
    BY <1>4, <2>1 DEF Next
<1>. QED
  BY <1>5, TypeCorrect, PTL DEF Spec

-----------------------------------------------------------------------------
(* Refinement.                                                             *)

\* The service implements one-time grants: every step of every call is a step
\* of the abstract specification or leaves it alone.
THEOREM Implementation == Spec => ImplementsOneTimeGrant
<1>1. Init => OTG!Init
  BY DEF Init, OTG!Init, taken, redeemed
<1>2. TypeOK /\ Progress /\ Custody /\ [Next]_vars => [OTG!Next]_OTG!vars
  <2> SUFFICES ASSUME TypeOK, Progress, Custody, [Next]_vars
               PROVE  [OTG!Next]_OTG!vars
    OBVIOUS
  <2> USE ConstantsAssumption DEF startVars, brokerVars, completeVars
  <2>1. UNCHANGED <<pending, grant, posted>> => UNCHANGED OTG!vars
    BY DEF OTG!vars, taken, redeemed
  <2>2. ASSUME NEW a \in Attempt, NEW end \in {"started", "failed"}, Issue(a, end)
        PROVE  OTG!Open(a)
    <3>1. a \notin pending /\ \A c \in Callback : grant[c] # a
      BY <2>2 DEF Issue, Custody
    <3>2. OTG!Takers(a) = {}
      BY <3>1 DEF OTG!Takers, taken
    <3>3. UNCHANGED <<taken, redeemed>>
      BY <2>2 DEF Issue, taken, redeemed
    <3>. QED
      BY <2>2, <3>1, <3>2, <3>3 DEF Issue, OTG!Open
  <2>3. ASSUME NEW a \in Attempt, NEW c \in Callback, ConsumeHit(c, a)
        PROVE  OTG!Take(a, c)
    <3>1. grant[c] = None /\ c \notin posted /\ a # None
      BY <2>3 DEF ConsumeHit, Progress
    <3>2. /\ grant'[c] = a /\ \A d \in Callback : d # c => grant'[d] = grant[d]
          /\ posted' = posted
      BY <2>3 DEF ConsumeHit, TypeOK
    <3>3. OTG!Holdings(c) = {}
      BY <3>1 DEF OTG!Holdings, taken
    <3>4. taken' = taken \union {<<a, c>>}
      BY <3>1, <3>2 DEF taken
    <3>5. redeemed' = redeemed
      BY <3>1, <3>2 DEF redeemed, TypeOK
    <3>. QED
      BY <2>3, <3>3, <3>4, <3>5 DEF ConsumeHit, OTG!Take
  <2>4. ASSUME NEW c \in Callback, PostExchange(c)
        PROVE  grant[c] \in Attempt /\ OTG!Redeem(grant[c], c)
    <3>1. grant[c] \in Attempt /\ grant[c] # None /\ c \notin posted
      BY <2>4 DEF PostExchange, Progress, TypeOK
    <3>2. <<grant[c], c>> \in taken
      BY <3>1 DEF taken
    <3>3. <<grant[c], c>> \notin redeemed
      BY <3>1 DEF redeemed
    <3>4. redeemed' = redeemed \union {<<grant[c], c>>}
      BY <2>4 DEF PostExchange, redeemed
    <3>5. UNCHANGED <<pending, taken>>
      BY <2>4 DEF PostExchange, taken
    <3>. QED
      BY <3>1, <3>2, <3>3, <3>4, <3>5 DEF OTG!Redeem
  <2>5. Tick \/ BrokerStep \/ UNCHANGED vars => UNCHANGED <<pending, grant, posted>>
    BY DEF Tick, BrokerStep, BrokerLogin, BrokerMint, BrokerRefuse, vars
  <2>6. ASSUME NEW a \in Attempt, StartStep(a)
        PROVE  UNCHANGED <<pending, grant, posted>> \/ OTG!Open(a)
    BY <2>2, <2>6 DEF StartStep, Start, StartInvalid, IssueConflict, CancelStart
  <2>7. ASSUME NEW c \in Callback, CompleteStep(c)
        PROVE  \/ UNCHANGED <<pending, grant, posted>>
               \/ \E a \in Attempt : OTG!Take(a, c) \/ OTG!Redeem(a, c)
    BY <2>3, <2>4, <2>7
    DEF CompleteStep, Complete, ConsumeMiss, RejectExpired, BeginExchange, ExchangeReturn,
        ExchangeFail, CancelComplete
  <2>. QED
    BY <2>1, <2>5, <2>6, <2>7 DEF Next, OTG!Next
<1>. QED
  BY <1>1, <1>2, CustodyInvariant, PTL DEF Spec, ImplementsOneTimeGrant, OTG!Spec

=============================================================================
