-------------------------- MODULE LoginTransactions --------------------------
(***************************************************************************)
(* KiteAuthorizationService (connectors/zerodha_auth.py) over              *)
(* SqlAlchemyAuthorizationNonceStore (persistence/nonce_store.py): start   *)
(* and complete run inside the database transactions of their callers, and *)
(* complete exchanges the request token after it consumed the nonce.       *)
(*                                                                         *)
(* The repository has no code between the two yet.  A session in Spanning  *)
(* has a caller whose transaction spans the whole call; the others commit  *)
(* each store call before the service goes on.  Begin, Commit, Rollback    *)
(* and the rest of the engine are those of SqlNonceStore.                  *)
(***************************************************************************)
EXTENDS SqlNonceStore

CONSTANTS
    Login,     \* logins at the broker; each mints a request token
    Spanning   \* sessions whose transaction spans a whole call of the service

VARIABLES
    serving,    \* Session -> the service call under way, or Idle
    link,       \* nonces whose login URL a user has
    login,      \* Login -> the nonce of the URL it was made at, or None
    honoured,   \* logins whose request token the broker exchanged
    succeeded,  \* what complete returned: the login, the row it consumed, the session
    results,    \* Session -> what complete returned in its open transaction
    committed   \* what complete returned in transactions that were committed

serviceVars == <<serving, link, login, honoured, succeeded, results, committed>>
loginVars == <<vars, serviceVars>>

ASSUME LoginAssumption == Spanning \subseteq Session /\ None \notin Session \union Nonce

Idle == [stage |-> "idle"]
Stage(s) == serving[s].stage
At(s, stage, login_, n) ==
    serving' = [serving EXCEPT ![s] = [stage |-> stage, login |-> login_, row |-> n]]
Leave(s) == serving' = [serving EXCEPT ![s] = Idle]

\* Mutant: the service goes on before the nonce is written or deleted for good.
MayGoOnEarly(s) == s \in Session

\* The caller lets the service go on: inside its transaction, or after it.
MayGoOn(s) == s \in Spanning \/ txn[s] = "none"

LoginInit ==
    /\ Init
    /\ serving = [s \in Session |-> Idle]
    /\ link = {}
    /\ login = [l \in Login |-> None]
    /\ honoured = {}
    /\ succeeded = {}
    /\ results = [s \in Session |-> {}]
    /\ committed = {}

-----------------------------------------------------------------------------
(* start                                                                   *)

StartCall(s, n) ==
    /\ serving[s] = Idle
    /\ Issue(s, n)
    /\ At(s, "start", None, n)
    /\ UNCHANGED <<link, login, honoured, succeeded, results, committed>>

StartFlushed(s, n) ==
    /\ FlushInsert(s, n)
    /\ At(s, "flushed", None, n)
    /\ UNCHANGED <<link, login, honoured, succeeded, results, committed>>

StartRaises(s, n) ==
    /\ FlushIntegrityError(s, n) \/ FlushDenied(s, n)
    /\ Leave(s)
    /\ UNCHANGED <<link, login, honoured, succeeded, results, committed>>

\* start returns the login URL.
StartReturns(s) ==
    /\ Stage(s) = "flushed"
    /\ MayGoOn(s)
    /\ link' = link \union {serving[s].row}
    /\ Leave(s)
    /\ UNCHANGED <<vars, login, honoured, succeeded, results, committed>>

\* The user logs in; every login mints a request token for its redirect.
UserLogin(l, n) ==
    /\ login[l] = None
    /\ n \in link
    /\ login' = [login EXCEPT ![l] = n]
    /\ UNCHANGED <<vars, serving, link, honoured, succeeded, results, committed>>

-----------------------------------------------------------------------------
(* complete                                                                *)

\* The redirect of a login arrives, any number of times.
CompleteCall(s, l) ==
    /\ serving[s] = Idle
    /\ login[l] # None
    /\ Consume(s, DigestOf[login[l]])
    /\ At(s, "complete", l, None)
    /\ UNCHANGED <<link, login, honoured, succeeded, results, committed>>

CompleteConsumed(s, n) ==
    /\ DeleteReturning(s, n)
    /\ At(s, "consumed", serving[s].login, n)
    /\ UNCHANGED <<link, login, honoured, succeeded, results, committed>>

CompleteRefused(s) ==
    /\ DeleteNothing(s)
    /\ Leave(s)
    /\ UNCHANGED <<link, login, honoured, succeeded, results, committed>>

Exchanging(s, l) == Stage(s) = "consumed" /\ serving[s].login = l /\ MayGoOn(s)

\* The broker exchanges the request token, once, and complete returns.
ExchangeSucceeds(s, l) ==
    LET result == [login |-> l, row |-> serving[s].row, by |-> s]
    IN  /\ Exchanging(s, l)
        /\ l \notin honoured
        /\ honoured' = honoured \union {l}
        /\ succeeded' = succeeded \union {result}
        /\ IF txn[s] = "none"
             THEN committed' = committed \union {result} /\ UNCHANGED results
             ELSE results' = [results EXCEPT ![s] = @ \union {result}] /\ UNCHANGED committed
        /\ Leave(s)
        /\ UNCHANGED <<vars, link, login>>

\* Mutant: the exchange has no timeout.
ExchangeFailsNever(s, l, reached) ==
    /\ Exchanging(s, l)
    /\ reached \notin SUBSET {l}
    /\ UNCHANGED loginVars

\* The nonce had expired, or the exchange was refused, timed out or broke;
\* the broker may have honoured the token all the same.
ExchangeFails(s, l, reached) ==
    /\ Exchanging(s, l)
    /\ honoured' = honoured \union reached
    /\ Leave(s)
    /\ UNCHANGED <<vars, link, login, succeeded, results, committed>>

-----------------------------------------------------------------------------
(* The callers.                                                            *)

CallerBegin(s, t) ==
    /\ serving[s] = Idle
    /\ Begin(s, t)
    /\ UNCHANGED serviceVars

CallerCommit(s) ==
    /\ Stage(s) = "idle" \/ s \notin Spanning
    /\ Commit(s)
    /\ committed' = committed \union results[s]
    /\ results' = [results EXCEPT ![s] = {}]
    /\ UNCHANGED <<serving, link, login, honoured, succeeded>>

\* The call is cancelled, its process dies, or its caller gives up.
CallerRollback(s) ==
    /\ Rollback(s)
    /\ results' = [results EXCEPT ![s] = {}]
    /\ Leave(s)
    /\ UNCHANGED <<link, login, honoured, succeeded, committed>>

\* The same between the commit and the end of the call.
CallerCancel(s) ==
    /\ Stage(s) # "idle"
    /\ txn[s] = "none"
    /\ Leave(s)
    /\ UNCHANGED <<vars, link, login, honoured, succeeded, results, committed>>

CallerAborted(s) ==
    /\ AbortWaiting(s)
    /\ Leave(s)
    /\ UNCHANGED <<link, login, honoured, succeeded, results, committed>>

-----------------------------------------------------------------------------
StatementReturns(s) ==
    \/ \E n \in Nonce : StartFlushed(s, n) \/ StartRaises(s, n) \/ CompleteConsumed(s, n)
    \/ CompleteRefused(s)

ExchangeEnds(s, l) ==
    ExchangeSucceeds(s, l) \/ \E reached \in SUBSET {l} : ExchangeFails(s, l, reached)

CallerEnds(s) == CallerCommit(s) \/ CallerRollback(s) \/ CallerCancel(s)

SessionStep(s) ==
    \/ \E n \in Nonce : StartCall(s, n)
    \/ \E l \in Login : CompleteCall(s, l) \/ ExchangeEnds(s, l)
    \/ StatementReturns(s) \/ StartReturns(s)
    \/ \E t \in Contexts : CallerBegin(s, t)
    \/ CallerEnds(s) \/ CallerAborted(s)

LoginNext ==
    \/ \E s \in Session : SessionStep(s)
    \/ \E l \in Login, n \in Nonce : UserLogin(l, n)
    \/ \E k \in Removable : (LockConnection(k) \/ RemovalEnds(k)) /\ UNCHANGED serviceVars

LoginSpec == LoginInit /\ [][LoginNext]_loginVars

\* Statements queue for their rows, the engine ends deadlocks, the exchange
\* has a timeout, a caller ends its transaction once the service is done, and
\* the removal of a connection ends.
LoginFairness ==
    /\ \A s \in Session :
          /\ SF_loginVars(StatementReturns(s) \/ (Deadlocked(s) /\ CallerAborted(s)))
          /\ WF_loginVars(StartReturns(s) \/ \E l \in Login : ExchangeFails(s, l, {}))
          /\ SF_loginVars(CallerEnds(s) /\ (Stage(s) = "idle" \/ s \notin Spanning))
    /\ \A k \in Removable : WF_loginVars(RemovalEnds(k) /\ UNCHANGED serviceVars)

LoginFairSpec == LoginSpec /\ LoginFairness

-----------------------------------------------------------------------------
(* Properties.                                                             *)

\* Whoever waits for the broker has its row in its transaction or committed,
\* and nobody else waits with the same row: one request at a time reaches the
\* broker for a nonce.
ExchangesApart ==
    \A s \in Session : Stage(s) = "consumed" =>
        /\ serving[s].row \in deleted[s] \union consumed
        /\ \A u \in Session \ {s} :
              Stage(u) = "consumed" => serving[u].row # serving[s].row

\* The results of committed transactions come from distinct nonces.
CommittedOnce ==
    \A g, h \in committed : g.row = h.row => g = h

\* If two calls of complete succeeded on one nonce, one of them ran inside a
\* spanning transaction, and that transaction was not committed.
ReplayNeedsRollback ==
    \A g, h \in succeeded :
        g # h /\ g.row = h.row =>
            \E x \in {g, h} : x.by \in Spanning /\ x \notin committed

\* When a login URL reaches its user the nonce is stored, unless it was consumed
\* or its connection removed meanwhile, or the call ran in a transaction that
\* spans it and may still be rolled back.
LinkedRowsExist ==
    [][\A n \in link' \ link :
          \/ n \in rows \union consumed
          \/ ConnectionOf[n] \notin connections
          \/ \E s \in Spanning : n \in inserted[s]]_loginVars

\* complete refuses the state of a login URL for a reason its user could be
\* told: the nonce was consumed, its connection removed, the call ran without
\* the tenant's context, or the nonce was not there when the DELETE began,
\* which takes a caller whose transaction spans start.  A row that another
\* open transaction consumed, and may give back, is no reason to refuse.
RefusedForCause ==
    [][\A s \in Session :
          Stage(s) = "complete" /\ Stage(s)' = "idle" /\ txn'[s] = "active" =>
             LET n == login[serving[s].login]
             IN  \/ n \in consumed \union deleted[s]
                 \/ ConnectionOf[n] \notin connections
                 \/ context[s] # OwnerOf[n]
                 \/ Spanning # {} /\ n \notin call[s].snapshot]_loginVars

\* Every call of start and complete ends.
ServiceSettles ==
    \A s \in Session : Stage(s) # "idle" ~> Stage(s) = "idle"

\* docs/decisions/0011: nonces are consumed so that a callback can succeed
\* only once across processes and restarts.
CallbackSucceedsOnce ==
    \A g, h \in succeeded : g.row = h.row => g = h

=============================================================================
