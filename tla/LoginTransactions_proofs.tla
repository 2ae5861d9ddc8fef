---------------------- MODULE LoginTransactions_proofs ----------------------
(***************************************************************************)
(* Proofs about LoginTransactions for any sessions, whichever of them have *)
(* callers whose transaction spans a call, and any logins; and about       *)
(* LoginGrants, where none has.                                            *)
(***************************************************************************)
EXTENDS LoginGrants, SqlNonceStore_proofs

-----------------------------------------------------------------------------
(* Types, and the store under the service.                                 *)

LoginTyped ==
    /\ login \in [Login -> Nonce \union {None}]
    /\ DOMAIN serving = Session
    /\ DOMAIN results = Session

LEMMA InitTyped == LoginInit => LoginTyped
BY DEF LoginInit, LoginTyped

LEMMA StepTyped == LoginTyped /\ [LoginNext]_loginVars => LoginTyped'
<1> SUFFICES ASSUME LoginTyped, [LoginNext]_loginVars PROVE LoginTyped'
  OBVIOUS
<1> USE DEF LoginTyped, At, Leave
<1>1. ASSUME NEW s \in Session, SessionStep(s) PROVE LoginTyped'
  <2>1. ASSUME NEW n \in Nonce, StartCall(s, n) \/ StartFlushed(s, n) \/ StartRaises(s, n)
        PROVE  LoginTyped'
    BY <2>1 DEF StartCall, StartFlushed, StartRaises
  <2>2. CASE StartReturns(s)
    BY <2>2 DEF StartReturns
  <2>3. ASSUME NEW l \in Login, CompleteCall(s, l) PROVE LoginTyped'
    BY <2>3 DEF CompleteCall
  <2>4. ASSUME NEW n \in Nonce, CompleteConsumed(s, n) PROVE LoginTyped'
    BY <2>4 DEF CompleteConsumed
  <2>5. ASSUME CompleteRefused(s) PROVE LoginTyped'
    BY <2>5 DEF CompleteRefused
  <2>6. ASSUME NEW l \in Login, ExchangeSucceeds(s, l) PROVE LoginTyped'
    BY <2>6 DEF ExchangeSucceeds
  <2>7. ASSUME NEW l \in Login, NEW r \in SUBSET {l}, ExchangeFails(s, l, r)
        PROVE  LoginTyped'
    BY <2>7 DEF ExchangeFails
  <2>8. ASSUME NEW t \in Contexts, CallerBegin(s, t) PROVE LoginTyped'
    BY <2>8 DEF CallerBegin, serviceVars
  <2>9. CASE CallerEnds(s)
    BY <2>9 DEF CallerEnds, CallerCommit, CallerRollback, CallerCancel
  <2>10. CASE CallerAborted(s)
    BY <2>10 DEF CallerAborted
  <2>. QED
    BY <1>1, <2>1, <2>2, <2>3, <2>4, <2>5, <2>6, <2>7, <2>8, <2>9, <2>10
    DEF SessionStep, StatementReturns, ExchangeEnds
<1>2. ASSUME NEW l \in Login, NEW n \in Nonce, UserLogin(l, n) PROVE LoginTyped'
  BY <1>2 DEF UserLogin
<1>3. ASSUME NEW k \in Removable,
             (LockConnection(k) \/ RemovalEnds(k)) /\ UNCHANGED serviceVars
      PROVE  LoginTyped'
  BY <1>3 DEF serviceVars
<1>4. CASE UNCHANGED loginVars
  BY <1>4 DEF loginVars, serviceVars
<1>. QED
  BY <1>1, <1>2, <1>3, <1>4 DEF LoginNext

\* Every step of a call of the service is a step of the store or leaves it alone.
LEMMA LoginStepIsStoreStep == LoginTyped /\ [LoginNext]_loginVars => [Next]_vars
<1> SUFFICES ASSUME LoginTyped, [LoginNext]_loginVars PROVE [Next]_vars
  OBVIOUS
<1>1. ASSUME NEW s \in Session, SessionStep(s) PROVE [Next]_vars
  <2>1. ASSUME NEW n \in Nonce, StartCall(s, n) PROVE Next
    BY <2>1 DEF StartCall, Next, StoreStep
  <2>2. CASE StatementReturns(s)
    BY <2>2 DEF StatementReturns, StartFlushed, StartRaises, CompleteRefused,
                CompleteConsumed, Next, StoreStep
  <2>3. CASE StartReturns(s)
    BY <2>3 DEF StartReturns
  <2>4. ASSUME NEW l \in Login, CompleteCall(s, l) PROVE Next
    <3>1. login[l] \in Nonce /\ Consume(s, DigestOf[login[l]])
      BY <2>4 DEF CompleteCall, LoginTyped
    <3>2. DigestOf[login[l]] \in Digest
      BY <3>1, StoreAssumption
    <3>. QED
      BY <3>1, <3>2 DEF Next, StoreStep
  <2>5. ASSUME NEW l \in Login, ExchangeEnds(s, l) PROVE UNCHANGED vars
    BY <2>5 DEF ExchangeEnds, ExchangeSucceeds, ExchangeFails
  <2>6. ASSUME NEW t \in Contexts, CallerBegin(s, t) PROVE Next
    BY <2>6 DEF CallerBegin, Next, CallerStep
  <2>7. CASE CallerEnds(s)
    BY <2>7 DEF CallerEnds, CallerCommit, CallerRollback, CallerCancel, Next, CallerStep
  <2>8. CASE CallerAborted(s)
    BY <2>8 DEF CallerAborted, Next, CallerStep
  <2>. QED
    BY <1>1, <2>1, <2>2, <2>3, <2>4, <2>5, <2>6, <2>7, <2>8 DEF SessionStep
<1>2. ASSUME NEW l \in Login, NEW n \in Nonce, UserLogin(l, n) PROVE [Next]_vars
  BY <1>2 DEF UserLogin
<1>3. ASSUME NEW k \in Removable, LockConnection(k) \/ RemovalEnds(k) PROVE Next
  BY <1>3 DEF Next
<1>4. CASE UNCHANGED loginVars
  BY <1>4 DEF loginVars
<1>. QED
  BY <1>1, <1>2, <1>3, <1>4 DEF LoginNext

\* Under the service the store behaves as SqlNonceStore says it does: what is
\* proved of the store holds for the two together.
LEMMA LoginKeepsStore == LoginSpec => Spec
<1>1. LoginInit => Init
  BY DEF LoginInit
<1>. QED
  BY <1>1, InitTyped, StepTyped, LoginStepIsStoreStep, PTL
  DEF LoginSpec, Spec

-----------------------------------------------------------------------------
(* The inductive invariant: where the row of every call of the service is. *)

\* A call that waits for the broker holds its row, or its caller committed the
\* consumption, and nothing else was returned for that row.
WaitingOK(s) ==
    Stage(s) = "consumed" =>
        /\ serving[s].row \in deleted[s] \/ (s \notin Spanning /\ serving[s].row \in consumed)
        /\ txn[s] = "active" => \A r \in results[s] : r.row # serving[s].row
        /\ \A g \in committed : g.row # serving[s].row

\* The row of a start call that was flushed is still there, or is accounted for.
FlushedOK(s) ==
    Stage(s) = "flushed" =>
        LET n == serving[s].row
        IN  n \in inserted[s] \union rows \union consumed \/ ConnectionOf[n] \notin connections

\* What complete returned in an open transaction rests on rows it holds.
ResultsOK(s) ==
    /\ txn[s] = "none" => results[s] = {}
    /\ txn[s] = "active" =>
          /\ \A r \in results[s] : r.row \in deleted[s]
          /\ \A q, r \in results[s] : q.row = r.row => q = r

WaitingApart ==
    \A s \in Session : \A u \in Session \ {s} :
        Stage(s) = "consumed" /\ Stage(u) = "consumed" => serving[s].row # serving[u].row

CommittedOK == CommittedOnce /\ \A g \in committed : g.row \in consumed
SucceededOK == \A g \in succeeded : g.by \notin Spanning => g \in committed

LInv ==
    /\ \A s \in Session : WaitingOK(s) /\ FlushedOK(s) /\ ResultsOK(s)
    /\ WaitingApart /\ CommittedOK /\ SucceededOK

LoginIInv == LoginTyped /\ IInv /\ LInv

LEMMA InitLoginIInv == LoginInit => LoginIInv
<1>1. LoginInit => LoginTyped
  BY InitTyped
<1>2. LoginInit => IInv
  BY InitIInv DEF LoginInit
<1>3. LoginInit => LInv
  BY DEF LoginInit, Init, Idle, Stage, LInv, WaitingOK, FlushedOK, ResultsOK, WaitingApart,
         CommittedOK, CommittedOnce, SucceededOK
<1>. QED
  BY <1>1, <1>2, <1>3 DEF LoginIInv

-----------------------------------------------------------------------------
(* Steps of one session.                                                   *)

\* Rows leave the table by a committed consumption or with their connection.
LEMMA Survival ==
    ASSUME IInv, [Next]_vars
    PROVE  /\ consumed \subseteq consumed' /\ connections' \subseteq connections
           /\ \A n \in rows \union consumed :
                 n \in rows' \union consumed' \/ ConnectionOf[n] \notin connections'
<1>1. ASSUME NEW s \in Session, Commit(s) PROVE
         /\ rows' = View(s) /\ consumed' = consumed \union deleted[s]
         /\ connections' = connections
  BY <1>1 DEF Commit
<1>2. ASSUME NEW k \in Removable, DropConnection(k) PROVE
         /\ rows' = {n \in rows : ConnectionOf[n] # k} /\ consumed' = consumed
         /\ connections' = connections \ {k}
  BY <1>2 DEF DropConnection, history
<1>3. \/ UNCHANGED <<rows, connections, consumed>>
      \/ \E s \in Session : Commit(s)
      \/ \E k \in Removable : DropConnection(k)
  <2>1. ASSUME NEW s \in Session, StoreStep(s) PROVE UNCHANGED <<rows, connections, consumed>>
    BY <2>1 DEF StoreStep, Issue, FlushInsert, FlushIntegrityError, FlushDenied, Consume,
                DeleteNothing, DeleteReturning, Done, Fail, tables, history
  <2>2. ASSUME NEW s \in Session, CallerStep(s), ~Commit(s)
        PROVE  UNCHANGED <<rows, connections, consumed>>
    BY <2>2 DEF CallerStep, Begin, AbortWaiting, Fail, Rollback, tables, history
  <2>3. CASE UNCHANGED vars
    BY <2>3 DEF vars, tables, history
  <2>4. ASSUME NEW k \in Removable, LockConnection(k) \/ KeepConnection(k)
        PROVE  UNCHANGED <<rows, connections, consumed>>
    BY <2>4 DEF LockConnection, KeepConnection, history
  <2>. QED
    BY <2>1, <2>2, <2>3, <2>4 DEF Next, RemovalEnds
<1>. QED
  BY <1>1, <1>2, <1>3 DEF View

\* A step leaves the other sessions, their transactions and their calls alone.
Others(s) ==
    \A u \in Session \ {s} :
        /\ serving'[u] = serving[u] /\ results'[u] = results[u] /\ txn'[u] = txn[u]
        /\ inserted'[u] = inserted[u] /\ deleted'[u] = deleted[u]

\* What a session has to show of its step, so that all of LInv is kept.
LEMMA StepOfOne ==
    ASSUME LoginIInv, [Next]_vars, NEW s \in Session, Others(s),
           WaitingOK(s)', FlushedOK(s)', ResultsOK(s)', CommittedOK', SucceededOK',
           \A u \in Session \ {s} :
               Stage(s)' = "consumed" /\ Stage(u) = "consumed" =>
                   serving'[s].row # serving[u].row,
           \A g \in committed' \ committed : \A u \in Session \ {s} :
               Stage(u) = "consumed" => g.row # serving[u].row
    PROVE  LInv'
<1>1. IInv /\ LInv
  BY DEF LoginIInv
<1>2. /\ consumed \subseteq consumed' /\ connections' \subseteq connections
      /\ \A n \in rows \union consumed :
            n \in rows' \union consumed' \/ ConnectionOf[n] \notin connections'
  BY <1>1, Survival
<1>3. ASSUME NEW u \in Session \ {s} PROVE WaitingOK(u)' /\ FlushedOK(u)' /\ ResultsOK(u)'
  <2>1. /\ serving'[u] = serving[u] /\ results'[u] = results[u] /\ txn'[u] = txn[u]
        /\ inserted'[u] = inserted[u] /\ deleted'[u] = deleted[u]
    BY DEF Others
  <2>2. WaitingOK(u) /\ FlushedOK(u) /\ ResultsOK(u)
    BY <1>1 DEF LInv
  <2>3. WaitingOK(u)'
    BY <1>2, <2>1, <2>2 DEF WaitingOK, Stage
  <2>4. FlushedOK(u)'
    BY <1>2, <2>1, <2>2 DEF FlushedOK, Stage
  <2>5. ResultsOK(u)'
    BY <2>1, <2>2 DEF ResultsOK
  <2>. QED
    BY <2>3, <2>4, <2>5
<1>4. WaitingApart'
  BY <1>1 DEF LInv, WaitingApart, Others, Stage
<1>. QED
  BY <1>3, <1>4 DEF LInv

\* The call ends, or is not yet consumed, and its transaction goes on, failed or
\* was rolled back.
LEMMA QuietStep ==
    ASSUME LoginIInv, [Next]_vars, NEW s \in Session, Others(s),
           Stage(s)' \notin {"consumed", "flushed"},
           UNCHANGED <<succeeded, committed>>,
           \/ results'[s] = {}
           \/ results'[s] = results[s] /\ txn'[s] = "failed"
           \/ results'[s] = results[s] /\ txn'[s] = txn[s] /\ deleted[s] \subseteq deleted'[s]
    PROVE  LInv'
<1>1. WaitingOK(s)' /\ FlushedOK(s)'
  BY DEF WaitingOK, FlushedOK
<1>2. ResultsOK(s)'
  BY DEF LoginIInv, LInv, ResultsOK
<1>3. consumed \subseteq consumed'
  BY Survival DEF LoginIInv
<1>4. CommittedOK' /\ SucceededOK'
  BY <1>3 DEF LoginIInv, LInv, CommittedOK, CommittedOnce, SucceededOK
<1>. QED
  BY <1>1, <1>2, <1>4, StepOfOne

-----------------------------------------------------------------------------
(* The steps that do more.                                                 *)

LEMMA StartFlushedStep ==
    ASSUME LoginIInv, [Next]_vars, NEW s \in Session, NEW n \in Nonce, StartFlushed(s, n)
    PROVE  LInv'
<1>1. TypeOK /\ LInv /\ DOMAIN serving = Session
  BY DEF LoginIInv, IInv, LoginTyped
<1>2. /\ serving'[s].stage = "flushed" /\ serving'[s].row = n /\ n \in inserted'[s]
      /\ UNCHANGED <<results, committed, succeeded, txn, deleted>>
      /\ Others(s)
  BY <1>1 DEF StartFlushed, FlushInsert, Insertable, Done, At, TypeOK, Others
<1>3. consumed \subseteq consumed'
  BY Survival DEF LoginIInv
<1>4. WaitingOK(s)' /\ FlushedOK(s)'
  BY <1>2 DEF WaitingOK, FlushedOK, Stage
<1>5. ResultsOK(s)'
  BY <1>1, <1>2 DEF LInv, ResultsOK
<1>6. CommittedOK' /\ SucceededOK'
  BY <1>1, <1>2, <1>3 DEF LInv, CommittedOK, CommittedOnce, SucceededOK
<1>. QED
  BY <1>2, <1>4, <1>5, <1>6, StepOfOne DEF Stage

\* The row consume returns was in the table or inserted by this transaction: no
\* call waits with it, and no result that counts rests on it.
LEMMA CompleteConsumedStep ==
    ASSUME LoginIInv, [Next]_vars, NEW s \in Session, NEW n \in Nonce, CompleteConsumed(s, n)
    PROVE  LInv'
<1>1. TypeOK /\ LInv /\ DOMAIN serving = Session /\ Apart
  BY DEF LoginIInv, IInv, LoginTyped, Placed
<1>2. /\ serving'[s].stage = "consumed" /\ serving'[s].row = n
      /\ deleted'[s] = deleted[s] \union {n}
      /\ UNCHANGED <<results, committed, succeeded, txn, consumed>>
      /\ Others(s)
  BY <1>1 DEF CompleteConsumed, DeleteReturning, Found, Done, At, TypeOK, Others
<1>3. \A u \in Session \ {s} : n \notin deleted[u]
  BY DEF CompleteConsumed, DeleteReturning, Found, Contended
<1>4. n \notin deleted[s] /\ n \notin consumed
  BY <1>1 DEF CompleteConsumed, DeleteReturning, Found, Hits, View, Apart
<1>5. WaitingOK(s)'
  <2>1. txn[s] = "active" => \A r \in results[s] : r.row # n
    BY <1>1, <1>4 DEF LInv, ResultsOK
  <2>2. \A g \in committed : g.row # n
    BY <1>1, <1>4 DEF LInv, CommittedOK
  <2>. QED
    BY <1>2, <2>1, <2>2 DEF WaitingOK
<1>6. FlushedOK(s)'
  BY <1>2 DEF FlushedOK, Stage
<1>7. ResultsOK(s)'
  BY <1>1, <1>2 DEF LInv, ResultsOK
<1>8. CommittedOK' /\ SucceededOK'
  BY <1>1, <1>2 DEF LInv, CommittedOK, CommittedOnce, SucceededOK
<1>9. \A u \in Session \ {s} : Stage(u) = "consumed" => serving'[s].row # serving[u].row
  BY <1>1, <1>2, <1>3, <1>4 DEF LInv, WaitingOK
<1>. QED
  BY <1>2, <1>5, <1>6, <1>7, <1>8, <1>9, StepOfOne

\* A result joins those of its open transaction, whose row it rests on, or the
\* committed ones.
LEMMA ExchangeSucceedsStep ==
    ASSUME LoginIInv, [Next]_vars, NEW s \in Session, NEW l \in Login, ExchangeSucceeds(s, l)
    PROVE  LInv'
<1> DEFINE n == serving[s].row
           result == [login |-> l, row |-> n, by |-> s]
<1>1. TypeOK /\ LInv /\ DOMAIN serving = Session /\ DOMAIN results = Session
  BY DEF LoginIInv, IInv, LoginTyped
<1>2. /\ Stage(s) = "consumed" /\ MayGoOn(s)
      /\ serving'[s] = Idle
      /\ succeeded' = succeeded \union {result}
      /\ UNCHANGED <<txn, inserted, deleted, consumed>>
  BY <1>1 DEF ExchangeSucceeds, Exchanging, Leave, vars, tables, history
<1>3. \/ /\ txn[s] = "none"
         /\ committed' = committed \union {result} /\ results' = results
      \/ /\ txn[s] # "none"
         /\ committed' = committed
         /\ results' = [results EXCEPT ![s] = @ \union {result}]
  BY DEF ExchangeSucceeds
<1>4. Others(s)
  BY <1>1, <1>2, <1>3 DEF ExchangeSucceeds, Leave, Others
<1>5. WaitingOK(s)' /\ FlushedOK(s)' /\ Stage(s)' = "idle"
  BY <1>2 DEF WaitingOK, FlushedOK, Stage, Idle
<1>6. WaitingOK(s) /\ ResultsOK(s) /\ CommittedOK /\ SucceededOK /\ WaitingApart
  BY <1>1 DEF LInv
<1>7. CASE txn[s] = "none"
  <2>1. deleted[s] = {}
    BY <1>1, <1>7 DEF TypeOK
  <2>2. n \in consumed
    BY <1>2, <1>6, <2>1 DEF WaitingOK
  <2>3. \A g \in committed : g.row # n
    BY <1>2, <1>6 DEF WaitingOK
  <2>4. committed' = committed \union {result} /\ results' = results
    BY <1>3, <1>7
  <2>5. CommittedOK'
    BY <1>2, <1>6, <2>2, <2>3, <2>4 DEF CommittedOK, CommittedOnce
  <2>6. SucceededOK'
    BY <1>2, <1>6, <2>4 DEF SucceededOK
  <2>7. ResultsOK(s)'
    BY <1>2, <1>6, <1>7, <2>4 DEF ResultsOK
  <2>8. \A g \in committed' \ committed : \A u \in Session \ {s} :
           Stage(u) = "consumed" => g.row # serving[u].row
    BY <1>2, <1>6, <2>4 DEF WaitingApart
  <2>. QED
    BY <1>4, <1>5, <2>5, <2>6, <2>7, <2>8, StepOfOne
<1>8. CASE txn[s] # "none"
  <2>1. s \in Spanning
    BY <1>2, <1>8 DEF MayGoOn
  <2>2. n \in deleted[s]
    BY <1>2, <1>6, <2>1 DEF WaitingOK
  <2>3. committed' = committed /\ results'[s] = results[s] \union {result}
    BY <1>1, <1>3, <1>8
  <2>4. CommittedOK'
    BY <1>2, <1>6, <2>3 DEF CommittedOK, CommittedOnce
  <2>5. SucceededOK'
    BY <1>2, <1>6, <2>1, <2>3 DEF SucceededOK
  <2>6. ResultsOK(s)'
    <3>1. txn[s] = "active" => \A r \in results[s] : r.row # n
      BY <1>2, <1>6 DEF WaitingOK
    <3>. QED
      BY <1>2, <1>6, <1>8, <2>2, <2>3, <3>1 DEF ResultsOK
  <2>. QED
    BY <1>4, <1>5, <2>3, <2>4, <2>5, <2>6, StepOfOne
<1>. QED
  BY <1>7, <1>8

\* A commit makes consumptions and results final; the rows of other calls are
\* in their own transactions or were consumed before.
LEMMA CallerCommitStep ==
    ASSUME LoginIInv, [Next]_vars, NEW s \in Session, CallerCommit(s)
    PROVE  LInv'
<1>1. TypeOK /\ LInv /\ Apart /\ DOMAIN results = Session
  BY DEF LoginIInv, IInv, LoginTyped, Placed
<1>2. /\ txn[s] = "active" /\ txn'[s] = "none"
      /\ rows' = View(s) /\ consumed' = consumed \union deleted[s]
      /\ committed' = committed \union results[s] /\ results'[s] = {}
      /\ UNCHANGED <<connections, serving, succeeded>>
      /\ Stage(s) = "idle" \/ s \notin Spanning
      /\ Others(s)
  BY <1>1 DEF CallerCommit, Commit, End, TypeOK, Others
<1>3. WaitingOK(s) /\ FlushedOK(s) /\ ResultsOK(s) /\ CommittedOK /\ SucceededOK
  BY <1>1 DEF LInv
<1>4. WaitingOK(s)'
  BY <1>2, <1>3 DEF WaitingOK, Stage
<1>5. FlushedOK(s)'
  BY <1>2, <1>3 DEF FlushedOK, Stage, View
<1>6. ResultsOK(s)'
  BY <1>2 DEF ResultsOK
<1>7. \A r \in results[s] : r.row \in deleted[s] /\ r.row \notin consumed
  BY <1>1, <1>2, <1>3 DEF ResultsOK, Apart
<1>8. CommittedOK'
  <2>1. CommittedOnce'
    BY <1>2, <1>3, <1>7 DEF CommittedOK, CommittedOnce, ResultsOK
  <2>. QED
    BY <1>2, <1>3, <1>7, <2>1 DEF CommittedOK
<1>9. SucceededOK'
  BY <1>2, <1>3 DEF SucceededOK
<1>10. \A g \in committed' \ committed : \A u \in Session \ {s} :
          Stage(u) = "consumed" => g.row # serving[u].row
  BY <1>1, <1>2, <1>7 DEF LInv, WaitingOK, Apart
<1>11. \A u \in Session \ {s} :
          Stage(s)' = "consumed" /\ Stage(u) = "consumed" => serving'[s].row # serving[u].row
  BY <1>1, <1>2 DEF LInv, WaitingApart, Stage
<1>. QED
  BY <1>2, <1>4, <1>5, <1>6, <1>8, <1>9, <1>10, <1>11, StepOfOne

\* The user, the clock and the removal of a connection touch no session.
LEMMA OutsideStep ==
    ASSUME LoginIInv, [Next]_vars,
           UNCHANGED <<serving, results, succeeded, committed, txn, inserted, deleted>>
    PROVE  LInv'
<1>1. LInv
  BY DEF LoginIInv
<1>2. /\ consumed \subseteq consumed' /\ connections' \subseteq connections
      /\ \A n \in rows \union consumed :
            n \in rows' \union consumed' \/ ConnectionOf[n] \notin connections'
  BY Survival DEF LoginIInv
<1>3. ASSUME NEW s \in Session PROVE WaitingOK(s)' /\ FlushedOK(s)' /\ ResultsOK(s)'
  <2>1. WaitingOK(s) /\ FlushedOK(s) /\ ResultsOK(s)
    BY <1>1 DEF LInv
  <2>2. WaitingOK(s)'
    BY <1>2, <2>1 DEF WaitingOK, Stage
  <2>3. FlushedOK(s)'
    BY <1>2, <2>1 DEF FlushedOK, Stage
  <2>4. ResultsOK(s)'
    BY <2>1 DEF ResultsOK
  <2>. QED
    BY <2>2, <2>3, <2>4
<1>4. WaitingApart' /\ CommittedOK' /\ SucceededOK'
  BY <1>1, <1>2 DEF LInv, WaitingApart, CommittedOK, CommittedOnce, SucceededOK, Stage
<1>. QED
  BY <1>3, <1>4 DEF LInv

LEMMA StepLoginIInv == LoginIInv /\ [LoginNext]_loginVars => LoginIInv'
<1> SUFFICES ASSUME LoginIInv, [LoginNext]_loginVars PROVE LoginIInv'
  OBVIOUS
<1>1. LoginTyped' /\ [Next]_vars
  BY StepTyped, LoginStepIsStoreStep DEF LoginIInv
<1>2. IInv'
  BY <1>1, StepIInv DEF LoginIInv
<1>3. TypeOK /\ DOMAIN serving = Session /\ DOMAIN results = Session
  BY DEF LoginIInv, IInv, LoginTyped
<1>4. ASSUME NEW s \in Session, SessionStep(s) PROVE LInv'
  <2>1. ASSUME NEW n \in Nonce, StartCall(s, n) PROVE LInv'
    <3>1. /\ Stage(s)' = "start" /\ Others(s)
          /\ UNCHANGED <<results, succeeded, committed, txn, deleted>>
      BY <1>3, <2>1 DEF StartCall, Issue, At, Stage, Others
    <3>. QED
      BY <1>1, <3>1, QuietStep
  <2>2. ASSUME NEW n \in Nonce, StartFlushed(s, n) PROVE LInv'
    BY <1>1, <2>2, StartFlushedStep
  <2>3. ASSUME NEW n \in Nonce, StartRaises(s, n) PROVE LInv'
    <3>1. \E error \in {"NonceConflictError", "denied"} : Fail(s, error)
      BY <2>3 DEF StartRaises, FlushIntegrityError, FlushDenied
    <3>2. /\ Stage(s)' = "idle" /\ Others(s) /\ txn'[s] = "failed"
          /\ UNCHANGED <<results, succeeded, committed>>
      BY <1>3, <2>3, <3>1 DEF StartRaises, Fail, Leave, Idle, Stage, Others, TypeOK
    <3>. QED
      BY <1>1, <3>2, QuietStep
  <2>4. CASE StartReturns(s)
    <3>1. /\ Stage(s)' = "idle" /\ Others(s)
          /\ UNCHANGED <<results, succeeded, committed, txn, deleted>>
      BY <1>3, <2>4 DEF StartReturns, vars, Leave, Idle, Stage, Others
    <3>. QED
      BY <1>1, <3>1, QuietStep
  <2>5. ASSUME NEW l \in Login, CompleteCall(s, l) PROVE LInv'
    <3>1. /\ Stage(s)' = "complete" /\ Others(s)
          /\ UNCHANGED <<results, succeeded, committed, txn, deleted>>
      BY <1>3, <2>5 DEF CompleteCall, Consume, At, Stage, Others
    <3>. QED
      BY <1>1, <3>1, QuietStep
  <2>6. ASSUME NEW n \in Nonce, CompleteConsumed(s, n) PROVE LInv'
    BY <1>1, <2>6, CompleteConsumedStep
  <2>7. ASSUME CompleteRefused(s) PROVE LInv'
    <3>1. /\ Stage(s)' = "idle" /\ Others(s)
          /\ UNCHANGED <<results, succeeded, committed, txn, deleted>>
      BY <1>3, <2>7 DEF CompleteRefused, DeleteNothing, NotFound, Done, Leave, Idle, Stage, Others
    <3>. QED
      BY <1>1, <3>1, QuietStep
  <2>8. ASSUME NEW l \in Login, ExchangeSucceeds(s, l) PROVE LInv'
    BY <1>1, <2>8, ExchangeSucceedsStep
  <2>9. ASSUME NEW l \in Login, NEW reached \in SUBSET {l}, ExchangeFails(s, l, reached)
        PROVE  LInv'
    <3>1. /\ Stage(s)' = "idle" /\ Others(s)
          /\ UNCHANGED <<results, succeeded, committed, txn, deleted>>
      BY <1>3, <2>9 DEF ExchangeFails, vars, Leave, Idle, Stage, Others
    <3>. QED
      BY <1>1, <3>1, QuietStep
  <2>10. ASSUME NEW t \in Contexts, CallerBegin(s, t) PROVE LInv'
    <3>1. results[s] = {}
      BY <2>10 DEF CallerBegin, Begin, LoginIInv, LInv, ResultsOK
    <3>2. /\ Stage(s)' = "idle" /\ Others(s)
          /\ UNCHANGED <<results, succeeded, committed>>
      BY <1>3, <2>10 DEF CallerBegin, Begin, serviceVars, Idle, Stage, Others, TypeOK
    <3>. QED
      BY <1>1, <3>1, <3>2, QuietStep
  <2>11. CASE CallerCommit(s)
    BY <1>1, <2>11, CallerCommitStep
  <2>12. CASE CallerRollback(s)
    <3>1. /\ Stage(s)' = "idle" /\ Others(s) /\ results'[s] = {}
          /\ UNCHANGED <<succeeded, committed>>
      BY <1>3, <2>12 DEF CallerRollback, Rollback, End, Leave, Idle, Stage, Others, TypeOK
    <3>. QED
      BY <1>1, <3>1, QuietStep
  <2>13. CASE CallerCancel(s)
    <3>1. /\ Stage(s)' = "idle" /\ Others(s)
          /\ UNCHANGED <<results, succeeded, committed, txn, deleted>>
      BY <1>3, <2>13 DEF CallerCancel, vars, Leave, Idle, Stage, Others
    <3>. QED
      BY <1>1, <3>1, QuietStep
  <2>14. CASE CallerAborted(s)
    <3>1. /\ Stage(s)' = "idle" /\ Others(s) /\ txn'[s] = "failed"
          /\ UNCHANGED <<results, succeeded, committed>>
      BY <1>3, <2>14
      DEF CallerAborted, AbortWaiting, Fail, Leave, Idle, Stage, Others, TypeOK
    <3>. QED
      BY <1>1, <3>1, QuietStep
  <2>. QED
    BY <1>4, <2>1, <2>2, <2>3, <2>4, <2>5, <2>6, <2>7, <2>8, <2>9, <2>10, <2>11, <2>12, <2>13,
       <2>14
    DEF SessionStep, StatementReturns, ExchangeEnds, CallerEnds
<1>5. ASSUME NEW l \in Login, NEW n \in Nonce, UserLogin(l, n) PROVE LInv'
  <2>1. UNCHANGED <<serving, results, succeeded, committed, txn, inserted, deleted>>
    BY <1>5 DEF UserLogin, vars
  <2>. QED
    BY <1>1, <2>1, OutsideStep
<1>6. ASSUME NEW k \in Removable,
             (LockConnection(k) \/ RemovalEnds(k)) /\ UNCHANGED serviceVars
      PROVE  LInv'
  <2>1. UNCHANGED <<serving, results, succeeded, committed, txn, inserted, deleted>>
    BY <1>6 DEF LockConnection, RemovalEnds, DropConnection, KeepConnection, serviceVars
  <2>. QED
    BY <1>1, <2>1, OutsideStep
<1>7. ASSUME UNCHANGED loginVars PROVE LInv'
  <2>1. UNCHANGED <<serving, results, succeeded, committed, txn, inserted, deleted>>
    BY <1>7 DEF loginVars, vars, serviceVars
  <2>. QED
    BY <1>1, <2>1, OutsideStep
<1>8. LInv'
  BY <1>4, <1>5, <1>6, <1>7 DEF LoginNext
<1>. QED
  BY <1>1, <1>2, <1>8 DEF LoginIInv

THEOREM LoginInductive == LoginSpec => []LoginIInv
BY InitLoginIInv, StepLoginIInv, PTL DEF LoginSpec

-----------------------------------------------------------------------------
(* The theorems.                                                           *)

\* One request at a time reaches the broker for a nonce, and its row is in the
\* caller's transaction or consumed for good (complete, between consume and
\* exchange).
THEOREM ExchangesApartHolds == LoginSpec => []ExchangesApart
<1>1. LoginIInv => ExchangesApart
  BY DEF LoginIInv, LInv, WaitingOK, WaitingApart, ExchangesApart
<1>. QED
  BY <1>1, LoginInductive, PTL

\* The committed results of complete come from distinct nonces.
THEOREM CommittedOnceHolds == LoginSpec => []CommittedOnce
<1>1. LoginIInv => CommittedOnce
  BY DEF LoginIInv, LInv, CommittedOK
<1>. QED
  BY <1>1, LoginInductive, PTL

\* A nonce yields a second session only after a transaction that spanned the
\* first call was rolled back: a caller that commits each store call, or never
\* rolls back what it returned, has the promise of docs/decisions/0011.
THEOREM ReplayNeedsRollbackHolds == LoginSpec => []ReplayNeedsRollback
<1>1. LoginIInv => ReplayNeedsRollback
  BY DEF LoginIInv, LInv, CommittedOK, CommittedOnce, SucceededOK, ReplayNeedsRollback
<1>. QED
  BY <1>1, LoginInductive, PTL

\* A login URL leaves start when its nonce is stored, was consumed, went with
\* its connection, or is in a transaction that spans the call.
THEOREM LinkedRowsExistHolds == LoginSpec => LinkedRowsExist
<1>1. ASSUME LoginIInv, [LoginNext]_loginVars
      PROVE  [\A n \in link' \ link :
                 \/ n \in rows \union consumed
                 \/ ConnectionOf[n] \notin connections
                 \/ \E s \in Spanning : n \in inserted[s]]_loginVars
  <2>1. ASSUME NEW s \in Session, StartReturns(s), NEW n \in link' \ link
        PROVE  \/ n \in rows \union consumed
               \/ ConnectionOf[n] \notin connections
               \/ \E u \in Spanning : n \in inserted[u]
    <3>1. n = serving[s].row /\ Stage(s) = "flushed" /\ MayGoOn(s)
      BY <2>1 DEF StartReturns
    <3>2. n \in inserted[s] \union rows \union consumed \/ ConnectionOf[n] \notin connections
      BY <1>1, <3>1 DEF LoginIInv, LInv, FlushedOK
    <3>3. s \in Spanning \/ inserted[s] = {}
      BY <1>1, <3>1 DEF MayGoOn, LoginIInv, IInv, TypeOK
    <3>. QED
      BY <3>2, <3>3
  <2>2. ASSUME \A s \in Session : ~StartReturns(s) PROVE UNCHANGED link
    <3>1. ASSUME NEW s \in Session, SessionStep(s) PROVE UNCHANGED link
      BY <2>2, <3>1
      DEF SessionStep, StatementReturns, ExchangeEnds, CallerEnds, StartCall, StartFlushed,
          StartRaises, CompleteCall, CompleteConsumed, CompleteRefused, ExchangeSucceeds,
          ExchangeFails, CallerBegin, CallerCommit, CallerRollback, CallerCancel,
          CallerAborted, serviceVars
    <3>. QED
      BY <1>1, <3>1 DEF LoginNext, UserLogin, serviceVars, loginVars
  <2>. QED
    BY <2>1, <2>2
<1>. QED
  BY <1>1, LoginInductive, PTL DEF LoginSpec, LinkedRowsExist

-----------------------------------------------------------------------------
(* Why a state is refused.                                                 *)

\* Once accounted for like this, a nonce never is a row again.
Gone(n) == n \in consumed \/ ConnectionOf[n] \notin connections

\* What a pending DELETE saw is there still, or was consumed or removed since.
SeenOK(s) ==
    call[s] # None /\ call[s].op = "consume" =>
        \A n \in call[s].snapshot : n \in rows \union inserted[s] \/ Gone(n)

\* A call of complete that waits for its DELETE; if callers commit each call of
\* the store, the DELETE saw the presented nonce, or that one is accounted for.
PresentedOK(s) ==
    Stage(s) = "complete" =>
        /\ call[s] # None
        /\ serving[s].login \in Login /\ login[serving[s].login] \in Nonce
        /\ Spanning = {} =>
              LET n == login[serving[s].login]
              IN  n \in call[s].snapshot \union deleted[s] \/ Gone(n)

LinkedOK ==
    /\ \A l \in Login : login[l] # None => login[l] \in link
    /\ Spanning = {} => \A n \in link : n \in rows \/ Gone(n)

CauseInv == LinkedOK /\ \A s \in Session : SeenOK(s) /\ PresentedOK(s)

LEMMA InitCauseInv == LoginInit => CauseInv
BY DEF LoginInit, Init, Idle, Stage, CauseInv, LinkedOK, SeenOK, PresentedOK

\* A nonce that is gone stays gone, a row stays one until then.
LEMMA GoneStays ==
    ASSUME IInv, [Next]_vars
    PROVE  \A n \in Nonce : /\ Gone(n) => Gone(n)'
                            /\ n \in rows => n \in rows' \/ Gone(n)'
BY Survival DEF Gone

\* Whose call, rows and login stay what they were has nothing to show.
LEMMA StillCaused ==
    ASSUME LoginIInv, CauseInv, [Next]_vars, NEW s \in Session,
           call'[s] = call[s], serving'[s] = serving[s],
           inserted'[s] = inserted[s], deleted'[s] = deleted[s],
           \A l \in Login : login'[l] = login[l] \/ login[l] = None
    PROVE  SeenOK(s)' /\ PresentedOK(s)'
<1>1. SeenOK(s) /\ PresentedOK(s) /\ TypeOK /\ None \notin Nonce
  BY LoginAssumption DEF CauseInv, LoginIInv, IInv
<1>2. \A n \in Nonce : (Gone(n) => Gone(n)') /\ (n \in rows => n \in rows' \/ Gone(n)')
  BY GoneStays DEF LoginIInv
<1>3. SeenOK(s)'
  <2>1. call[s] # None /\ call[s].op = "consume" => call[s].snapshot \subseteq Nonce
    BY <1>1 DEF TypeOK, Calls
  <2>. QED
    BY <1>1, <1>2, <2>1 DEF SeenOK
<1>4. PresentedOK(s)'
  <2>1. Stage(s)' = Stage(s)
    BY DEF Stage
  <2>2. ASSUME Stage(s) = "complete"
        PROVE  login'[serving[s].login] = login[serving[s].login]
    BY <1>1, <2>2 DEF PresentedOK
  <2>. QED
    BY <1>1, <1>2, <2>1, <2>2 DEF PresentedOK
<1>. QED
  BY <1>3, <1>4

\* The step of a session after which it is not in complete and its DELETE, if
\* it has one, is the one it had.
LEMMA LeftCaused ==
    ASSUME LoginIInv, CauseInv, [Next]_vars, NEW s \in Session,
           Stage(s)' # "complete",
           \/ call'[s] = None
           \/ call'[s].op = "issue"
           \/ call'[s] = call[s] /\ inserted'[s] = inserted[s]
    PROVE  SeenOK(s)' /\ PresentedOK(s)'
<1>1. PresentedOK(s)'
  BY DEF PresentedOK
<1>2. CASE call'[s] = None \/ call'[s].op = "issue"
  BY <1>1, <1>2 DEF SeenOK
<1>3. CASE call'[s] = call[s] /\ inserted'[s] = inserted[s]
  <2>1. SeenOK(s) /\ TypeOK
    BY DEF CauseInv, LoginIInv, IInv
  <2>2. \A n \in Nonce : (Gone(n) => Gone(n)') /\ (n \in rows => n \in rows' \/ Gone(n)')
    BY GoneStays DEF LoginIInv
  <2>3. call[s] # None /\ call[s].op = "consume" => call[s].snapshot \subseteq Nonce
    BY <2>1 DEF TypeOK, Calls
  <2>. QED
    BY <1>1, <1>3, <2>1, <2>2, <2>3 DEF SeenOK
<1>. QED
  BY <1>2, <1>3

LEMMA CompleteCallCaused ==
    ASSUME LoginIInv, CauseInv, NEW s \in Session, NEW l \in Login, CompleteCall(s, l)
    PROVE  SeenOK(s)' /\ PresentedOK(s)'
<1> DEFINE n == login[l]
<1>1. TypeOK /\ LinkedOK /\ n \in Nonce
  BY DEF LoginIInv, IInv, LoginTyped, CauseInv, CompleteCall
<1>2. /\ serving'[s] = [stage |-> "complete", login |-> l, row |-> None]
      /\ call'[s] = [op |-> "consume",
                     snapshot |-> {m \in View(s) : DigestOf[m] = DigestOf[n]}]
      /\ UNCHANGED <<rows, connections, consumed, login, inserted, deleted>>
  BY <1>1 DEF CompleteCall, Consume, At, LoginIInv, LoginTyped, TypeOK, tables, history
<1>3. SeenOK(s)'
  BY <1>2 DEF SeenOK, View
<1>4. Spanning = {} => n \in rows \/ Gone(n)
  BY <1>1, LoginAssumption DEF LinkedOK
<1>5. Spanning = {} => n \in call'[s].snapshot \union deleted[s] \/ Gone(n)
  <2>1. n \in rows => n \in View(s) \/ n \in deleted[s]
    BY DEF View
  <2>. QED
    BY <1>2, <1>4, <2>1
<1>6. PresentedOK(s)'
  <2>1. /\ Stage(s)' = "complete" /\ serving'[s].login = l /\ login'[l] = n
        /\ deleted'[s] = deleted[s] /\ Gone(n)' = Gone(n)
    BY <1>2 DEF Stage, Gone
  <2>2. call'[s] # None
    BY <1>1, <1>2, StoreAssumption DEF Calls, View, TypeOK
  <2>. QED
    BY <1>1, <1>5, <2>1, <2>2 DEF PresentedOK
<1>. QED
  BY <1>3, <1>6

\* A caller commits a call of the store when none is pending; so not in the
\* middle of complete's DELETE.
LEMMA SessionCaused ==
    ASSUME LoginIInv, CauseInv, [Next]_vars, NEW s \in Session, SessionStep(s)
    PROVE  /\ SeenOK(s)' /\ PresentedOK(s)'
           /\ \A u \in Session \ {s} :
                 /\ call'[u] = call[u] /\ serving'[u] = serving[u]
                 /\ inserted'[u] = inserted[u] /\ deleted'[u] = deleted[u]
           /\ UNCHANGED login
<1> DEFINE OthersStand ==
       /\ \A u \in Session \ {s} :
             /\ call'[u] = call[u] /\ serving'[u] = serving[u]
             /\ inserted'[u] = inserted[u] /\ deleted'[u] = deleted[u]
       /\ UNCHANGED login
<1> USE DEF Stage, Idle, At, Leave
<1>1. TypeOK /\ DOMAIN serving = Session /\ PresentedOK(s)
  BY DEF LoginIInv, IInv, LoginTyped, CauseInv
<1>2. ASSUME NEW n \in Nonce, StartCall(s, n) PROVE SeenOK(s)' /\ PresentedOK(s)' /\ OthersStand
  <2>1. Stage(s)' # "complete" /\ call'[s].op = "issue" /\ OthersStand
    BY <1>1, <1>2 DEF StartCall, Issue, TypeOK
  <2>. QED
    BY <2>1, LeftCaused
<1>3. ASSUME NEW l \in Login, CompleteCall(s, l) PROVE SeenOK(s)' /\ PresentedOK(s)' /\ OthersStand
  <2>1. OthersStand
    BY <1>1, <1>3 DEF CompleteCall, Consume, TypeOK
  <2>. QED
    BY <1>3, <2>1, CompleteCallCaused
<1>4. ASSUME NEW l \in Login, ExchangeEnds(s, l)
      PROVE  SeenOK(s)' /\ PresentedOK(s)' /\ OthersStand
  <2>1. Stage(s)' # "complete" /\ call' = call /\ inserted' = inserted /\ OthersStand
    BY <1>1, <1>4 DEF ExchangeEnds, ExchangeSucceeds, ExchangeFails, vars
  <2>. QED
    BY <2>1, LeftCaused
<1>5. CASE StatementReturns(s)
  <2>1. Stage(s)' # "complete" /\ call'[s] = None /\ OthersStand
    <3>1. ASSUME NEW n \in Nonce, StartFlushed(s, n)
          PROVE  Stage(s)' # "complete" /\ call'[s] = None /\ OthersStand
      BY <1>1, <3>1 DEF StartFlushed, FlushInsert, Done, TypeOK
    <3>2. ASSUME NEW n \in Nonce, StartRaises(s, n)
          PROVE  Stage(s)' # "complete" /\ call'[s] = None /\ OthersStand
      BY <1>1, <3>2 DEF StartRaises, FlushIntegrityError, FlushDenied, Fail, TypeOK
    <3>3. ASSUME NEW n \in Nonce, CompleteConsumed(s, n)
          PROVE  Stage(s)' # "complete" /\ call'[s] = None /\ OthersStand
      BY <1>1, <3>3 DEF CompleteConsumed, DeleteReturning, Done, TypeOK
    <3>4. CASE CompleteRefused(s)
      BY <1>1, <3>4 DEF CompleteRefused, DeleteNothing, Done, TypeOK
    <3>. QED
      BY <1>5, <3>1, <3>2, <3>3, <3>4 DEF StatementReturns
  <2>. QED
    BY <2>1, LeftCaused
<1>6. CASE StartReturns(s) \/ CallerCancel(s)
  <2>1. Stage(s)' # "complete" /\ call' = call /\ inserted' = inserted /\ OthersStand
    BY <1>1, <1>6 DEF StartReturns, CallerCancel, vars
  <2>. QED
    BY <2>1, LeftCaused
<1>7. ASSUME NEW t \in Contexts, CallerBegin(s, t)
      PROVE  SeenOK(s)' /\ PresentedOK(s)' /\ OthersStand
  <2>1. Stage(s)' # "complete" /\ call' = call /\ inserted' = inserted /\ OthersStand
    BY <1>1, <1>7 DEF CallerBegin, Begin, serviceVars
  <2>. QED
    BY <2>1, LeftCaused
<1>8. CASE CallerCommit(s)
  <2>1. Stage(s) # "complete" /\ call'[s] = None /\ serving' = serving /\ OthersStand
    BY <1>1, <1>8 DEF CallerCommit, Commit, End, TypeOK, PresentedOK
  <2>. QED
    BY <2>1, LeftCaused
<1>9. CASE CallerRollback(s)
  <2>1. Stage(s)' # "complete" /\ call'[s] = None /\ OthersStand
    BY <1>1, <1>9 DEF CallerRollback, Rollback, End, TypeOK
  <2>. QED
    BY <2>1, LeftCaused
<1>10. CASE CallerAborted(s)
  <2>1. Stage(s)' # "complete" /\ call'[s] = None /\ OthersStand
    BY <1>1, <1>10 DEF CallerAborted, AbortWaiting, Fail, TypeOK
  <2>. QED
    BY <2>1, LeftCaused
<1>. QED
  BY <1>2, <1>3, <1>4, <1>5, <1>6, <1>7, <1>8, <1>9, <1>10 DEF SessionStep, CallerEnds

\* A login URL that leaves start has its row committed, unless its caller's
\* transaction spans the call.
LEMMA StepLinkedOK ==
    ASSUME LoginIInv, CauseInv, [LoginNext]_loginVars, [Next]_vars
    PROVE  LinkedOK'
<1>1. LinkedOK /\ TypeOK
  BY DEF CauseInv, LoginIInv, IInv
<1>2. \A n : n \in rows \/ Gone(n) => n \in rows' \/ Gone(n)'
  BY Survival DEF LoginIInv, Gone
<1>3. \/ \E s \in Session : StartReturns(s)
      \/ UNCHANGED link
  <2>1. ASSUME NEW s \in Session, SessionStep(s), ~StartReturns(s) PROVE UNCHANGED link
    BY <2>1
    DEF SessionStep, StatementReturns, ExchangeEnds, CallerEnds, StartCall, StartFlushed,
        StartRaises, CompleteCall, CompleteConsumed, CompleteRefused, ExchangeSucceeds,
        ExchangeFails, CallerBegin, CallerCommit, CallerRollback, CallerCancel,
        CallerAborted, serviceVars
  <2>. QED
    BY <2>1 DEF LoginNext, UserLogin, serviceVars, loginVars
<1>4. /\ link \subseteq link'
      /\ Spanning = {} => \A n \in link' : n \in rows' \/ Gone(n)'
  <2>1. CASE UNCHANGED link
    BY <1>1, <1>2, <2>1 DEF LinkedOK
  <2>2. ASSUME NEW s \in Session, StartReturns(s)
        PROVE  /\ link \subseteq link'
               /\ Spanning = {} => \A n \in link' : n \in rows' \/ Gone(n)'
    <3>1. link' = link \union {serving[s].row} /\ Stage(s) = "flushed" /\ MayGoOn(s)
      BY <2>2 DEF StartReturns
    <3>2. serving[s].row \in inserted[s] \/ serving[s].row \in rows \/ Gone(serving[s].row)
      BY <3>1 DEF LoginIInv, LInv, FlushedOK, Gone
    <3>3. Spanning = {} => inserted[s] = {}
      BY <1>1, <3>1 DEF MayGoOn, TypeOK
    <3>. QED
      BY <1>1, <1>2, <3>1, <3>2, <3>3 DEF LinkedOK
  <2>. QED
    BY <1>3, <2>1, <2>2
<1>5. \A l \in Login : login'[l] # None => login'[l] \in link'
  <2>1. ASSUME NEW l \in Login, NEW n \in Nonce, UserLogin(l, n)
        PROVE  n \in link /\ \A k \in Login : login'[k] = login[k] \/ login'[k] = n
    BY <2>1 DEF UserLogin, LoginIInv, LoginTyped
  <2>2. ASSUME NEW s \in Session, SessionStep(s) PROVE UNCHANGED login
    BY <2>2, SessionCaused
  <2>3. \/ \E l \in Login, n \in Nonce : UserLogin(l, n)
        \/ UNCHANGED login
    BY <2>2 DEF LoginNext, serviceVars, loginVars
  <2>. QED
    BY <1>1, <1>4, <2>1, <2>3 DEF LinkedOK
<1>. QED
  BY <1>4, <1>5 DEF LinkedOK

LEMMA StepCauseInv == LoginIInv /\ CauseInv /\ [LoginNext]_loginVars => CauseInv'
<1> SUFFICES ASSUME LoginIInv, CauseInv, [LoginNext]_loginVars PROVE CauseInv'
  OBVIOUS
<1>1. [Next]_vars
  BY LoginStepIsStoreStep DEF LoginIInv
<1>2. LinkedOK'
  BY <1>1, StepLinkedOK
<1>3. ASSUME NEW s \in Session, SessionStep(s), NEW u \in Session
      PROVE  SeenOK(u)' /\ PresentedOK(u)'
  <2>1. CASE u = s
    BY <1>1, <1>3, <2>1, SessionCaused
  <2>2. CASE u # s
    <3>1. /\ call'[u] = call[u] /\ serving'[u] = serving[u]
          /\ inserted'[u] = inserted[u] /\ deleted'[u] = deleted[u] /\ UNCHANGED login
      BY <1>1, <1>3, <2>2, SessionCaused
    <3>. QED
      BY <1>1, <3>1, StillCaused
  <2>. QED
    BY <2>1, <2>2
<1>4. ASSUME ~\E s \in Session : SessionStep(s), NEW u \in Session
      PROVE  SeenOK(u)' /\ PresentedOK(u)'
  <2>1. /\ UNCHANGED <<serving, call, inserted, deleted>>
        /\ \A l \in Login : login'[l] = login[l] \/ login[l] = None
    <3>1. CASE \E l \in Login, n \in Nonce : UserLogin(l, n)
      BY <3>1 DEF UserLogin, vars, LoginIInv, LoginTyped
    <3>2. CASE \E k \in Removable : (LockConnection(k) \/ RemovalEnds(k)) /\ UNCHANGED serviceVars
      BY <3>2 DEF LockConnection, RemovalEnds, DropConnection, KeepConnection, serviceVars
    <3>3. CASE UNCHANGED loginVars
      BY <3>3 DEF loginVars, vars, serviceVars
    <3>. QED
      BY <1>4, <3>1, <3>2, <3>3 DEF LoginNext
  <2>. QED
    BY <1>1, <2>1, StillCaused
<1>5. \A u \in Session : SeenOK(u)' /\ PresentedOK(u)'
  BY <1>3, <1>4
<1>. QED
  BY <1>2, <1>5 DEF CauseInv

\* complete refuses the state of a login URL only for one of the causes: a row
\* that another transaction consumed and may give back is waited for, and where
\* callers commit each call of the store a missing row was consumed or removed
\* (complete over the DELETE ... RETURNING of consume).
THEOREM RefusedForCauseHolds == LoginSpec => RefusedForCause
<1>1. ASSUME LoginIInv, CauseInv, [LoginNext]_loginVars, NEW s \in Session,
             Stage(s) = "complete", Stage(s)' = "idle", txn'[s] = "active"
      PROVE  LET n == login[serving[s].login]
             IN  \/ n \in consumed \union deleted[s]
                 \/ ConnectionOf[n] \notin connections
                 \/ context[s] # OwnerOf[n]
                 \/ Spanning # {} /\ n \notin call[s].snapshot
  <2> DEFINE n == login[serving[s].login]
  <2>1. TypeOK /\ DOMAIN serving = Session /\ SeenOK(s) /\ PresentedOK(s)
    BY <1>1 DEF LoginIInv, IInv, LoginTyped, CauseInv
  <2>2. CompleteRefused(s)
    <3>1. ASSUME NEW u \in Session, SessionStep(u) PROVE u = s
      BY <1>1, <3>1, SessionCaused, LoginStepIsStoreStep DEF Stage, LoginIInv
    <3>2. SessionStep(s)
      BY <1>1, <3>1 DEF LoginNext, UserLogin, serviceVars, loginVars, Stage
    <3>. QED
      BY <1>1, <2>1, <3>2
      DEF SessionStep, StatementReturns, ExchangeEnds, CallerEnds, StartCall, StartFlushed,
          StartRaises, StartReturns, CompleteCall, CompleteConsumed, ExchangeSucceeds,
          ExchangeFails, Exchanging, CallerBegin, CallerCommit, CallerRollback, CallerCancel,
          CallerAborted, FlushIntegrityError, FlushDenied, AbortWaiting, Fail, Rollback, End,
          At, Leave, Idle, Stage, serviceVars, vars, PresentedOK, Commit, TypeOK
  <2>3. call[s] # None /\ call[s].op = "consume" /\ Hits(s) = {}
    BY <2>2 DEF CompleteRefused, DeleteNothing, NotFound, Pending
  <2>4. n \in Nonce /\ (Spanning = {} => n \in call[s].snapshot \union deleted[s] \/ Gone(n))
    BY <1>1, <2>1 DEF PresentedOK
  <2>5. ASSUME n \in call[s].snapshot, context[s] = OwnerOf[n], n \notin deleted[s]
        PROVE  Gone(n)
    <3>1. n \notin View(s)
      BY <2>3, <2>5 DEF Hits, Policy
    <3>. QED
      BY <2>1, <2>3, <2>5, <3>1 DEF SeenOK, View
  <2>. QED
    BY <2>4, <2>5 DEF Gone
<1>2. ASSUME LoginIInv, CauseInv, [LoginNext]_loginVars
      PROVE  [\A s \in Session :
                  Stage(s) = "complete" /\ Stage(s)' = "idle" /\ txn'[s] = "active" =>
                     LET n == login[serving[s].login]
                     IN  \/ n \in consumed \union deleted[s]
                         \/ ConnectionOf[n] \notin connections
                         \/ context[s] # OwnerOf[n]
                         \/ Spanning # {} /\ n \notin call[s].snapshot]_loginVars
  BY <1>1, <1>2
<1>. QED
  BY <1>2, LoginInductive, InitCauseInv, StepCauseInv, PTL DEF LoginSpec, RefusedForCause

-----------------------------------------------------------------------------
(* One-time grants: where every caller commits each call of the store.     *)

\* A pending call is one of the service's.
InStep(s) ==
    call[s] # None => Stage(s) = IF call[s].op = "issue" THEN "start" ELSE "complete"

\* A transaction holds the row of the call it serves and no other.
HoldsOwn(s) ==
    /\ inserted[s] \subseteq IF Stage(s) = "flushed" THEN {serving[s].row} ELSE {}
    /\ deleted[s] \subseteq IF Stage(s) = "consumed" THEN {serving[s].row} \intersect rows ELSE {}

\* A callback presents the nonce of the URL its login was made at.
PresentsOwn(s) ==
    /\ Stage(s) \in {"complete", "consumed"} =>
          serving[s].login \in Login /\ login[serving[s].login] \in Nonce
    /\ Stage(s) = "complete" /\ call[s] # None =>
          \A m \in call[s].snapshot : DigestOf[m] = DigestOf[login[serving[s].login]]
    /\ Stage(s) = "consumed" =>
          /\ serving[s].row = login[serving[s].login]
          /\ serving[s].row \in consumed => <<serving[s].row, serving[s].login>> \in taken

Own(s) == InStep(s) /\ HoldsOwn(s) /\ PresentsOwn(s)

TakenOK == \A p \in taken : \E l \in Login : p = <<login[l], l>> /\ login[l] \in consumed

\* A nonce that is being issued was never in the table.
OpenedOK ==
    /\ opened \subseteq spent
    /\ rows \subseteq opened /\ consumed \subseteq opened
    /\ \A s \in Session : inserted[s] \intersect opened = {}
    /\ \A s \in Session, n \in Nonce : Issuing(s, n) => n \notin opened

GInv == TakenOK /\ OpenedOK /\ \A s \in Session : Own(s)

GIInv == LoginIInv /\ GInv

LEMMA InitGIInv == GrantInit => GIInv
<1>1. GrantInit => LoginIInv
  BY InitLoginIInv DEF GrantInit
<1>2. GrantInit => GInv
  BY DEF GrantInit, LoginInit, Init, Idle, Stage, GInv, TakenOK, OpenedOK, Own, InStep,
         HoldsOwn, PresentsOwn, Issuing
<1>. QED
  BY <1>1, <1>2 DEF GIInv

\* A step of one session leaves the calls of the others in order.
LEMMA OthersOwn ==
    ASSUME GIInv, NEW s \in Session, Others(s),
           \A u \in Session \ {s} : call'[u] = call[u],
           UNCHANGED login, taken \subseteq taken',
           \A u \in Session \ {s} : deleted[u] \intersect rows \subseteq rows',
           \A u \in Session \ {s} : Stage(u) = "consumed" /\ serving[u].row \in consumed' =>
               serving[u].row \in consumed
    PROVE  \A u \in Session \ {s} : Own(u)'
<1> SUFFICES ASSUME NEW u \in Session \ {s} PROVE Own(u)'
  OBVIOUS
<1>1. /\ serving'[u] = serving[u] /\ call'[u] = call[u]
      /\ inserted'[u] = inserted[u] /\ deleted'[u] = deleted[u]
  BY DEF Others
<1>2. InStep(u) /\ HoldsOwn(u) /\ PresentsOwn(u)
  BY DEF GIInv, GInv, Own
<1>3. InStep(u)'
  BY <1>1, <1>2 DEF InStep, Stage
<1>4. HoldsOwn(u)'
  BY <1>1, <1>2 DEF HoldsOwn, Stage
<1>5. PresentsOwn(u)'
  BY <1>1, <1>2 DEF PresentsOwn, Stage
<1>. QED
  BY <1>3, <1>4, <1>5 DEF Own

\* When no row is committed or consumed for good, the history stands still.
LEMMA HistoryStands ==
    ASSUME GIInv, Record, rows' \subseteq rows, UNCHANGED consumed
    PROVE  UNCHANGED <<opened, taken>>
<1>1. opened' = opened
  BY DEF Record, GIInv, GInv, OpenedOK
<1>2. Takes = {}
  BY DEF Takes
<1>3. taken' = taken
  BY <1>2 DEF Record
<1>. QED
  BY <1>1, <1>3

\* A step of a session that neither commits nor ends an exchange.
LEMMA QuietGrants ==
    ASSUME GIInv, Record, NEW s \in Session, Others(s),
           \A u \in Session \ {s} : call'[u] = call[u],
           UNCHANGED <<rows, consumed, login>>, spent \subseteq spent',
           \A n \in Nonce : Issuing(s, n)' => Issuing(s, n) \/ n \notin spent,
           \A n \in inserted'[s] : n \in Nonce /\ (n \in inserted[s] \/ Issuing(s, n)),
           UNCHANGED taken => Own(s)'
    PROVE  GInv' /\ UNCHANGED <<opened, taken>>
<1>1. UNCHANGED <<opened, taken>>
  BY HistoryStands
<1>2. \A u \in Session : Own(u)'
  BY <1>1, OthersOwn
<1>3. TakenOK'
  BY <1>1 DEF GIInv, GInv, TakenOK
<1>4. OpenedOK'
  <2>1. OpenedOK
    BY DEF GIInv, GInv
  <2>2. \A u \in Session \ {s}, n \in Nonce : Issuing(u, n)' => Issuing(u, n)
    BY DEF Issuing
  <2>3. \A u \in Session, n \in Nonce : Issuing(u, n)' => n \notin opened
    BY <2>1, <2>2 DEF OpenedOK
  <2>4. \A u \in Session : inserted'[u] \intersect opened = {}
    BY <2>1 DEF OpenedOK, Others
  <2>. QED
    BY <1>1, <2>1, <2>3, <2>4 DEF OpenedOK
<1>. QED
  BY <1>1, <1>2, <1>3, <1>4 DEF GInv

LEMMA GrantsUnchanged ==
    ASSUME UNCHANGED <<opened, taken, consumed, succeeded>>
    PROVE  UNCHANGED OTG!vars
BY DEF OTG!vars, Redeemed

\* Inside a call of start or complete up to the exchange.
LEMMA StatementGrants ==
    ASSUME GIInv, CommittingCallers, Record, NEW s \in Session,
           \/ \E n \in Nonce : StartCall(s, n)
           \/ \E l \in Login : CompleteCall(s, l)
           \/ StatementReturns(s)
    PROVE  GInv' /\ UNCHANGED OTG!vars
<1>1. /\ TypeOK /\ LoginTyped /\ Apart /\ Own(s)
      /\ DOMAIN serving = Session /\ DOMAIN results = Session
  BY DEF GIInv, LoginIInv, IInv, Placed, LoginTyped, GInv
<1>2. ASSUME NEW n \in Nonce, StartCall(s, n) PROVE GInv' /\ UNCHANGED OTG!vars
  <2>1. /\ serving[s] = Idle /\ Stage(s)' = "start"
        /\ call'[s] = [op |-> "issue", nonce |-> n] /\ n \notin spent
        /\ spent' = spent \union {n}
        /\ UNCHANGED <<rows, consumed, login, inserted, deleted, succeeded>>
        /\ Others(s) /\ \A u \in Session \ {s} : call'[u] = call[u]
    BY <1>1, <1>2 DEF StartCall, Issue, At, Stage, Others, TypeOK, tables
  <2>2. Own(s)'
    BY <1>1, <2>1 DEF Own, InStep, HoldsOwn, PresentsOwn, Stage, Idle
  <2>3. \A m \in Nonce : Issuing(s, m)' => m \notin spent
    BY <2>1 DEF Issuing
  <2>4. inserted'[s] = inserted[s] /\ inserted[s] \subseteq Nonce
    BY <1>1, <2>1 DEF TypeOK
  <2>. QED
    BY <2>1, <2>2, <2>3, <2>4, QuietGrants, GrantsUnchanged
<1>3. ASSUME NEW n \in Nonce, StartFlushed(s, n) PROVE GInv' /\ UNCHANGED OTG!vars
  <2>1. /\ call[s] # None /\ call[s].op = "issue" /\ call[s].nonce = n /\ call'[s] = None
        /\ serving'[s] = [stage |-> "flushed", login |-> None, row |-> n]
        /\ inserted'[s] = inserted[s] \union {n} /\ deleted'[s] = deleted[s]
        /\ UNCHANGED <<rows, consumed, spent, login, succeeded>>
        /\ Others(s) /\ \A u \in Session \ {s} : call'[u] = call[u]
    BY <1>1, <1>3
    DEF StartFlushed, FlushInsert, Insertable, Pending, Done, At, Others, TypeOK, tables
  <2>2. inserted[s] = {} /\ deleted[s] = {} /\ Issuing(s, n)
    BY <1>1, <2>1 DEF Own, InStep, HoldsOwn, Issuing
  <2>3. Own(s)'
    BY <2>1, <2>2 DEF Own, InStep, HoldsOwn, PresentsOwn, Stage
  <2>4. \A m \in Nonce : ~Issuing(s, m)'
    BY <2>1 DEF Issuing
  <2>. QED
    BY <2>1, <2>2, <2>3, <2>4, QuietGrants, GrantsUnchanged
<1>4. ASSUME NEW n \in Nonce, StartRaises(s, n) PROVE GInv' /\ UNCHANGED OTG!vars
  <2>1. \E error \in {"NonceConflictError", "denied"} : Fail(s, error)
    BY <1>4 DEF StartRaises, FlushIntegrityError, FlushDenied
  <2>2. /\ Stage(s)' = "idle" /\ call'[s] = None /\ inserted'[s] = {} /\ deleted'[s] = {}
        /\ UNCHANGED <<rows, consumed, spent, login, succeeded>>
        /\ Others(s) /\ \A u \in Session \ {s} : call'[u] = call[u]
    BY <1>1, <1>4, <2>1
    DEF StartRaises, Fail, Leave, Idle, Stage, Others, TypeOK, tables, history
  <2>3. Own(s)' /\ \A m \in Nonce : ~Issuing(s, m)'
    BY <2>2 DEF Own, InStep, HoldsOwn, PresentsOwn, Issuing
  <2>. QED
    BY <2>2, <2>3, QuietGrants, GrantsUnchanged
<1>5. ASSUME NEW l \in Login, CompleteCall(s, l) PROVE GInv' /\ UNCHANGED OTG!vars
  <2>1. /\ serving[s] = Idle /\ login[l] \in Nonce
        /\ serving'[s] = [stage |-> "complete", login |-> l, row |-> None]
        /\ call'[s] = [op |-> "consume",
                       snapshot |-> {n \in View(s) : DigestOf[n] = DigestOf[login[l]]}]
        /\ UNCHANGED <<rows, consumed, spent, login, inserted, deleted, succeeded>>
        /\ Others(s) /\ \A u \in Session \ {s} : call'[u] = call[u]
    BY <1>1, <1>5
    DEF CompleteCall, Consume, At, Stage, Others, TypeOK, LoginTyped, tables, history
  <2>2. Own(s)'
    BY <1>1, <2>1 DEF Own, InStep, HoldsOwn, PresentsOwn, Stage, Idle
  <2>3. \A m \in Nonce : ~Issuing(s, m)'
    BY <2>1 DEF Issuing
  <2>4. inserted'[s] = inserted[s] /\ inserted[s] \subseteq Nonce
    BY <1>1, <2>1 DEF TypeOK
  <2>. QED
    BY <2>1, <2>2, <2>3, <2>4, QuietGrants, GrantsUnchanged
<1>6. ASSUME NEW n \in Nonce, CompleteConsumed(s, n) PROVE GInv' /\ UNCHANGED OTG!vars
  <2> DEFINE l == serving[s].login
  <2>1. /\ call[s] # None /\ call[s].op = "consume" /\ call'[s] = None
        /\ serving'[s] = [stage |-> "consumed", login |-> l, row |-> n]
        /\ inserted'[s] = inserted[s] \ {n} /\ deleted'[s] = deleted[s] \union {n}
        /\ n \in View(s) /\ n \in call[s].snapshot
        /\ UNCHANGED <<rows, consumed, spent, login, succeeded>>
        /\ Others(s) /\ \A u \in Session \ {s} : call'[u] = call[u]
    BY <1>1, <1>6
    DEF CompleteConsumed, DeleteReturning, Found, Pending, Hits, Done, At, Others, TypeOK,
        tables
  <2>2. Stage(s) = "complete" /\ inserted[s] = {} /\ deleted[s] = {}
    BY <1>1, <2>1 DEF Own, InStep, HoldsOwn
  <2>3. l \in Login /\ login[l] \in Nonce /\ DigestOf[n] = DigestOf[login[l]]
    BY <1>1, <2>1, <2>2 DEF Own, PresentsOwn
  <2>4. n = login[l]
    BY <2>1, <2>3 DEF CommittingCallers
  <2>5. n \in rows /\ n \notin consumed
    BY <1>1, <2>1, <2>2 DEF View, Apart
  <2>6. Own(s)'
    BY <2>1, <2>2, <2>3, <2>4, <2>5 DEF Own, InStep, HoldsOwn, PresentsOwn, Stage
  <2>7. \A m \in Nonce : ~Issuing(s, m)'
    BY <2>1 DEF Issuing
  <2>. QED
    BY <2>1, <2>2, <2>6, <2>7, QuietGrants, GrantsUnchanged
<1>7. ASSUME CompleteRefused(s) PROVE GInv' /\ UNCHANGED OTG!vars
  <2>1. /\ call[s] # None /\ call[s].op = "consume" /\ call'[s] = None
        /\ Stage(s)' = "idle"
        /\ UNCHANGED <<rows, consumed, spent, login, inserted, deleted, succeeded>>
        /\ Others(s) /\ \A u \in Session \ {s} : call'[u] = call[u]
    BY <1>1, <1>7
    DEF CompleteRefused, DeleteNothing, NotFound, Pending, Done, Leave, Idle, Stage, Others,
        TypeOK, tables
  <2>2. inserted[s] = {} /\ deleted[s] = {}
    BY <1>1, <2>1 DEF Own, InStep, HoldsOwn
  <2>3. Own(s)' /\ \A m \in Nonce : ~Issuing(s, m)'
    BY <2>1, <2>2 DEF Own, InStep, HoldsOwn, PresentsOwn, Issuing
  <2>. QED
    BY <2>1, <2>2, <2>3, QuietGrants, GrantsUnchanged
<1>. QED
  BY <1>2, <1>3, <1>4, <1>5, <1>6, <1>7 DEF StatementReturns

\* The transaction of a call that was flushed or consumed is over before the
\* service goes on.
LEMMA HoldsNothing ==
    ASSUME TypeOK, NEW s \in Session, txn[s] = "none"
    PROVE  inserted[s] = {} /\ deleted[s] = {} /\ call[s] = None
BY DEF TypeOK

\* The session's call is over and its transaction, if it has one, holds no row.
CallOver(s) ==
    /\ Stage(s)' = "idle" /\ call'[s] = None /\ inserted'[s] = {} /\ deleted'[s] = {}
    /\ UNCHANGED <<rows, consumed, spent, login, succeeded>>
    /\ Others(s) /\ \A u \in Session \ {s} : call'[u] = call[u]

\* A call that returned, was cancelled, or lost its transaction.
LEMMA EndedGrants ==
    ASSUME GIInv, CommittingCallers, Record, NEW s \in Session,
           \/ StartReturns(s)
           \/ \E l \in Login : \E reached \in SUBSET {l} : ExchangeFails(s, l, reached)
           \/ \E t \in Contexts : CallerBegin(s, t)
           \/ CallerRollback(s) \/ CallerCancel(s) \/ CallerAborted(s)
    PROVE  GInv' /\ UNCHANGED OTG!vars
<1>1. TypeOK /\ Own(s) /\ DOMAIN serving = Session /\ DOMAIN results = Session
  BY DEF GIInv, LoginIInv, IInv, LoginTyped, GInv
<1>2. CallOver(s)
  <2> USE DEF CallOver
  <2>1. CASE StartReturns(s)
    <3>1. txn[s] = "none"
      BY <2>1 DEF StartReturns, MayGoOn, CommittingCallers
    <3>. QED
      BY <1>1, <2>1, <3>1, HoldsNothing
      DEF StartReturns, vars, tables, history, Leave, Idle, Stage, Others
  <2>2. ASSUME NEW l \in Login, NEW reached \in SUBSET {l}, ExchangeFails(s, l, reached)
        PROVE  CallOver(s)
    <3>1. txn[s] = "none"
      BY <2>2 DEF ExchangeFails, Exchanging, MayGoOn, CommittingCallers
    <3>. QED
      BY <1>1, <2>2, <3>1, HoldsNothing
      DEF ExchangeFails, vars, tables, history, Leave, Idle, Stage, Others
  <2>3. ASSUME NEW t \in Contexts, CallerBegin(s, t) PROVE CallOver(s)
    BY <1>1, <2>3, HoldsNothing
    DEF CallerBegin, Begin, serviceVars, tables, history, Idle, Stage, Others, TypeOK
  <2>4. CASE CallerRollback(s)
    BY <1>1, <2>4
    DEF CallerRollback, Rollback, End, Leave, Idle, Stage, Others, TypeOK, tables, history
  <2>5. CASE CallerCancel(s)
    BY <1>1, <2>5, HoldsNothing
    DEF CallerCancel, vars, tables, history, Leave, Idle, Stage, Others
  <2>6. CASE CallerAborted(s)
    BY <1>1, <2>6
    DEF CallerAborted, AbortWaiting, Fail, Leave, Idle, Stage, Others, TypeOK, tables, history
  <2>. QED
    BY <2>1, <2>2, <2>3, <2>4, <2>5, <2>6
<1>3. Own(s)' /\ \A m \in Nonce : ~Issuing(s, m)'
  BY <1>2 DEF CallOver, Own, InStep, HoldsOwn, PresentsOwn, Issuing
<1>. QED
  BY <1>2, <1>3, QuietGrants, GrantsUnchanged DEF CallOver

\* A successful exchange redeems the grant its login took when the consumption
\* was committed.
LEMMA ExchangeGrants ==
    ASSUME GIInv, CommittingCallers, Record, NEW s \in Session, NEW l \in Login,
           ExchangeSucceeds(s, l)
    PROVE  GInv' /\ OTG!Next
<1> DEFINE n == serving[s].row
           result == [login |-> l, row |-> n, by |-> s]
<1>1. TypeOK /\ Own(s) /\ DOMAIN serving = Session /\ DOMAIN results = Session
  BY DEF GIInv, LoginIInv, IInv, LoginTyped, GInv
<1>2. txn[s] = "none" /\ Stage(s) = "consumed" /\ serving[s].login = l
  BY DEF ExchangeSucceeds, Exchanging, MayGoOn, CommittingCallers
<1>3. inserted[s] = {} /\ deleted[s] = {} /\ call[s] = None
  BY <1>1, <1>2, HoldsNothing
<1>4. /\ Stage(s)' = "idle" /\ call' = call /\ inserted' = inserted /\ deleted' = deleted
      /\ UNCHANGED <<rows, consumed, spent, login>>
      /\ succeeded' = succeeded \union {result}
      /\ Others(s)
  BY <1>1, <1>2
  DEF ExchangeSucceeds, vars, tables, history, Leave, Idle, Stage, Others
<1>5. Own(s)' /\ \A m \in Nonce : ~Issuing(s, m)'
  BY <1>3, <1>4 DEF Own, InStep, HoldsOwn, PresentsOwn, Issuing
<1>6. GInv' /\ UNCHANGED <<opened, taken>>
  BY <1>3, <1>4, <1>5, QuietGrants
<1>7. n \in consumed /\ \A g \in committed : g.row # n
  BY <1>2, <1>3 DEF GIInv, LoginIInv, LInv, WaitingOK
<1>8. <<n, l>> \in taken /\ n \in Nonce
  BY <1>1, <1>2, <1>7 DEF Own, PresentsOwn
<1>9. \A g \in succeeded : g.row # n
  BY <1>7 DEF GIInv, LoginIInv, LInv, SucceededOK, CommittingCallers
<1>10. <<n, l>> \notin Redeemed
  BY <1>9 DEF Redeemed
<1>11. Redeemed' = Redeemed \union {<<n, l>>}
  <2>1. result.row = n /\ result.login = l
    OBVIOUS
  <2> HIDE DEF result
  <2>2. \A p : p \in Redeemed' <=> \E g \in succeeded' : p = <<g.row, g.login>>
    BY DEF Redeemed
  <2>3. \A p : p \in Redeemed <=> \E g \in succeeded : p = <<g.row, g.login>>
    BY DEF Redeemed
  <2>. QED
    BY <1>4, <2>1, <2>2, <2>3
<1>12. OTG!Redeem(n, l)
  <2>1. <<n, l>> \in taken \ Redeemed
    BY <1>8, <1>10
  <2>2. opened' \ consumed' = opened \ consumed /\ taken' = taken
    BY <1>4, <1>6
  <2>. QED
    BY <1>11, <2>1, <2>2 DEF OTG!Redeem
<1>. QED
  BY <1>6, <1>8, <1>12 DEF OTG!Next

\* The commit of a start call opens a grant, that of a complete call takes one.
LEMMA CommitGrants ==
    ASSUME GIInv, CommittingCallers, Record, NEW s \in Session, CallerCommit(s)
    PROVE  GInv' /\ [OTG!Next]_OTG!vars
<1> DEFINE n == serving[s].row
           l == serving[s].login
<1>1. /\ TypeOK /\ Apart /\ IssuedIsFresh /\ TakenOK /\ OpenedOK /\ Own(s)
      /\ DOMAIN serving = Session /\ DOMAIN results = Session
      /\ LInv /\ LoginTyped
  BY DEF GIInv, LoginIInv, IInv, Placed, LoginTyped, GInv
<1>2. /\ rows' = (rows \ deleted[s]) \union inserted[s]
      /\ consumed' = consumed \union deleted[s]
      /\ call[s] = None
      /\ call'[s] = None /\ inserted'[s] = {} /\ deleted'[s] = {}
      /\ UNCHANGED <<serving, login, spent, succeeded>>
      /\ Others(s) /\ \A u \in Session \ {s} : call'[u] = call[u]
  BY <1>1 DEF CallerCommit, Commit, View, End, TypeOK, Others
<1>3. opened' = opened \union inserted[s] /\ taken \subseteq taken'
  BY <1>1, <1>2 DEF Record, OpenedOK
<1>4. ASSUME NEW u \in Session \ {s}
      PROVE  /\ deleted[u] \intersect rows \subseteq rows'
             /\ Stage(u) = "consumed" /\ serving[u].row \in consumed' => serving[u].row \in consumed
  <2>1. deleted[u] \intersect deleted[s] = {} /\ deleted[s] \intersect consumed = {}
    BY <1>1 DEF Apart
  <2>2. Stage(u) = "consumed" => serving[u].row \in deleted[u] \union consumed
    BY <1>1 DEF LInv, WaitingOK
  <2>. QED
    BY <1>2, <2>1, <2>2
<1>5. Takes = {u \in {s} : Stage(s) = "consumed" /\ n \in deleted[s]}
  BY <1>1, <1>2, <1>4 DEF Takes, Apart
<1>6. Own(s)'
  <2>1. InStep(s)' /\ HoldsOwn(s)'
    BY <1>2 DEF InStep, HoldsOwn
  <2>2. ASSUME Stage(s) = "consumed", n \in consumed' PROVE <<n, l>> \in taken'
    <3>1. CASE n \in consumed
      BY <1>1, <1>3, <2>2, <3>1 DEF Own, PresentsOwn
    <3>2. CASE n \in deleted[s]
      BY <1>5, <2>2, <3>2 DEF Record
    <3>. QED
      BY <1>2, <2>2, <3>1, <3>2
  <2>3. PresentsOwn(s)'
    BY <1>1, <1>2, <2>2 DEF Own, PresentsOwn, Stage
  <2>. QED
    BY <2>1, <2>3 DEF Own
<1>7. \A u \in Session : Own(u)'
  BY <1>2, <1>3, <1>4, <1>6, OthersOwn
<1>8. OpenedOK'
  <2>1. \A u \in Session, m \in Nonce : Issuing(u, m)' => Issuing(u, m)
    BY <1>2 DEF Issuing
  <2>2. \A u \in Session, m \in Nonce : Issuing(u, m)' => m \notin opened'
    BY <1>1, <1>3, <2>1 DEF OpenedOK, IssuedIsFresh
  <2>3. \A u \in Session : inserted'[u] \intersect opened' = {}
    BY <1>1, <1>2, <1>3 DEF OpenedOK, Others, Apart
  <2>4. inserted[s] \subseteq spent
    BY DEF GIInv, LoginIInv, IInv, Placed, SpentOnce
  <2>5. deleted[s] \subseteq rows
    BY <1>1 DEF Own, HoldsOwn
  <2>. QED
    BY <1>1, <1>2, <1>3, <2>2, <2>3, <2>4, <2>5 DEF OpenedOK
<1>9. CASE deleted[s] # {}
  <2>1. /\ Stage(s) = "consumed" /\ deleted[s] = {n} /\ inserted[s] = {} /\ n \in rows
        /\ n \in Nonce /\ l \in Login /\ n = login[l]
    BY <1>1, <1>9 DEF Own, HoldsOwn, PresentsOwn
  <2>2. taken' = taken \union {<<n, l>>} /\ opened' = opened
    BY <1>3, <1>5, <2>1 DEF Record
  <2>3. n \in opened /\ n \notin consumed
    BY <1>1, <2>1 DEF OpenedOK, Apart
  <2>4. TakenOK'
    BY <1>1, <1>2, <2>1, <2>2 DEF TakenOK
  <2>5. OTG!Holdings(l) = {}
    BY <1>1, <2>1, <2>3 DEF OTG!Holdings, TakenOK
  <2>6. OTG!Take(n, l)
    BY <1>2, <2>1, <2>2, <2>3, <2>5 DEF OTG!Take, Redeemed
  <2>. QED
    BY <1>7, <1>8, <2>1, <2>4, <2>6 DEF GInv, OTG!Next
<1>10. CASE deleted[s] = {}
  <2>1. taken' = taken /\ consumed' = consumed
    BY <1>2, <1>5, <1>10 DEF Record
  <2>2. TakenOK'
    BY <1>1, <1>2, <2>1 DEF TakenOK
  <2>3. ASSUME NEW m \in inserted[s] PROVE OTG!Next
    <3>1. inserted[s] = {m} /\ m \in Nonce /\ m \notin opened
      BY <1>1, <2>3 DEF Own, HoldsOwn, OpenedOK, TypeOK
    <3>2. OTG!Takers(m) = {}
      BY <1>1, <3>1 DEF OTG!Takers, TakenOK, OpenedOK
    <3>3. OTG!Open(m)
      BY <1>1, <1>2, <1>3, <2>1, <3>1, <3>2 DEF OTG!Open, OpenedOK, Redeemed
    <3>. QED
      BY <3>1, <3>3 DEF OTG!Next
  <2>4. inserted[s] = {} => UNCHANGED OTG!vars
    BY <1>2, <1>3, <2>1, GrantsUnchanged
  <2>. QED
    BY <1>7, <1>8, <2>2, <2>3, <2>4 DEF GInv
<1>. QED
  BY <1>9, <1>10

\* The user and the removal of a connection touch no call; a login that was
\* not made yet took nothing.
LEMMA OutsideGrants ==
    ASSUME GIInv, Record,
           \/ \E l \in Login, n \in Nonce : UserLogin(l, n)
           \/ \E k \in Removable : (LockConnection(k) \/ RemovalEnds(k)) /\ UNCHANGED serviceVars
           \/ UNCHANGED loginVars
    PROVE  GInv' /\ UNCHANGED OTG!vars
<1>1. TypeOK /\ LoginTyped /\ TakenOK /\ OpenedOK /\ \A s \in Session : Own(s)
  BY DEF GIInv, LoginIInv, IInv, GInv
<1>2. /\ UNCHANGED <<serving, call, inserted, deleted, spent, consumed, succeeded>>
      /\ rows' \subseteq rows
      /\ \A s \in Session : deleted[s] \intersect rows \subseteq rows'
  <2>1. ASSUME NEW k \in Removable, DropConnection(k)
        PROVE  /\ UNCHANGED <<call, inserted, deleted, spent, consumed>>
               /\ rows' = {n \in rows : ConnectionOf[n] # k}
               /\ \A s \in Session : \A n \in deleted[s] : ConnectionOf[n] # k
    BY <2>1 DEF DropConnection, history, GIInv, LoginIInv, IInv, Referenced
  <2>2. ASSUME NEW k \in Removable, LockConnection(k) \/ KeepConnection(k)
        PROVE  UNCHANGED <<rows, call, inserted, deleted, spent, consumed>>
    BY <2>2 DEF LockConnection, KeepConnection, history
  <2>. QED
    BY <2>1, <2>2 DEF RemovalEnds, UserLogin, serviceVars, loginVars, vars, tables, history
<1>3. \A l \in Login : login'[l] = login[l] \/ login[l] = None
  BY <1>1 DEF UserLogin, serviceVars, loginVars, LoginTyped
<1>4. UNCHANGED <<opened, taken>>
  BY <1>2, HistoryStands
<1>5. None \notin Nonce
  BY LoginAssumption
<1>6. TakenOK'
  BY <1>1, <1>2, <1>3, <1>4, <1>5 DEF TakenOK, TypeOK
<1>7. OpenedOK'
  BY <1>1, <1>2, <1>4 DEF OpenedOK, Issuing
<1>8. ASSUME NEW s \in Session PROVE Own(s)'
  <2>1. InStep(s) /\ HoldsOwn(s) /\ PresentsOwn(s)
    BY <1>1 DEF Own
  <2>2. InStep(s)' /\ HoldsOwn(s)'
    BY <1>2, <2>1 DEF InStep, HoldsOwn, Stage
  <2>3. PresentsOwn(s)'
    BY <1>2, <1>3, <1>4, <1>5, <2>1 DEF PresentsOwn, Stage
  <2>. QED
    BY <2>2, <2>3 DEF Own
<1>. QED
  BY <1>2, <1>4, <1>6, <1>7, <1>8, GrantsUnchanged DEF GInv

LEMMA StepGIInv ==
    ASSUME CommittingCallers
    PROVE  GIInv /\ [GrantNext]_grantVars => GIInv' /\ [OTG!Next]_OTG!vars
<1> SUFFICES ASSUME GIInv, [GrantNext]_grantVars PROVE GIInv' /\ [OTG!Next]_OTG!vars
  OBVIOUS
<1>1. [LoginNext]_loginVars /\ Record
  <2>1. CASE GrantNext
    BY <2>1 DEF GrantNext
  <2>2. CASE UNCHANGED grantVars
    <3>1. UNCHANGED <<loginVars, opened, taken>>
      BY <2>2 DEF grantVars
    <3>2. UNCHANGED <<rows, consumed>>
      BY <3>1 DEF loginVars, vars, tables, history
    <3>3. Takes = {}
      BY <3>2 DEF Takes
    <3>. QED
      BY <3>1, <3>2, <3>3 DEF Record, GIInv, GInv, OpenedOK
  <2>. QED
    BY <2>1, <2>2
<1>2. LoginIInv'
  BY <1>1, StepLoginIInv DEF GIInv
<1>3. GInv' /\ [OTG!Next]_OTG!vars
  <2>1. ASSUME NEW s \in Session, SessionStep(s) PROVE GInv' /\ [OTG!Next]_OTG!vars
    <3>1. CASE \/ \E n \in Nonce : StartCall(s, n)
               \/ \E l \in Login : CompleteCall(s, l)
               \/ StatementReturns(s)
      BY <1>1, <3>1, StatementGrants
    <3>2. CASE \/ StartReturns(s)
               \/ \E l \in Login : \E reached \in SUBSET {l} : ExchangeFails(s, l, reached)
               \/ \E t \in Contexts : CallerBegin(s, t)
               \/ CallerRollback(s) \/ CallerCancel(s) \/ CallerAborted(s)
      BY <1>1, <3>2, EndedGrants
    <3>3. CASE \E l \in Login : ExchangeSucceeds(s, l)
      BY <1>1, <3>3, ExchangeGrants
    <3>4. CASE CallerCommit(s)
      BY <1>1, <3>4, CommitGrants
    <3>. QED
      BY <2>1, <3>1, <3>2, <3>3, <3>4 DEF SessionStep, ExchangeEnds, CallerEnds
  <2>2. CASE \/ \E l \in Login, n \in Nonce : UserLogin(l, n)
             \/ \E k \in Removable : (LockConnection(k) \/ RemovalEnds(k)) /\ UNCHANGED serviceVars
             \/ UNCHANGED loginVars
    BY <1>1, <2>2, OutsideGrants
  <2>. QED
    BY <1>1, <2>1, <2>2 DEF LoginNext
<1>. QED
  BY <1>2, <1>3 DEF GIInv

\* Over the SQL store the service keeps the promise that KiteAuthorization keeps
\* over an atomic one, if its callers commit each call of the store before the
\* service goes on.
THEOREM GrantsHold ==
    ASSUME CommittingCallers
    PROVE  GrantSpec => ImplementsOneTimeGrant
<1>1. GrantInit => OTG!Init
  BY DEF GrantInit, LoginInit, Init, OTG!Init, Redeemed
<1>2. GIInv /\ [GrantNext]_grantVars => GIInv' /\ [OTG!Next]_OTG!vars
  BY StepGIInv
<1>. QED
  BY <1>1, <1>2, InitGIInv, PTL DEF GrantSpec, ImplementsOneTimeGrant, OTG!Spec

\* The promise of docs/decisions/0011, that a callback can succeed only once,
\* holds whenever no caller's transaction spans a call of the service.
THEOREM SucceedsOnceWhenCommitting ==
    ASSUME Spanning = {}
    PROVE  LoginSpec => []CallbackSucceedsOnce
<1>1. ReplayNeedsRollback => CallbackSucceedsOnce
  BY DEF ReplayNeedsRollback, CallbackSucceedsOnce
<1>. QED
  BY <1>1, ReplayNeedsRollbackHolds, PTL

\* With the service on top, committed transactions are still transactions on the
\* one table.
THEOREM LoginImplementsNonceTable == LoginSpec => ImplementsNonceTable
BY LoginKeepsStore, ImplementsNonceTableHolds, PTL

=============================================================================
