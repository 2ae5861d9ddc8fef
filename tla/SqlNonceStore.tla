--------------------------- MODULE SqlNonceStore ---------------------------
(***************************************************************************)
(* SqlAlchemyAuthorizationNonceStore (persistence/nonce_store.py) over the *)
(* authorization_nonces table of migration 0001: issue and consume called  *)
(* in the transactions of concurrent AsyncSessions.                        *)
(*                                                                         *)
(* The store flushes and deletes; it never commits.  Beginning a           *)
(* transaction, establishing its tenant, committing, rolling back and      *)
(* dying are the callers' doing.  The engine is PostgreSQL at READ         *)
(* COMMITTED: a DELETE looks for the rows it saw when it began, and a      *)
(* statement waits for the transaction that holds the row or the key it    *)
(* needs.  Removing a connection takes its nonces along (ON DELETE         *)
(* CASCADE); the removal gets all its locks at one instant.                *)
(***************************************************************************)
EXTENDS FiniteSets

CONSTANTS
    Session,       \* AsyncSessions, each with one transaction at a time
    Nonce,         \* the StoredAuthorizationNonce objects handed to issue
    Digest,        \* their digests
    Connection,    \* broker connections
    Tenant,
    DigestOf,      \* Nonce -> Digest
    ConnectionOf,  \* Nonce -> Connection
    TenantOf,      \* Connection -> Tenant
    OwnerOf,       \* Nonce -> Tenant: the tenant_id of the object
    Contexts,      \* contexts that callers establish (a bound)
    Removable,     \* connections that may be removed (a bound)
    None

VARIABLES
    rows,         \* committed rows of authorization_nonces, by the object they store
    connections,  \* committed rows of broker_connections
    removing,     \* connections an open removal has locked
    txn,          \* Session -> "none", "active" or "failed"
    context,      \* Session -> its app.tenant_id, or None when unset
    call,         \* Session -> the pending call, or None
    inserted,     \* Session -> rows its transaction inserted
    deleted,      \* Session -> rows its transaction consumed
    raised,       \* Session -> the error its last call ended with, or None
    spent,        \* nonces that were handed to issue
    consumed      \* nonces whose consumption was committed

tables == <<rows, connections, removing>>
history == <<spent, consumed>>
vars == <<tables, txn, context, call, inserted, deleted, raised, history>>

\* A pending DELETE knows the rows of its digest that it saw when it began.
Calls ==
    [op : {"issue"}, nonce : Nonce] \union [op : {"consume"}, snapshot : SUBSET Nonce]

ASSUME StoreAssumption ==
    /\ DigestOf \in [Nonce -> Digest]
    /\ ConnectionOf \in [Nonce -> Connection]
    /\ TenantOf \in [Connection -> Tenant]
    /\ OwnerOf \in [Nonce -> Tenant]
    /\ Contexts \subseteq Tenant \union {None}
    /\ Removable \subseteq Connection
    /\ None \notin Tenant \union Calls
    /\ None \notin {"NonceConflictError", "denied", "aborted"}

-----------------------------------------------------------------------------
Init ==
    /\ rows = {}
    /\ connections = Connection
    /\ removing = {}
    /\ txn = [s \in Session |-> "none"]
    /\ context = [s \in Session |-> None]
    /\ call = [s \in Session |-> None]
    /\ inserted = [s \in Session |-> {}]
    /\ deleted = [s \in Session |-> {}]
    /\ raised = [s \in Session |-> None]
    /\ spent = {}
    /\ consumed = {}

-----------------------------------------------------------------------------
(* What a transaction sees and what it waits for.                          *)

View(s) == (rows \ deleted[s]) \union inserted[s]

\* The row-level security policy, in its USING and its WITH CHECK form.
Policy(s, n) == context[s] = OwnerOf[n]

\* Mutant: the foreign key is on the connection's id alone.
RefersById(n) == ConnectionOf[n] \in connections

\* The composite foreign key: the connection exists and has the row's tenant.
Refers(n) == ConnectionOf[n] \in connections /\ TenantOf[ConnectionOf[n]] = OwnerOf[n]

\* Rows that go with a connection if its open removal is committed.
Leaving == {n \in rows : ConnectionOf[n] \in removing}

\* Rows another open transaction inserted or deleted.
Contended(s) == Leaving \union UNION {inserted[u] \union deleted[u] : u \in Session \ {s}}
InOpenTransactions == UNION {inserted[u] \union deleted[u] : u \in Session}
SameKey(n) == {m \in Nonce : DigestOf[m] = DigestOf[n]}

\* Rows s's pending DELETE would still delete: those it saw that are there.
Hits(s) == {n \in call[s].snapshot \intersect View(s) : Policy(s, n)}

Pending(s, op) ==
    /\ txn[s] = "active"
    /\ call[s] # None
    /\ call[s].op = op

\* The call ends well, or with an error that undoes the transaction.
Done(s) ==
    /\ call' = [call EXCEPT ![s] = None]
    /\ raised' = [raised EXCEPT ![s] = None]
    /\ UNCHANGED <<tables, txn, context, spent, consumed>>

\* Mutant: a failed statement leaves the transaction's rows in place.
FailKeepsRows(s, error) ==
    /\ call' = [call EXCEPT ![s] = None]
    /\ raised' = [raised EXCEPT ![s] = error]
    /\ txn' = [txn EXCEPT ![s] = "failed"]
    /\ UNCHANGED <<tables, context, inserted, deleted, history>>

Fail(s, error) ==
    /\ call' = [call EXCEPT ![s] = None]
    /\ raised' = [raised EXCEPT ![s] = error]
    /\ txn' = [txn EXCEPT ![s] = "failed"]
    /\ inserted' = [inserted EXCEPT ![s] = {}]
    /\ deleted' = [deleted EXCEPT ![s] = {}]
    /\ UNCHANGED <<tables, context, history>>

-----------------------------------------------------------------------------
(* issue: add the row and flush.                                           *)

Issue(s, n) ==
    /\ txn[s] = "active"
    /\ call[s] = None
    /\ n \notin spent
    /\ call' = [call EXCEPT ![s] = [op |-> "issue", nonce |-> n]]
    /\ spent' = spent \union {n}
    /\ UNCHANGED <<tables, txn, context, inserted, deleted, raised, consumed>>

Duplicate(s, n) == SameKey(n) \intersect View(s) # {}

Insertable(s, n) ==
    /\ Pending(s, "issue") /\ call[s].nonce = n
    /\ Policy(s, n)
    /\ SameKey(n) \intersect Contended(s) = {}
    /\ ~Duplicate(s, n)
    /\ Refers(n) /\ ConnectionOf[n] \notin removing

FlushInsert(s, n) ==
    /\ Insertable(s, n)
    /\ inserted' = [inserted EXCEPT ![s] = @ \union {n}]
    /\ Done(s)
    /\ UNCHANGED deleted

\* The digest is taken, or the connection is gone or another tenant's.
Conflicting(s, n) ==
    /\ Pending(s, "issue") /\ call[s].nonce = n
    /\ Policy(s, n)
    /\ SameKey(n) \intersect Contended(s) = {}
    /\ Duplicate(s, n) \/ ~Refers(n)

\* An IntegrityError of either kind becomes a NonceConflictError.
FlushIntegrityError(s, n) ==
    /\ Conflicting(s, n)
    /\ Fail(s, "NonceConflictError")

\* The policy refuses a row of another tenant, or any row without a context.
Denied(s, n) ==
    /\ Pending(s, "issue") /\ call[s].nonce = n
    /\ ~Policy(s, n)

FlushDenied(s, n) ==
    /\ Denied(s, n)
    /\ Fail(s, "denied")

-----------------------------------------------------------------------------
(* consume: DELETE ... RETURNING.                                          *)

Consume(s, d) ==
    /\ txn[s] = "active"
    /\ call[s] = None
    /\ call' = [call EXCEPT ![s] =
                    [op |-> "consume", snapshot |-> {n \in View(s) : DigestOf[n] = d}]]
    /\ UNCHANGED <<tables, txn, context, inserted, deleted, raised, history>>

Found(s, n) ==
    /\ Pending(s, "consume")
    /\ n \in Hits(s) \ Contended(s)

\* Mutant: the statement passes over rows that others hold (SKIP LOCKED).
NotFoundSkipLocked(s) ==
    /\ Pending(s, "consume")
    /\ Hits(s) \ Contended(s) = {}

\* A row committed since the statement began is not looked for.
NotFound(s) ==
    /\ Pending(s, "consume")
    /\ Hits(s) = {}

\* Mutant: the session keeps the object it added and flushes it once more.
DeleteReturningReflushed(s, n) ==
    /\ Found(s, n)
    /\ deleted' = [deleted EXCEPT ![s] = @ \union {n}]
    /\ Done(s)
    /\ UNCHANGED inserted

\* Mutant: the statement does not wait for the row.
DeleteReturningUnlocked(s, n) ==
    /\ Pending(s, "consume")
    /\ n \in Hits(s)
    /\ inserted' = [inserted EXCEPT ![s] = @ \ {n}]
    /\ deleted' = [deleted EXCEPT ![s] = @ \union {n}]
    /\ Done(s)

DeleteReturning(s, n) ==
    /\ Found(s, n)
    /\ inserted' = [inserted EXCEPT ![s] = @ \ {n}]
    /\ deleted' = [deleted EXCEPT ![s] = @ \union {n}]
    /\ Done(s)

DeleteNothing(s) ==
    /\ NotFound(s)
    /\ Done(s)
    /\ UNCHANGED <<inserted, deleted>>

-----------------------------------------------------------------------------
(* The engine and the callers.                                             *)

\* What the statement of a pending call needs, and who holds it.
Needs(s) ==
    IF call[s] = None THEN {}
    ELSE IF call[s].op = "issue"
      THEN IF Policy(s, call[s].nonce) THEN SameKey(call[s].nonce) ELSE {}
      ELSE Hits(s)
WaitsFor(s, u) == u # s /\ Needs(s) \intersect (inserted[u] \union deleted[u]) # {}

\* It may also wait for the removal of a connection: of one of those rows, or
\* of the one its own row refers to.
AwaitsRemoval(s) ==
    \/ Needs(s) \intersect Leaving # {}
    \/ \E n \in Nonce :
          /\ Pending(s, "issue") /\ call[s].nonce = n
          /\ Policy(s, n) /\ ConnectionOf[n] \in removing

\* Mutant: nobody looks for deadlocks.
DeadlockedNever(s) == call[s] # None /\ s \notin Session

\* s is one of several transactions that wait for each other.
Deadlocked(s) ==
    \E S \in SUBSET Session :
        s \in S /\ \A v \in S : \E u \in S : WaitsFor(v, u)

\* A waiting statement is broken off: the engine picked it to end a deadlock,
\* or it was told to give up.
AbortWaiting(s) ==
    /\ AwaitsRemoval(s) \/ \E u \in Session : WaitsFor(s, u)
    /\ Fail(s, "aborted")

Begin(s, t) ==
    /\ txn[s] = "none"
    /\ txn' = [txn EXCEPT ![s] = "active"]
    /\ context' = [context EXCEPT ![s] = t]
    /\ UNCHANGED <<tables, call, inserted, deleted, raised, history>>

End(s) ==
    /\ txn' = [txn EXCEPT ![s] = "none"]
    /\ context' = [context EXCEPT ![s] = None]
    /\ call' = [call EXCEPT ![s] = None]
    /\ inserted' = [inserted EXCEPT ![s] = {}]
    /\ deleted' = [deleted EXCEPT ![s] = {}]
    /\ raised' = [raised EXCEPT ![s] = None]

Commit(s) ==
    /\ txn[s] = "active"
    /\ call[s] = None
    /\ rows' = View(s)
    /\ consumed' = consumed \union deleted[s]
    /\ End(s)
    /\ UNCHANGED <<connections, removing, spent>>

\* Rolled back by its caller, or by the engine when the process died.
Rollback(s) ==
    /\ txn[s] # "none"
    /\ End(s)
    /\ UNCHANGED <<tables, history>>

\* Mutant: a connection is locked although open transactions hold its nonces.
LockConnectionUnlocked(k) ==
    /\ k \in connections \ removing
    /\ removing' = removing \union {k}
    /\ UNCHANGED <<rows, connections, txn, context, call, inserted, deleted, raised, history>>

\* The removal of a connection locks it and its nonces, once no open
\* transaction inserted or consumed one of them.
LockConnection(k) ==
    /\ k \in connections \ removing
    /\ \A n \in InOpenTransactions : ConnectionOf[n] # k
    /\ removing' = removing \union {k}
    /\ UNCHANGED <<rows, connections, txn, context, call, inserted, deleted, raised, history>>

\* Mutant: the foreign key does not cascade.
DropConnectionAlone(k) ==
    /\ k \in removing
    /\ removing' = removing \ {k}
    /\ connections' = connections \ {k}
    /\ UNCHANGED <<rows, txn, context, call, inserted, deleted, raised, history>>

\* The removal is committed, and the nonces go with their connection.
DropConnection(k) ==
    /\ k \in removing
    /\ removing' = removing \ {k}
    /\ connections' = connections \ {k}
    /\ rows' = {n \in rows : ConnectionOf[n] # k}
    /\ UNCHANGED <<txn, context, call, inserted, deleted, raised, history>>

\* The removal is rolled back.
KeepConnection(k) ==
    /\ k \in removing
    /\ removing' = removing \ {k}
    /\ UNCHANGED <<rows, connections, txn, context, call, inserted, deleted, raised, history>>

-----------------------------------------------------------------------------
StoreStep(s) ==
    \/ \E n \in Nonce :
          \/ Issue(s, n)
          \/ FlushInsert(s, n) \/ FlushIntegrityError(s, n) \/ FlushDenied(s, n)
          \/ DeleteReturning(s, n)
    \/ \E d \in Digest : Consume(s, d)
    \/ DeleteNothing(s)

CallerStep(s) ==
    \/ \E t \in Contexts : Begin(s, t)
    \/ AbortWaiting(s)
    \/ Commit(s)
    \/ Rollback(s)

RemovalEnds(k) == DropConnection(k) \/ KeepConnection(k)

Next ==
    \/ \E s \in Session : StoreStep(s) \/ CallerStep(s)
    \/ \E k \in Removable : LockConnection(k) \/ RemovalEnds(k)

Spec == Init /\ [][Next]_vars

\* The statement of a pending call ends: it is done, refused, or picked by the
\* engine to end a deadlock.
StatementEnds(s) ==
    \/ \E n \in Nonce :
          \/ FlushInsert(s, n) \/ FlushIntegrityError(s, n) \/ FlushDenied(s, n)
          \/ DeleteReturning(s, n)
    \/ DeleteNothing(s)
    \/ Deadlocked(s) /\ AbortWaiting(s)

\* Statements queue for their rows, the engine ends deadlocks, a caller ends
\* its transaction once it has no call pending, and a removal ends.
Fairness ==
    /\ \A s \in Session :
          /\ SF_vars(StatementEnds(s))
          /\ SF_vars(call[s] = None /\ (Commit(s) \/ Rollback(s)))
    /\ \A k \in Removable : WF_vars(RemovalEnds(k))

FairSpec == Spec /\ Fairness

-----------------------------------------------------------------------------
(* Properties.                                                             *)

\* Every variable keeps its shape; a transaction that is not active holds no
\* rows and has no call pending.
TypeOK ==
    /\ rows \subseteq Nonce
    /\ connections \subseteq Connection
    /\ removing \subseteq connections
    /\ txn \in [Session -> {"none", "active", "failed"}]
    /\ context \in [Session -> Tenant \union {None}]
    /\ call \in [Session -> Calls \union {None}]
    /\ inserted \in [Session -> SUBSET Nonce]
    /\ deleted \in [Session -> SUBSET Nonce]
    /\ raised \in [Session -> {"NonceConflictError", "denied", "aborted", None}]
    /\ spent \subseteq Nonce
    /\ consumed \subseteq Nonce
    /\ \A s \in Session : txn[s] # "active" =>
          inserted[s] = {} /\ deleted[s] = {} /\ call[s] = None

\* While a caller holds a consumed row in its transaction nobody else holds
\* it, and a row whose consumption was committed is never held again.
ExclusiveConsumption ==
    \A s \in Session :
        /\ deleted[s] \intersect consumed = {}
        /\ \A u \in Session \ {s} : deleted[s] \intersect deleted[u] = {}

\* A nonce whose consumption was committed does not come back: no rollback,
\* abort or late flush of another transaction restores its row.
ConsumedIsGone ==
    consumed \intersect (rows \union UNION {inserted[s] : s \in Session}) = {}

\* Committed rows have distinct digests and belong to existing connections of
\* their own tenant, also when a connection is removed while others issue.
TableIntegrity ==
    /\ \A m, n \in rows : DigestOf[m] = DigestOf[n] => m = n
    /\ \A n \in rows : Refers(n)

\* A row enters the table, leaves it or is used up by the commit of a
\* transaction whose context names its tenant, the one its connection belongs
\* to, or it goes with that connection; digests are unique across tenants.
TenantIsolation ==
    [][\A n \in Nonce :
          n \in (rows' \ rows) \union (rows \ rows') \union (consumed' \ consumed) =>
             \/ ConnectionOf[n] \in connections \ connections'
             \/ \E s \in Session :
                   /\ txn[s] = "active" /\ txn'[s] = "none"
                   /\ context[s] = OwnerOf[n]
                   /\ context[s] = TenantOf[ConnectionOf[n]]]_vars

\* Committed transactions happen one at a time, each at its commit.
Table == INSTANCE NonceTable WITH stored <- rows, used <- consumed

\* To those who commit, the store is a table on which whole transactions take
\* effect at once: each issued what was never there and used up what was
\* there when it committed, for one tenant, whatever the others did meanwhile.
ImplementsNonceTable == Table!Spec

\* The statement of s's pending call can end without the end of another
\* transaction.
CanEnd(s) ==
    \/ \E n \in Nonce :
          Insertable(s, n) \/ Conflicting(s, n) \/ Denied(s, n) \/ Found(s, n)
    \/ NotFound(s)

\* Nobody waits in vain: a pending call can end, or waits for an open
\* transaction or removal; and when no pending call can end, there is a
\* deadlock for the engine to break, or a removal or a caller's transaction to
\* be ended that others wait for.
NobodyWaitsInVain ==
    /\ \A s \in Session : call[s] # None =>
          \/ CanEnd(s) \/ AwaitsRemoval(s)
          \/ \E u \in Session : WaitsFor(s, u) /\ txn[u] = "active"
    /\ (\E s \in Session : call[s] # None) =>
          \/ \E s \in Session : CanEnd(s) \/ AwaitsRemoval(s) \/ Deadlocked(s)
          \/ \E s, u \in Session : WaitsFor(s, u) /\ txn[u] = "active" /\ call[u] = None

\* Every call returns or raises, also when transactions wait for each other.
CallSettles ==
    \A s \in Session : call[s] # None ~> call[s] = None

=============================================================================
