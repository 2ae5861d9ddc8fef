------------------------ MODULE SqlNonceStore_proofs ------------------------
(***************************************************************************)
(* Proofs about SqlNonceStore for any sessions, nonces, connections and    *)
(* tenants, also when different nonces have the same digest.               *)
(***************************************************************************)
EXTENDS SqlNonceStore, TLAPS

-----------------------------------------------------------------------------
(* Types.                                                                  *)

LEMMA InitTypeOK == Init => TypeOK
BY StoreAssumption DEF Init, TypeOK

\* A call that ends well changes its session's rows at most.
LEMMA DoneTypeOK ==
    ASSUME TypeOK, NEW s \in Session, NEW X \in SUBSET Nonce, NEW Y \in SUBSET Nonce,
           txn[s] = "active", Done(s),
           inserted' = [inserted EXCEPT ![s] = X],
           deleted' = [deleted EXCEPT ![s] = Y]
    PROVE  TypeOK'
BY DEF TypeOK, Done, tables

LEMMA FailTypeOK ==
    ASSUME TypeOK, NEW s \in Session,
           NEW error \in {"NonceConflictError", "denied", "aborted"}, Fail(s, error)
    PROVE  TypeOK'
BY DEF TypeOK, Fail, tables, history

LEMMA StepTypeOK == TypeOK /\ [Next]_vars => TypeOK'
<1> SUFFICES ASSUME TypeOK, [Next]_vars PROVE TypeOK'
  OBVIOUS
<1>1. ASSUME NEW s \in Session, NEW n \in Nonce, Issue(s, n) PROVE TypeOK'
  <2>1. [op |-> "issue", nonce |-> n] \in Calls
    BY DEF Calls
  <2>. QED
    BY <1>1, <2>1 DEF TypeOK, Issue, tables
<1>2. ASSUME NEW s \in Session, NEW n \in Nonce, FlushInsert(s, n) PROVE TypeOK'
  <2>1. inserted[s] \union {n} \in SUBSET Nonce /\ deleted[s] \in SUBSET Nonce
    BY DEF TypeOK
  <2>2. deleted' = [deleted EXCEPT ![s] = deleted[s]]
    BY <1>2 DEF FlushInsert, TypeOK
  <2>. QED
    BY <1>2, <2>1, <2>2, DoneTypeOK DEF FlushInsert, Insertable, Pending
<1>3. ASSUME NEW s \in Session, NEW n \in Nonce, FlushIntegrityError(s, n) PROVE TypeOK'
  BY <1>3, FailTypeOK DEF FlushIntegrityError
<1>4. ASSUME NEW s \in Session, NEW n \in Nonce, FlushDenied(s, n) PROVE TypeOK'
  BY <1>4, FailTypeOK DEF FlushDenied
<1>5. ASSUME NEW s \in Session, NEW d \in Digest, Consume(s, d) PROVE TypeOK'
  <2>1. [op |-> "consume", snapshot |-> {n \in View(s) : DigestOf[n] = d}] \in Calls
    BY DEF Calls, View, TypeOK
  <2>. QED
    BY <1>5, <2>1 DEF TypeOK, Consume, tables, history
<1>6. ASSUME NEW s \in Session, DeleteNothing(s) PROVE TypeOK'
  BY <1>6 DEF TypeOK, DeleteNothing, NotFound, Pending, Done, tables
<1>7. ASSUME NEW s \in Session, NEW n \in Nonce, DeleteReturning(s, n) PROVE TypeOK'
  <2>1. inserted[s] \ {n} \in SUBSET Nonce /\ deleted[s] \union {n} \in SUBSET Nonce
    BY DEF TypeOK
  <2>. QED
    BY <1>7, <2>1, DoneTypeOK DEF DeleteReturning, Found, Pending
<1>8. ASSUME NEW s \in Session, NEW t \in Contexts, Begin(s, t) PROVE TypeOK'
  BY <1>8, StoreAssumption DEF TypeOK, Begin, tables, history
<1>9. ASSUME NEW s \in Session, AbortWaiting(s) PROVE TypeOK'
  BY <1>9, FailTypeOK DEF AbortWaiting
<1>10. ASSUME NEW s \in Session, Commit(s) PROVE TypeOK'
  <2>1. View(s) \subseteq Nonce
    BY DEF TypeOK, View
  <2>. QED
    BY <1>10, <2>1 DEF TypeOK, Commit, End
<1>11. ASSUME NEW s \in Session, Rollback(s) PROVE TypeOK'
  BY <1>11 DEF TypeOK, Rollback, End, tables, history
<1>12. ASSUME NEW k \in Removable, LockConnection(k) \/ RemovalEnds(k) PROVE TypeOK'
  BY <1>12 DEF TypeOK, LockConnection, RemovalEnds, DropConnection, KeepConnection, history
<1>13. CASE UNCHANGED vars
  BY <1>13 DEF TypeOK, vars, tables, history
<1>. QED
  BY <1>1, <1>2, <1>3, <1>4, <1>5, <1>6, <1>7, <1>8, <1>9, <1>10, <1>11, <1>12, <1>13
  DEF Next, StoreStep, CallerStep

\* Every variable keeps its shape, and only an active transaction holds rows.
THEOREM TypeCorrect == Spec => []TypeOK
BY InitTypeOK, StepTypeOK, PTL DEF Spec

-----------------------------------------------------------------------------
(* The inductive invariant.                                                *)

Issuing(s, n) == call[s] # None /\ call[s].op = "issue" /\ call[s].nonce = n

\* Only nonces that were handed to issue are anywhere, and only once.
SpentOnce ==
    /\ rows \subseteq spent /\ consumed \subseteq spent
    /\ \A s \in Session : inserted[s] \subseteq spent /\ deleted[s] \subseteq spent

\* The nonce of a pending issue is nowhere yet.
IssuedIsFresh ==
    \A s \in Session : \A n \in Nonce : Issuing(s, n) =>
        /\ n \in spent /\ n \notin rows /\ n \notin consumed
        /\ \A u \in Session : n \notin inserted[u] /\ n \notin deleted[u]
        /\ \A u \in Session : Issuing(u, n) => u = s

\* A row is in one place: committed, inserted by one transaction, consumed by
\* one transaction, or consumed for good.
Apart ==
    /\ consumed \intersect rows = {}
    /\ \A s \in Session :
          /\ inserted[s] \intersect rows = {} /\ inserted[s] \intersect consumed = {}
          /\ deleted[s] \intersect consumed = {}
          /\ \A u \in Session : inserted[s] \intersect deleted[u] = {}
          /\ \A u \in Session \ {s} :
                /\ inserted[s] \intersect inserted[u] = {}
                /\ deleted[s] \intersect deleted[u] = {}

\* Digests are unique in the table, in every transaction's view of it, and
\* between the rows one transaction inserts and those another one touches.
Unique ==
    /\ \A m, n \in rows : DigestOf[m] = DigestOf[n] => m = n
    /\ \A s \in Session : \A m, n \in View(s) : DigestOf[m] = DigestOf[n] => m = n
    /\ \A s \in Session : \A u \in Session \ {s} :
          \A m \in inserted[s], n \in inserted[u] \union deleted[u] :
              DigestOf[m] # DigestOf[n]

\* Rows refer to a connection of their tenant, those in open transactions too,
\* and to none whose removal is under way.
Referenced ==
    /\ \A n \in rows : Refers(n)
    /\ \A s \in Session : \A n \in inserted[s] \union deleted[s] :
          Refers(n) /\ ConnectionOf[n] \notin removing

\* A transaction holds rows of the tenant its context names.
ContextOwns ==
    \A s \in Session : \A n \in inserted[s] \union deleted[s] : OwnerOf[n] = context[s]

Placed == SpentOnce /\ IssuedIsFresh /\ Apart
IInv == TypeOK /\ Placed /\ Unique /\ Referenced /\ ContextOwns

LEMMA InitIInv == Init => IInv
<1>1. Init => TypeOK
  BY InitTypeOK
<1>2. Init => Placed
  BY DEF Init, Placed, SpentOnce, IssuedIsFresh, Apart, Issuing
<1>3. Init => Unique /\ Referenced /\ ContextOwns
  BY DEF Init, Unique, Referenced, ContextOwns, View
<1>. QED
  BY <1>1, <1>2, <1>3 DEF IInv

\* A step that moves no row and starts no issue.
LEMMA QuietIInv ==
    ASSUME IInv, TypeOK',
           UNCHANGED <<rows, connections, removing, inserted, deleted, spent, consumed>>,
           \A s \in Session : context'[s] = context[s]
                                \/ (inserted[s] = {} /\ deleted[s] = {}),
           \A s \in Session : call'[s] = call[s] \/ call'[s] = None
                                \/ call'[s].op = "consume"
    PROVE  IInv'
<1>1. \A s \in Session, n \in Nonce : Issuing(s, n)' => Issuing(s, n)
  BY DEF Issuing
<1>2. Placed'
  BY <1>1 DEF IInv, Placed, SpentOnce, IssuedIsFresh, Apart
<1>3. Unique' /\ Referenced'
  BY DEF IInv, Unique, Referenced, Refers, View
<1>4. ContextOwns'
  BY DEF IInv, ContextOwns
<1>. QED
  BY <1>2, <1>3, <1>4 DEF IInv

\* A transaction that gives up: the rows it inserted vanish, those it consumed
\* are back.
LEMMA ReleaseIInv ==
    ASSUME IInv, TypeOK', NEW s \in Session,
           UNCHANGED <<rows, connections, removing, spent, consumed>>,
           call' = [call EXCEPT ![s] = None],
           inserted' = [inserted EXCEPT ![s] = {}],
           deleted' = [deleted EXCEPT ![s] = {}],
           \A u \in Session \ {s} : context'[u] = context[u]
    PROVE  IInv'
<1>1. /\ call'[s] = None /\ inserted'[s] = {} /\ deleted'[s] = {}
      /\ \A u \in Session \ {s} :
            call'[u] = call[u] /\ inserted'[u] = inserted[u] /\ deleted'[u] = deleted[u]
  BY DEF IInv, TypeOK
<1>2. \A u \in Session, n \in Nonce : Issuing(u, n)' => Issuing(u, n)
  BY <1>1 DEF Issuing
<1>3. SpentOnce' /\ Apart'
  BY <1>1 DEF IInv, Placed, SpentOnce, Apart
<1>4. IssuedIsFresh'
  BY <1>1, <1>2 DEF IInv, Placed, IssuedIsFresh
<1>5. Unique'
  BY <1>1 DEF IInv, Unique, View
<1>6. Referenced' /\ ContextOwns'
  BY <1>1 DEF IInv, Referenced, Refers, ContextOwns
<1>. QED
  BY <1>3, <1>4, <1>5, <1>6 DEF IInv, Placed

LEMMA FailIInv ==
    ASSUME IInv, TypeOK', NEW s \in Session, NEW error, Fail(s, error)
    PROVE  IInv'
BY ReleaseIInv DEF Fail, tables, history

LEMMA IssueIInv ==
    ASSUME IInv, TypeOK', NEW s \in Session, NEW n \in Nonce, Issue(s, n)
    PROVE  IInv'
<1>1. /\ UNCHANGED <<rows, connections, removing, context, inserted, deleted, consumed>>
      /\ spent' = spent \union {n} /\ n \notin spent
      /\ call'[s] = [op |-> "issue", nonce |-> n]
      /\ \A u \in Session \ {s} : call'[u] = call[u]
  BY DEF Issue, IInv, TypeOK, tables
<1>2. \A u \in Session, m \in Nonce : Issuing(u, m)' => Issuing(u, m) \/ (u = s /\ m = n)
  BY <1>1 DEF Issuing
<1>3. SpentOnce' /\ Apart'
  BY <1>1 DEF IInv, Placed, SpentOnce, Apart
<1>4. IssuedIsFresh'
  BY <1>1, <1>2 DEF IInv, Placed, IssuedIsFresh, SpentOnce
<1>5. Unique' /\ Referenced' /\ ContextOwns'
  BY <1>1 DEF IInv, Unique, Referenced, Refers, ContextOwns, View
<1>. QED
  BY <1>3, <1>4, <1>5 DEF IInv, Placed

\* The key of an inserted row is neither in the view of its transaction nor
\* held by another one.
LEMMA FlushInsertIInv ==
    ASSUME IInv, TypeOK', NEW s \in Session, NEW n \in Nonce, FlushInsert(s, n)
    PROVE  IInv'
<1>1. /\ UNCHANGED <<rows, connections, removing, context, deleted, spent, consumed>>
      /\ call'[s] = None /\ inserted'[s] = inserted[s] \union {n}
      /\ \A u \in Session \ {s} : call'[u] = call[u] /\ inserted'[u] = inserted[u]
  BY DEF FlushInsert, Done, IInv, TypeOK, tables
<1>2. Issuing(s, n)
  BY DEF FlushInsert, Insertable, Pending, Issuing
<1>3. /\ n \in spent /\ n \notin rows /\ n \notin consumed
      /\ \A u \in Session : n \notin inserted[u] /\ n \notin deleted[u]
      /\ \A u \in Session : Issuing(u, n) => u = s
  BY <1>2 DEF IInv, Placed, IssuedIsFresh
<1>4. \A u \in Session, m \in Nonce : Issuing(u, m)' => Issuing(u, m) /\ m # n
  BY <1>1, <1>3 DEF Issuing
<1>5. SpentOnce'
  BY <1>1, <1>3 DEF IInv, Placed, SpentOnce
<1>6. IssuedIsFresh'
  BY <1>1, <1>4 DEF IInv, Placed, IssuedIsFresh
<1>7. Apart'
  BY <1>1, <1>3 DEF IInv, Placed, Apart
<1>8. Unique'
  <2>1. \A m \in View(s) : DigestOf[m] # DigestOf[n]
    BY DEF FlushInsert, Insertable, Duplicate, SameKey, IInv, TypeOK, View
  <2>2. \A u \in Session \ {s} : \A m \in inserted[u] \union deleted[u] :
           DigestOf[m] # DigestOf[n]
    BY DEF FlushInsert, Insertable, Contended, SameKey, IInv, TypeOK
  <2>3. View(s)' = View(s) \union {n} /\ \A u \in Session \ {s} : View(u)' = View(u)
    BY <1>1, <1>3 DEF View
  <2>. QED
    BY <1>1, <2>1, <2>2, <2>3 DEF IInv, Unique
<1>9. Referenced' /\ ContextOwns'
  BY <1>1 DEF FlushInsert, Insertable, Policy, IInv, Referenced, Refers, ContextOwns
<1>. QED
  BY <1>5, <1>6, <1>7, <1>8, <1>9 DEF IInv, Placed

\* The deleted row is in the view of its transaction, and no other transaction
\* holds it.
LEMMA DeleteReturningIInv ==
    ASSUME IInv, TypeOK', NEW s \in Session, NEW n \in Nonce, DeleteReturning(s, n)
    PROVE  IInv'
<1>1. /\ UNCHANGED <<rows, connections, removing, context, spent, consumed>>
      /\ call'[s] = None
      /\ inserted'[s] = inserted[s] \ {n} /\ deleted'[s] = deleted[s] \union {n}
      /\ \A u \in Session \ {s} :
            call'[u] = call[u] /\ inserted'[u] = inserted[u] /\ deleted'[u] = deleted[u]
  BY DEF DeleteReturning, Done, IInv, TypeOK, tables
<1>2. n \in View(s) /\ Policy(s, n)
  BY DEF DeleteReturning, Found, Hits
<1>3. n \notin Leaving /\ \A u \in Session \ {s} : n \notin inserted[u] /\ n \notin deleted[u]
  BY DEF DeleteReturning, Found, Contended
<1>4. n \in rows \/ n \in inserted[s]
  BY <1>2 DEF View
<1>5. n \in spent /\ n \notin consumed
  BY <1>4 DEF IInv, Placed, SpentOnce, Apart
<1>6. \A u \in Session, m \in Nonce : Issuing(u, m)' => Issuing(u, m) /\ m # n
  <2>1. \A u \in Session, m \in Nonce : Issuing(u, m)' => Issuing(u, m)
    BY <1>1 DEF Issuing
  <2>2. \A u \in Session : ~Issuing(u, n)
    BY <1>4 DEF IInv, Placed, IssuedIsFresh
  <2>. QED
    BY <2>1, <2>2
<1>7. SpentOnce'
  BY <1>1, <1>5 DEF IInv, Placed, SpentOnce
<1>8. IssuedIsFresh'
  BY <1>1, <1>6 DEF IInv, Placed, IssuedIsFresh
<1>9. Apart'
  BY <1>1, <1>3, <1>5 DEF IInv, Placed, Apart
<1>10. Unique'
  <2>1. \A u \in Session \ {s} : \A m \in inserted[u] : DigestOf[m] # DigestOf[n]
    <3>1. CASE n \in inserted[s]
      BY <3>1 DEF IInv, Unique
    <3>2. CASE n \in rows
      <4>1. \A u \in Session \ {s} : n \in View(u)
        BY <1>3, <3>2 DEF View
      <4>. QED
        BY <1>3, <4>1 DEF IInv, Unique, View
    <3>. QED
      BY <1>4, <3>1, <3>2
  <2>2. View(s)' \subseteq View(s) /\ \A u \in Session \ {s} : View(u)' = View(u)
    BY <1>1 DEF View
  <2>. QED
    BY <1>1, <2>1, <2>2 DEF IInv, Unique
<1>11. Referenced'
  BY <1>1, <1>3, <1>4 DEF IInv, Referenced, Refers, Leaving
<1>12. ContextOwns'
  BY <1>1, <1>2 DEF Policy, IInv, ContextOwns
<1>. QED
  BY <1>7, <1>8, <1>9, <1>10, <1>11, <1>12 DEF IInv, Placed

\* A commit makes its transaction's view the table, and what it consumed is
\* gone for good.
LEMMA CommitIInv ==
    ASSUME IInv, TypeOK', NEW s \in Session, Commit(s)
    PROVE  IInv'
<1>1. /\ rows' = View(s) /\ consumed' = consumed \union deleted[s]
      /\ UNCHANGED <<connections, removing, spent>>
      /\ call'[s] = None /\ inserted'[s] = {} /\ deleted'[s] = {}
      /\ \A u \in Session \ {s} :
            /\ call'[u] = call[u] /\ context'[u] = context[u]
            /\ inserted'[u] = inserted[u] /\ deleted'[u] = deleted[u]
  BY DEF Commit, End, IInv, TypeOK
<1>2. \A u \in Session, m \in Nonce : Issuing(u, m)' => Issuing(u, m)
  BY <1>1 DEF Issuing
<1>3. SpentOnce'
  BY <1>1 DEF IInv, Placed, SpentOnce, View
<1>4. IssuedIsFresh'
  BY <1>1, <1>2 DEF IInv, Placed, IssuedIsFresh, View
<1>5. Apart'
  BY <1>1 DEF IInv, Placed, Apart, View
<1>6. Unique'
  <2>1. \A m, n \in rows' : DigestOf[m] = DigestOf[n] => m = n
    BY <1>1 DEF IInv, Unique
  <2>2. View(s)' = rows'
    BY <1>1 DEF View
  <2>3. ASSUME NEW u \in Session \ {s}, NEW m \in View(u)', NEW n \in View(u)',
               DigestOf[m] = DigestOf[n]
        PROVE  m = n
    <3>1. /\ m \in View(u) \/ m \in inserted[s]
          /\ n \in View(u) \/ n \in inserted[s]
      BY <1>1, <2>3 DEF View
    <3>2. /\ m \in View(s) \/ m \in inserted[u]
          /\ n \in View(s) \/ n \in inserted[u]
      BY <1>1, <2>3 DEF View
    <3>. QED
      BY <2>3, <3>1, <3>2 DEF IInv, Unique
  <2>4. \A v \in Session : \A u \in Session \ {v} :
           \A m \in inserted'[v], n \in inserted'[u] \union deleted'[u] :
              DigestOf[m] # DigestOf[n]
    BY <1>1 DEF IInv, Unique
  <2>. QED
    BY <2>1, <2>2, <2>3, <2>4 DEF Unique
<1>7. Referenced'
  BY <1>1 DEF IInv, Referenced, Refers, View
<1>8. ContextOwns'
  BY <1>1 DEF IInv, ContextOwns
<1>. QED
  BY <1>3, <1>4, <1>5, <1>6, <1>7, <1>8 DEF IInv, Placed

\* A removal locks its connection when no open transaction holds one of its
\* rows, and then its rows are nobody else's until it ends.
LEMMA RemovalIInv ==
    ASSUME IInv, TypeOK', NEW k \in Removable, LockConnection(k) \/ RemovalEnds(k)
    PROVE  IInv'
<1>1. UNCHANGED <<context, call, inserted, deleted, spent, consumed>>
  BY DEF LockConnection, RemovalEnds, DropConnection, KeepConnection, history
<1>2. \/ /\ removing' = removing \union {k} /\ UNCHANGED <<rows, connections>>
         /\ \A s \in Session : \A n \in inserted[s] \union deleted[s] : ConnectionOf[n] # k
      \/ /\ k \in removing /\ removing' = removing \ {k} /\ connections' = connections \ {k}
         /\ rows' = {n \in rows : ConnectionOf[n] # k}
      \/ removing' = removing \ {k} /\ UNCHANGED <<rows, connections>>
  BY DEF LockConnection, RemovalEnds, DropConnection, KeepConnection, InOpenTransactions
<1>3. rows' \subseteq rows
  BY <1>2
<1>4. SpentOnce' /\ Apart'
  BY <1>1, <1>3 DEF IInv, Placed, SpentOnce, Apart
<1>5. IssuedIsFresh'
  BY <1>1, <1>3 DEF IInv, Placed, IssuedIsFresh, Issuing
<1>6. Unique'
  BY <1>1, <1>3 DEF IInv, Unique, View
<1>7. Referenced'
  BY <1>1, <1>2 DEF IInv, Referenced, Refers
<1>8. ContextOwns'
  BY <1>1 DEF IInv, ContextOwns
<1>. QED
  BY <1>4, <1>5, <1>6, <1>7, <1>8 DEF IInv, Placed

LEMMA StepIInv == IInv /\ [Next]_vars => IInv'
<1> SUFFICES ASSUME IInv, [Next]_vars PROVE IInv'
  OBVIOUS
<1>0. TypeOK'
  BY StepTypeOK DEF IInv
<1>1. ASSUME NEW s \in Session, NEW n \in Nonce, Issue(s, n) PROVE IInv'
  BY <1>0, <1>1, IssueIInv
<1>2. ASSUME NEW s \in Session, NEW n \in Nonce, FlushInsert(s, n) PROVE IInv'
  BY <1>0, <1>2, FlushInsertIInv
<1>3. ASSUME NEW s \in Session, NEW n \in Nonce,
             FlushIntegrityError(s, n) \/ FlushDenied(s, n)
      PROVE  IInv'
  BY <1>0, <1>3, FailIInv DEF FlushIntegrityError, FlushDenied
<1>4. ASSUME NEW s \in Session, NEW d \in Digest, Consume(s, d) PROVE IInv'
  <2>1. /\ UNCHANGED <<rows, connections, removing, context, inserted, deleted, spent, consumed>>
        /\ call'[s] = [op |-> "consume", snapshot |-> {n \in View(s) : DigestOf[n] = d}]
        /\ \A u \in Session \ {s} : call'[u] = call[u]
    BY <1>4 DEF Consume, tables, history, IInv, TypeOK
  <2>2. \A u \in Session : call'[u] = call[u] \/ call'[u].op = "consume"
    BY <2>1
  <2>. QED
    BY <1>0, <2>1, <2>2, QuietIInv
<1>5. ASSUME NEW s \in Session, DeleteNothing(s) PROVE IInv'
  <2>1. /\ UNCHANGED <<rows, connections, removing, context, inserted, deleted, spent, consumed>>
        /\ \A u \in Session : call'[u] = call[u] \/ call'[u] = None
    BY <1>5 DEF DeleteNothing, Done, tables, IInv, TypeOK
  <2>. QED
    BY <1>0, <2>1, QuietIInv
<1>6. ASSUME NEW s \in Session, NEW n \in Nonce, DeleteReturning(s, n) PROVE IInv'
  BY <1>0, <1>6, DeleteReturningIInv
<1>7. ASSUME NEW s \in Session, NEW t \in Contexts, Begin(s, t) PROVE IInv'
  <2>1. /\ UNCHANGED <<rows, connections, removing, call, inserted, deleted, spent, consumed>>
        /\ inserted[s] = {} /\ deleted[s] = {}
        /\ \A u \in Session \ {s} : context'[u] = context[u]
    BY <1>7 DEF Begin, tables, history, IInv, TypeOK
  <2>2. \A u \in Session : context'[u] = context[u] \/ (inserted[u] = {} /\ deleted[u] = {})
    BY <2>1
  <2>. QED
    BY <1>0, <2>1, <2>2, QuietIInv
<1>8. ASSUME NEW s \in Session, AbortWaiting(s) PROVE IInv'
  BY <1>0, <1>8, FailIInv DEF AbortWaiting
<1>9. ASSUME NEW s \in Session, Commit(s) PROVE IInv'
  BY <1>0, <1>9, CommitIInv
<1>10. ASSUME NEW s \in Session, Rollback(s) PROVE IInv'
  BY <1>0, <1>10, ReleaseIInv DEF Rollback, End, tables, history, IInv, TypeOK
<1>11. ASSUME NEW k \in Removable, LockConnection(k) \/ RemovalEnds(k) PROVE IInv'
  BY <1>0, <1>11, RemovalIInv
<1>12. CASE UNCHANGED vars
  <2>1. UNCHANGED <<rows, connections, removing, context, call, inserted, deleted, spent, consumed>>
    BY <1>12 DEF vars, tables, history
  <2>. QED
    BY <1>0, <2>1, QuietIInv
<1>. QED
  BY <1>1, <1>2, <1>3, <1>4, <1>5, <1>6, <1>7, <1>8, <1>9, <1>10, <1>11, <1>12
  DEF Next, StoreStep, CallerStep

THEOREM Inductive == Spec => []IInv
BY InitIInv, StepIInv, PTL DEF Spec

-----------------------------------------------------------------------------
(* The theorems.                                                           *)

\* At most one transaction at a time holds a consumed row, and none after its
\* consumption was committed (DELETE ... RETURNING in consume).
THEOREM ExclusiveConsumptionHolds == Spec => []ExclusiveConsumption
<1>1. IInv => ExclusiveConsumption
  BY DEF IInv, Placed, Apart, ExclusiveConsumption
<1>. QED
  BY <1>1, Inductive, PTL

\* No rollback, abort or late flush of another transaction restores a row
\* whose consumption was committed.
THEOREM ConsumedIsGoneHolds == Spec => []ConsumedIsGone
<1>1. IInv => ConsumedIsGone
  BY DEF IInv, Placed, Apart, ConsumedIsGone
<1>. QED
  BY <1>1, Inductive, PTL

\* Committed digests are distinct and refer to connections that exist, whatever
\* transactions insert, consume and remove at once (migration 0001).
THEOREM TableIntegrityHolds == Spec => []TableIntegrity
<1>1. IInv => TableIntegrity
  BY DEF IInv, Unique, Referenced, TableIntegrity
<1>. QED
  BY <1>1, Inductive, PTL

\* Of every tenant's rows, only transactions in that tenant's context change
\* the table, however sessions change their context from one transaction to
\* the next (the row-level security and the foreign key of migration 0001).
THEOREM TenantIsolationHolds == Spec => TenantIsolation
<1>1. ASSUME IInv, [Next]_vars
      PROVE  \A n \in Nonce :
          n \in (rows' \ rows) \union (rows \ rows') \union (consumed' \ consumed) =>
             \/ ConnectionOf[n] \in connections \ connections'
             \/ \E s \in Session :
                   /\ txn[s] = "active" /\ txn'[s] = "none"
                   /\ context[s] = OwnerOf[n]
                   /\ context[s] = TenantOf[ConnectionOf[n]]
  <2>1. ASSUME NEW s \in Session, Commit(s), NEW n \in Nonce,
               n \in (rows' \ rows) \union (rows \ rows') \union (consumed' \ consumed)
        PROVE  /\ txn[s] = "active" /\ txn'[s] = "none"
               /\ context[s] = OwnerOf[n] /\ context[s] = TenantOf[ConnectionOf[n]]
    <3>1. n \in inserted[s] \union deleted[s]
      BY <2>1 DEF Commit, View
    <3>2. txn[s] = "active" /\ txn'[s] = "none"
      BY <2>1, <1>1 DEF Commit, End, IInv, TypeOK
    <3>. QED
      BY <1>1, <3>1, <3>2 DEF IInv, ContextOwns, Referenced, Refers
  <2>2. ASSUME NEW k \in Removable, DropConnection(k), NEW n \in Nonce,
               n \in (rows' \ rows) \union (rows \ rows') \union (consumed' \ consumed)
        PROVE  ConnectionOf[n] \in connections \ connections'
    BY <1>1, <2>2 DEF DropConnection, history, IInv, TypeOK
  <2>3. CASE UNCHANGED <<rows, consumed>>
    BY <2>3
  <2>4. CASE \E s \in Session : Commit(s)
    BY <2>1, <2>4
  <2>5. CASE \E k \in Removable : DropConnection(k)
    BY <2>2, <2>5
  <2>6. ASSUME NEW s \in Session, StoreStep(s) \/ (CallerStep(s) /\ ~Commit(s))
        PROVE  UNCHANGED <<rows, consumed>>
    BY <2>6 DEF StoreStep, Issue, FlushInsert, FlushIntegrityError, FlushDenied, Consume,
                DeleteNothing, DeleteReturning, Done, CallerStep, Begin, AbortWaiting,
                Rollback, Fail, End, tables, history
  <2>7. ASSUME NEW k \in Removable, LockConnection(k) \/ KeepConnection(k)
        PROVE  UNCHANGED <<rows, consumed>>
    BY <2>7 DEF LockConnection, KeepConnection, history
  <2>8. CASE UNCHANGED vars
    BY <2>3, <2>8 DEF vars, tables, history
  <2>. QED
    BY <1>1, <2>3, <2>4, <2>5, <2>6, <2>7, <2>8 DEF Next, RemovalEnds
<1>. QED
  BY <1>1, Inductive, PTL DEF Spec, TenantIsolation

-----------------------------------------------------------------------------
(* The store implements the table on which transactions happen at once.    *)

\* A commit is a transaction of the table: what it issued was never there, and
\* what it consumed is there still, or is its own.
LEMMA CommitTransacts ==
    ASSUME IInv, NEW s \in Session, Commit(s)
    PROVE  Table!Transact(inserted[s], deleted[s])
<1>1. /\ rows' = (rows \ deleted[s]) \union inserted[s]
      /\ consumed' = consumed \union deleted[s]
      /\ UNCHANGED connections
  BY DEF Commit, View
<1>2. /\ inserted[s] \subseteq Nonce /\ deleted[s] \subseteq Nonce
      /\ \A n \in inserted[s] \union deleted[s] : Refers(n)
  BY DEF IInv, TypeOK, Referenced
<1>3. /\ inserted[s] \intersect rows = {} /\ inserted[s] \intersect consumed = {}
      /\ deleted[s] \intersect consumed = {} /\ inserted[s] \intersect deleted[s] = {}
  BY DEF IInv, Placed, Apart
<1>4. inserted[s] \subseteq Table!Unborn
  BY <1>2, <1>3 DEF Table!Unborn, Refers
<1>5. deleted[s] \subseteq (rows \union Table!Unborn) \ inserted[s]
  BY <1>2, <1>3 DEF Table!Unborn, Refers
<1>6. Table!OneTenant(inserted[s] \union deleted[s])
  BY DEF Table!OneTenant, IInv, ContextOwns
<1>7. Table!Unique(rows')
  BY <1>1 DEF Table!Unique, IInv, Unique, View
<1>. QED
  BY <1>1, <1>4, <1>5, <1>6, <1>7 DEF Table!Transact

LEMMA StepImplements == IInv /\ [Next]_vars => [Table!Next]_Table!vars
<1> SUFFICES ASSUME IInv, [Next]_vars PROVE [Table!Next]_Table!vars
  OBVIOUS
<1>1. ASSUME NEW s \in Session, StoreStep(s) PROVE UNCHANGED Table!vars
  BY <1>1 DEF StoreStep, Issue, FlushInsert, FlushIntegrityError, FlushDenied, Consume,
              DeleteNothing, DeleteReturning, Done, Fail, tables, history, Table!vars
<1>2. ASSUME NEW s \in Session, Commit(s) PROVE Table!Next
  <2>1. inserted[s] \in SUBSET Nonce /\ deleted[s] \in SUBSET Nonce
    BY DEF IInv, TypeOK
  <2>. QED
    BY <1>2, <2>1, CommitTransacts DEF Table!Next
<1>3. ASSUME NEW s \in Session, CallerStep(s), ~Commit(s) PROVE UNCHANGED Table!vars
  BY <1>3 DEF CallerStep, Begin, AbortWaiting, Rollback, Fail, End, tables, history, Table!vars
<1>4. ASSUME NEW k \in Removable, DropConnection(k) PROVE Table!Next
  <2>1. Table!Remove(k) /\ k \in connections
    BY <1>4 DEF DropConnection, Table!Remove, history, IInv, TypeOK
  <2>. QED
    BY <2>1 DEF Table!Next
<1>6. ASSUME NEW k \in Removable, LockConnection(k) \/ KeepConnection(k)
      PROVE  UNCHANGED Table!vars
  BY <1>6 DEF LockConnection, KeepConnection, history, Table!vars
<1>5. CASE UNCHANGED vars
  BY <1>5 DEF vars, tables, history, Table!vars
<1>. QED
  BY <1>1, <1>2, <1>3, <1>4, <1>5, <1>6 DEF Next, RemovalEnds

\* Whatever statements, rollbacks, aborts and removals interleave, what
\* commits is a sequence of whole transactions on the table (nonce_store.py
\* over the constraints, locks and policy of migration 0001).
THEOREM ImplementsNonceTableHolds == Spec => ImplementsNonceTable
<1>1. Init => Table!Init
  BY DEF Init, Table!Init
<1>. QED
  BY <1>1, Inductive, StepImplements, PTL DEF Spec, ImplementsNonceTable, Table!Spec

-----------------------------------------------------------------------------
(* Waiting.                                                                *)

\* Who holds a row that a pending statement needs is waited for, and is a
\* removal or has an open transaction.
LEMMA HolderIsOpen ==
    ASSUME TypeOK, NEW s \in Session, NEW n \in Needs(s) \intersect Contended(s)
    PROVE  AwaitsRemoval(s) \/ \E u \in Session : WaitsFor(s, u) /\ txn[u] = "active"
<1>1. CASE n \in Leaving
  BY <1>1 DEF AwaitsRemoval
<1>2. CASE n \notin Leaving
  <2>1. PICK u \in Session \ {s} : n \in inserted[u] \union deleted[u]
    BY <1>2 DEF Contended
  <2>2. txn[u] = "active"
    BY <2>1 DEF TypeOK
  <2>3. WaitsFor(s, u)
    BY <2>1 DEF WaitsFor
  <2>. QED
    BY <2>2, <2>3
<1>. QED
  BY <1>1, <1>2

LEMMA PendingEndsOrWaits ==
    ASSUME TypeOK, NEW s \in Session, call[s] # None
    PROVE  \/ CanEnd(s) \/ AwaitsRemoval(s)
           \/ \E u \in Session : WaitsFor(s, u) /\ txn[u] = "active"
<1>1. txn[s] = "active" /\ call[s] \in Calls
  BY DEF TypeOK
<1>2. CASE \E n \in Nonce : call[s] = [op |-> "issue", nonce |-> n]
  <2>1. PICK n \in Nonce : call[s] = [op |-> "issue", nonce |-> n]
    BY <1>2
  <2>2. Pending(s, "issue") /\ call[s].nonce = n
    BY <1>1, <2>1 DEF Pending
  <2>3. CASE ~Policy(s, n)
    BY <2>2, <2>3 DEF CanEnd, Denied
  <2>4. CASE Policy(s, n) /\ SameKey(n) \intersect Contended(s) = {}
    <3>1. CASE ConnectionOf[n] \in removing
      BY <2>2, <2>4, <3>1 DEF AwaitsRemoval
    <3>2. CASE ConnectionOf[n] \notin removing
      <4>1. Insertable(s, n) \/ Conflicting(s, n)
        BY <2>2, <2>4, <3>2 DEF Insertable, Conflicting
      <4>. QED
        BY <4>1 DEF CanEnd
    <3>. QED
      BY <3>1, <3>2
  <2>5. CASE Policy(s, n) /\ SameKey(n) \intersect Contended(s) # {}
    <3>1. Needs(s) = SameKey(n)
      BY <2>2, <2>5 DEF Needs, Pending
    <3>. QED
      BY <2>5, <3>1, HolderIsOpen
  <2>. QED
    BY <2>3, <2>4, <2>5
<1>3. CASE call[s].op = "consume"
  <2>1. Pending(s, "consume")
    BY <1>1, <1>3 DEF Pending
  <2>2. CASE Hits(s) = {}
    BY <2>1, <2>2 DEF CanEnd, NotFound
  <2>3. CASE Hits(s) # {}
    <3>1. PICK n \in Hits(s) : TRUE
      BY <2>3
    <3>2. n \in Nonce
      BY <3>1 DEF Hits, View, TypeOK
    <3>3. CASE n \notin Contended(s)
      BY <2>1, <3>1, <3>2, <3>3 DEF CanEnd, Found
    <3>4. CASE n \in Contended(s)
      <4>1. Needs(s) = Hits(s)
        BY <2>1 DEF Needs, Pending
      <4>. QED
        BY <3>1, <3>4, <4>1, HolderIsOpen
    <3>. QED
      BY <3>3, <3>4
  <2>. QED
    BY <2>2, <2>3
<1>. QED
  BY <1>1, <1>2, <1>3 DEF Calls

\* When every pending call waits for pending calls, all of them are deadlocked.
LEMMA WaitsAreResolved ==
    ASSUME TypeOK, NEW p \in Session, call[p] # None
    PROVE  \/ \E s \in Session : CanEnd(s) \/ AwaitsRemoval(s) \/ Deadlocked(s)
           \/ \E s, u \in Session : WaitsFor(s, u) /\ txn[u] = "active" /\ call[u] = None
<1> SUFFICES ASSUME \A s \in Session : ~CanEnd(s) /\ ~AwaitsRemoval(s),
                    \A s, u \in Session :
                       WaitsFor(s, u) /\ txn[u] = "active" => call[u] # None
             PROVE  Deadlocked(p)
  OBVIOUS
<1> DEFINE P == {s \in Session : call[s] # None}
<1>1. \A s \in P : \E u \in P : WaitsFor(s, u)
  BY PendingEndsOrWaits
<1>2. P \in SUBSET Session /\ p \in P
  OBVIOUS
<1>. QED
  BY <1>1, <1>2 DEF Deadlocked

\* A pending call of issue or consume can end or waits for an open transaction
\* or removal, and if none can end there is a deadlock or one of those to be
\* ended: what CallSettles needs beside fairness.
THEOREM NobodyWaitsInVainHolds == Spec => []NobodyWaitsInVain
<1>1. TypeOK => NobodyWaitsInVain
  BY PendingEndsOrWaits, WaitsAreResolved DEF NobodyWaitsInVain
<1>. QED
  BY <1>1, TypeCorrect, PTL

=============================================================================
