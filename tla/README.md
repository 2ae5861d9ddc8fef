# Verification of portfolio_manager

TLA+ models of the behaviour of `portfolio_manager` that is hard to test, the TLC
configurations that check them on small instances, and TLAPS proofs of what holds
for every instance.

- `tlc -workers 2 -config <run>.cfg <module>.tla` checks a run.
- `tlapm <module>_proofs.tla` checks the proofs of a module.

## 1. The system

The repository is a Python workspace. Much of it is still scaffolding: the API, MCP
and worker applications and the analytics, assistant, jobs, observability and
reporting packages hold a docstring each. What works today is below, with the state
each part keeps, its operations and what makes it correct.

| Component | State | Operations | Correct when |
| --- | --- | --- | --- |
| `KiteAuthorizationService` (`connectors/zerodha_auth.py`) | none of its own; rows in a `KiteNonceStore` | `start` stores a digest with scope and deadline and returns a login URL; `complete` consumes it and exchanges the request token | a state is good for one exchange, in time, for the right scope |
| `HttpxKiteTokenExchanger` (same file) | none | `exchange`: POST to the broker, translate errors, build a `KiteSession` | every failure is reported as what it is; the expiry is right |
| `KiteSession`, `HttpxKiteTransport` (`connectors/zerodha_http.py`) | an immutable session; a pool of connections | `authentication_state`, `fetch` | it stops at expiry, ends every wait, translates every failure |
| `ZerodhaConnector` (`connectors/zerodha.py`) | local to a call | `collect` walks the capabilities and gathers artifacts | statuses, issues and artifacts agree; an authentication failure is final |
| Connector SDK (`application/connectors.py`) | immutable values | constructors with checks | no legal walk trips over the checks |
| `SqlAlchemyAuthorizationNonceStore` (`persistence/nonce_store.py`), its table and policy (`models.py`, migration 0001) | rows of `authorization_nonces` | `issue`, `consume` inside a caller's transaction | one consumer, no resurrection, no row of another tenant |
| Envelope encryption (`persistence/envelope.py`) | a key file that operators replace | `encrypt_secret`, `decrypt_secret` | only what was sealed is opened, under the version and data it was sealed with, and what was sealed opens |
| Domain (`domain/*.py`) | immutable records | construction checks, conversion of times to UTC | records compare as the instants and facts their sources meant, intervals and legs are judged by what they mean |
| `scripts/check_architecture.py` | two sets during the search | checks the rules, searches them for cycles, finds forbidden imports | cycles are found and real, every forbidden import is reported |

How they interact:

- A callback route (not written yet) calls `complete` with API credentials, the
  state and a request token, the latter two chosen by the browser; no code ties the
  token to the state. `complete` awaits the nonce store, then awaits the exchanger.
  Nothing holds a lock across the two awaits; a second delivery of the same redirect
  may be anywhere in between, in another process.
- The SQL store flushes and deletes in the transaction of its caller. It never
  commits. The caller also has to set `app.tenant_id` before the row-level policy
  shows it anything.
- The exchanger's session goes to a transport; concurrent collections share the
  transport, its session and its five connections.
- `encrypt_secret` and `decrypt_secret` inspect and read the key file on every call;
  nothing coordinates them with the operators who rotate it.
- The architecture checker stands alone; CI runs it over the repository.

Hard behaviours: duplicated, late and mangled redirects, and states combined with
the token of another login; calls cancelled at an await; a broker that acts on a
request whose client gave up; a session that expires or is revoked between check and
use; partial failures in every combination; transactions that wait for, roll back
over and deadlock with each other, and an exchange at the broker in the middle of
one; times around an hour that a clock change repeats; connections removed while
nonces of theirs are in use; key files replaced between inspection and use;
dependency graphs whose modules are reached more than once. `PROJECT.json` lists
each of them at its line.

## 2. Modules

| Module | Models | Checked by | Proved in |
| --- | --- | --- | --- |
| `OneTimeGrant` | the promise of the authorization flow: opened, taken once, redeemed once by its taker | as a refinement | `KiteAuthorization_proofs`, `LoginTransactions_proofs` |
| `KiteAuthorization` | `start`, `complete`, `exchange`, with broker, browser and clock as environment | `MCKiteAuthorization` | `KiteAuthorization_proofs` |
| `KiteSession` | the life of an access token against the expiry the code computes | `MCKiteSession` | `KiteSession_proofs` |
| `ZerodhaCollection` | `collect` over `fetch`, concurrently, over one pool and session | `MCZerodhaCollection` | `ZerodhaCollection_proofs` |
| `NonceTable` | the promise of the nonce table to those who commit: whole transactions, one at a time | as a refinement | `SqlNonceStore_proofs` |
| `SqlNonceStore` | `issue` and `consume` in transactions of several sessions | `MCSqlNonceStore` | `SqlNonceStore_proofs` |
| `LoginTransactions` | `start` and `complete` over `SqlNonceStore`: the service inside its callers' transactions | `MCLoginTransactions` | `LoginTransactions_proofs` |
| `LoginGrants` | `LoginTransactions` with two history variables, and `OneTimeGrant` over them | not run (section 3) | `LoginTransactions_proofs` |
| `CanonicalRecords` | what the constructors of `packages/domain` accept and how they store times (operators only) | through `RecordLedger` | through `RecordLedger_proofs` |
| `RecordLedger` | an importer that calls those constructors and keeps what it gets | `MCRecordLedger` | `RecordLedger_proofs` |
| `SecretEnvelope` | `encrypt_secret` and `decrypt_secret` over a key file that is replaced under way | `MCSecretEnvelope` | `SecretEnvelope_proofs` |
| `ArchitectureCheck` | the checks of the rules, the cycle search step by step, the check of the imports | `MCArchitectureCheck` | `ArchitectureCheck_proofs` |

Each component module declares its parameters as CONSTANTS with one named assumption
and has one action per step of the code between two awaits. A definition whose name
extends that of the definition after it is marked "Mutant" and is a plausible bug
that the checks must catch; no specification uses it.

### KiteAuthorization

| Code | Model |
| --- | --- |
| a call of `start` / of `complete` | a member of `Attempt` / `Callback`; `starting`, `completing` say at which await it stands |
| `PendingKiteAuthorization` and its digest in the store | `auth[a]`, in the store when `a \in pending` |
| `start` up to `await issue` | `Start`, `StartInvalid` |
| `issue` | `Issue`, `IssueConflict`, `CancelStart` |
| `complete` up to `await consume` | `Complete` (validation errors included) |
| `consume` | `ConsumeHit`, `ConsumeMiss` |
| the deadline check | `RejectExpired`, or `BeginExchange`: the call goes on to wait for a connection |
| the POST leaves | `PostExchange` |
| `exchange` from the response on; timeouts and broken connections before and after the POST | `ExchangeReturn` (`Verdict`), `ExchangeFail` |
| cancellation, death of the process | `CancelStart`, `CancelComplete`, `Issue` with end "failed" |
| broker, browser, clock (external) | `BrokerLogin`, `Redirects`, `BrokerMint`, `BrokerRefuse`, `Tick` |

The store is atomic here, as its protocol asks; `SqlNonceStore` shows what the SQL
implementation makes of that. Digests are injective. Nonces are random
(`FreshNonces`) or come from an injected factory that may repeat. `Redirects` lets
any token arrive with any state of a URL or any other: the browser chooses both, and
only the broker compares the token with the key. The broker honours a request token
once and only for the key it was minted for; it may act after the client gave up,
and its answers may be damaged. `Faults` bounds the kinds of answers a run explores.
A body whose key is not ASCII makes `hmac.compare_digest` raise a `TypeError` that
nothing translates (`zerodha_auth.py:237`); `ErrorCode` has it as an outcome of its
own.

### KiteSession

Instants are minutes of UTC and dates are computed from them as `_session_expiry`
does. `Mint` is the broker, `Observe` is `exchange` reading its clock after the
response. The broker is taken to end a token by the same 06:00 rule, applied to the
moment it minted the token (ADR 0005).

### ZerodhaCollection

| Code | Model |
| --- | --- |
| a call of `collect` | a member of `Collector`; `stage` says where it stands |
| the readiness check, `retrieved_at`, `sorted(capabilities)` | `Refuse`, `Begin` |
| `sorted(...)`, the capability of the iteration | `Before`, `FirstByName`, `Current`: the first by name of those not yet settled |
| the loop over capabilities | `SkipUnsupported`, `SkipUnauthenticated`, `OpenCapability`, `CloseCapability`, `Return` |
| `fetch` up to the pool, the request | `FetchRefused`, `Fetch`, `Send` |
| the response | `Receive`, `ReceiveFailure`, `ReceiveUntyped` |
| httpx errors, translated or not; cancellation | `TransportFailure`, `TransportAbort`, `Cancel` |
| the broker and the clock (external) | `BrokerReply`, `Revoke`, `Tick` |

Payloads are abstract; a response is one of the classes `_raise_for_status` and
`_read_bounded` tell apart.

### SqlNonceStore

| Code | Model |
| --- | --- |
| the tables, committed | `rows`, `connections` |
| a row's own `tenant_id`, and that of its connection | `OwnerOf[n]`, `TenantOf[ConnectionOf[n]]` |
| a transaction of an `AsyncSession` | `txn`, `context`, `inserted`, `deleted` |
| `issue`: add, flush | `Issue`, then `FlushInsert`, `FlushIntegrityError` or `FlushDenied` (when `Insertable`, `Conflicting`, `Denied`) |
| `consume`: DELETE ... RETURNING | `Consume`, then `DeleteReturning` or `DeleteNothing` (when `Found`, `NotFound`) |
| policy of migration 0001, unique digest, composite foreign key | `Policy`, `Duplicate`, `Refers` |
| removal of a connection, which cascades | `LockConnection`, then `DropConnection` or `KeepConnection` |
| PostgreSQL's locks, deadlock detection, aborted transactions (external) | `Contended`, `WaitsFor`, `AwaitsRemoval`, `Deadlocked`, `AbortWaiting`, `Fail` |
| the callers (external, not written yet) | `Begin`, `Commit`, `Rollback` |

A DELETE looks for the rows it saw when it began (`call[s].snapshot`), as a
statement does at READ COMMITTED: one that waited and lost its row does not find
another with that digest that was committed meanwhile. A removal locks its
connection and the nonces of it at one instant, once no open transaction holds one
of them, and statements that need them wait until it ends (`AwaitsRemoval`). In
PostgreSQL it locks them one after the other; what it can then run into is a
deadlock, which the engine ends, and the statements that wait see no difference.
Objects handed to `issue` name tenant and connection separately, so a nonce may name
another tenant's connection; the composite foreign key (`Refers`) refuses it, and
`issue` raises `NonceConflictError` for it as for a duplicate.

`NonceTable` is what remains of this for somebody who looks at committed states
only. It has no sessions, locks, policy or rollback: a transaction adds nonces that
were never there and uses up nonces that are, all of one tenant, in one step; a
connection takes its nonces with it. `ImplementsNonceTable` maps the committed rows
to it. Only `Commit` and `DropConnection` are steps of the table.

### LoginTransactions

| Code | Model |
| --- | --- |
| a session's call of `start` / `complete` | `serving[s]`: where it stands, the login it serves, the row it issued or consumed |
| `start`: `await issue`, the URL it returns | `StartCall`, `StartFlushed`, `StartRaises`, `StartReturns` |
| `complete`: `await consume`, the exchange | `CompleteCall`, `CompleteConsumed`, `CompleteRefused`, `ExchangeSucceeds`, `ExchangeFails` |
| the callers (external, not written yet) | `CallerBegin`, `CallerCommit`, `CallerRollback`, `CallerCancel`, `CallerAborted`; `Spanning` and `MayGoOn` say what their transactions span |
| the user and the broker (external) | `UserLogin`, `honoured` |

The module extends `SqlNonceStore`: each of its steps is a step of the store, of the
service, or of both. A session in `Spanning` has a caller whose transaction spans a
whole call of the service; the others commit each call of the store before the
service goes on. Connections are removed as in the store. Deadlines and scopes are
left to `KiteAuthorization`.

`LoginGrants` adds two histories that no step reads: the nonces that were ever
committed, and who took which. With them a login URL is a grant of `OneTimeGrant`:
open from the commit of its issue, taken at the commit of its consumption, redeemed
by the exchange that succeeded.

### CanonicalRecords and RecordLedger

| Code | Model |
| --- | --- |
| Python's `datetime`: aware, `fold`, `==`, `<` | `Datetime`, `Aware`, `Same`, `Before`: two readings of one zone compare by the wall clock; readings of different zones by their instants, and one whose offset depends on the fold equals nothing |
| `as_utc`, `TimeRange` | `as_utc`, `TimeRangeInOrder` |
| checks of amounts, prices, rates, quantities | `MoneyAccepted`, `PriceAccepted`, `FxRateAccepted`, `QuantityAccepted` |
| `CashLeg`, `InstrumentLeg`, `Activity.__post_init__`, `_has_valid_leg_shape` | `LegAccepted`, `ActivityAccepted`, `ValidLegShape` |
| `DataQuality`, `Observation` and the checks of its values | `DataQualityAccepted`, `ObservationAccepted`, `ValueAccepted` |
| `Instrument`, `Listing`, `BrokerInstrumentMapping`; tenants, connections, accounts | `InstrumentAccepted`, `ListingAccepted`, `MappingAccepted`, `EntityAccepted` |
| an importer (external, not written yet) | `RecordLedger`: any constructor call; `kept` and `refused` |

A record is modelled by what its constructor does with its arguments: a predicate
that says whether it raises and an operator that gives the record. Text is trimmed
or not, a number is an integer or not finite.

### SecretEnvelope

| Code | Model |
| --- | --- |
| the key file: its bytes, its type and mode | `file` |
| the version a `FileKeyEncryptionKeyProvider` was built with | `provider[c]`, the value of `deployed` when call `c` began |
| validation of the inputs, the version comparison of `get` | `Encrypt`, `Decrypt` |
| `_load`: `lstat`, then `read_bytes` and the length check | `Inspect`, then the read in `Seal` or `Open`; `Missing`, `NotAKey` |
| the rest of `encrypt_secret` / `decrypt_secret` | `Seal` / `Open` |
| the columns a caller stored and reads back | `Presented`: fields of any returned secrets, and any version |
| operators (external) | `ReplaceFile`, `Deploy` |

Cryptography is symbolic and ideal: a data key opens only under the key it was
wrapped with, a ciphertext only under its data key, nonce and associated data. Data
keys and nonces are random, so each is named by the call that drew it. The fixed
algorithm and format version are constants.

### ArchitectureCheck

| Code | Model |
| --- | --- |
| `load_rules`: prefixes, unknown modules, self-dependencies | `WellFormed`, `LoadRules`, `RejectRules` |
| the stack of calls of `visit` and its `chain` | `chain`; `todo[m]` is what the loop of m's call has left, `roots` what the outer loop has |
| `name in visiting`, `name in visited`, `add`, `remove` | `FindCycle`, `SkipVisited`, `Enter`, `Leave` |
| `imported_modules` | `RecordedNames`: a from-import records its package only, without the parts its dots stand for (`dotted`), and nothing if no part is left |
| `match_module` | `MatchModule`: the longest prefix |
| `check_imports`, exit status of `main` | `Inspect` (the readable files' imports, and a violation for the others), `Report` |

A frozenset is iterated in an order that differs between runs of the interpreter;
the model takes every order. The version, shape and paths of `architecture.toml` are
taken to be acceptable. A module's files are read in one step, for what is recorded
of them does not depend on their order.

## 3. Runs

| Run | Question | Properties |
| --- | --- | --- |
| `auth_fresh` | random nonces: replays, tokens combined with other states, late callbacks | `ReplayRejected`, `ResultScoped`, `TimelyExchange` |
| `auth_repeating` | what holds even if the nonce factory repeats itself, and does every callback end | `SingleUse`, `LoginNeverOrphaned`, `RefusalIsSideEffectFree`, `ImplementsOneTimeGrant`, `CallbackSettles` |
| `login_transactions` | the service inside its callers' transactions: who exchanges what, what is left when one is rolled back, who is refused and why | `ExchangesApart`, `CommittedOnce`, `ReplayNeedsRollback`, `LinkedRowsExist`, `ServiceSettles`, `RefusedForCause` |
| `store_safety` | colliding digests, two tenants, callers with either context or none, a nonce for another tenant's connection, a connection removed, crashes, calls that wait for each other's rows | `ExclusiveConsumption`, `ConsumedIsGone`, `TableIntegrity`, `TenantIsolation`, `NobodyWaitsInVain`, `ImplementsNonceTable`, `CallSettles` |
| `session_life` | the computed expiry against the broker's | `StaleForADayAtMost`, `NeverExpiresEarly` |
| `collect_all` | what results say, two calls over one connection, a session that ends under way | `EvidenceMatches`, `ResultComplete`, `ConstructorsAccept`, `AuthenticationFailureIsFinal`, `CollectSettles`, `StampNeverLate` |
| `records` | any two records, with times around a clock change and legs of every kind | `Chronology`, `OneFactOneRecord`, `IntervalsByInstant`, `QualityByInstant`, `ChargesCanBeAdded` |
| `envelope_rotation` | secrets sealed, mixed up and opened while key file and version change | `OpenedIsWhatWasSealed`, `SealedOpens` |
| `arch_all` | every set of rules over three modules, every order of the search, imports around a nested module, unreadable sources | `AcyclicWhenAccepted`, `ReportedCycleIsReal`, `RecordedImportsConfined`, `CheckTerminates` |
| `login_once`, `collect_partial`, `arch_from` | statements of the documentation that the code does not keep (section 6) | one each |

Bounds, and why they are enough:

- Authorization: two attempts and two callbacks are the least in which a session can
  be mixed up or a state replayed. Two keys and two scopes are what `ResultScoped`
  tells apart, with a token of each login for either state. A mangled token and a
  malformed nonce reach the validation paths. `Faults` has every kind of answer in
  `auth_repeating`; in `auth_fresh`, whose properties are not about them, one from
  before and one from after the minting. The clock passes the deadline (`NonceTTL`
  1, `MaxTime` 1 or 2). In `auth_repeating` both attempts may draw the one
  well-formed nonce, so that a second issue follows a consumption.
- Composition: one session of each kind of caller, two nonces and two logins: a
  replay needs one nonce and two logins, a mix-up two nonces. One connection and one
  tenant, for `store_safety` has two of each; callers establish that tenant
  (`Contexts`), for those that do not are in `store_safety`, and
  `RefusedForCauseHolds` covers every context.
- Store: two sessions; three nonces, two of which collide across tenants, and a
  fourth whose connection belongs to the other tenant. `Contexts` has both tenants
  and none. One connection may be removed (`Removable`): it has nonces of either
  digest, and the other one is always there to wait for.
- Session: the instants of four days around UTC midnight, 06:00 and midnight in
  India, with a latency of ten minutes that can cross each of them.
- Collection: two calls and one connection for contention; an unsupported
  capability, one with two endpoints and one with a single endpoint, so that each
  status can occur with each kind of failure before and after it; the session
  expires at tick 1 and may be revoked at any time. The proofs cover the other
  capabilities and classes of response.
- Records: two calls (`MaxClaims`), for the properties relate two records; UTC and
  one zone whose second reading occurs twice; every pair of legs under every kind of
  activity; for each check a value on both sides of it.
- Envelope: two encryptions are the least whose columns can be mixed up; two
  versions and two keys are the least that can be confused with each other. One
  decryption suffices, since decryptions share nothing they write.
- Architecture: with three modules a dependency can be shared (a diamond is one
  module short, but the shared module is still reached twice), a cycle can be
  reached from outside, and all three can form one. One prefix extends another. A
  module's sources hold no statement or one of four (`Sources`): the check looks at
  one recorded name at a time. A fourth module multiplies the initial states by
  hundreds; the proofs cover it.

Symmetry is used in safety runs only, over sets no constant distinguishes; runs with
a liveness property use none. `CHECK_DEADLOCK FALSE` stands wherever calls may all
have ended or the broker may say nothing: the systems stop legitimately.

Every safety property above is also proved (section 5) but for those of the three
runs that expect a violation. Some theorems state what no run checks: the type
invariants, properties that follow from others (`OneSessionPerAttempt`, `BornReady`,
`TransfersAreNotIncome`, `RejectedExactlyWhenCyclic`), the three on progress, and
`GrantsHold`, whose hypothesis no run's callers meet.

## 4. Fairness

- `KiteAuthorization`: the store answers, the local step after it is taken, and an
  exchange ends by an answer or by httpx's timeouts (`_TIMEOUT`: connect 5 s, read
  10 s, pool 5 s), the wait for a connection included. Nothing is assumed of the
  broker, the user or the clock.
- `ZerodhaCollection`: local steps are taken and httpx ends every wait by a timeout,
  the wait for a connection included. A connection need never be granted and the
  broker need never answer.
- `SqlNonceStore`: a statement that can end again and again does end: lock queues
  are fair, and the engine ends deadlocks (`deadlock_timeout`). A caller without a
  pending call ends its transaction. Both are strong fairness: a lock may be taken
  by others in between, and a caller may make further calls. The removal of a
  connection ends (weak fairness); it need never begin.
- `LoginTransactions`: the store's assumptions, under the service. A call that waits
  for a row ends or is ended as a deadlock (strong fairness, as above), `start`
  returns and an exchange ends by its timeout, and a caller whose call of the
  service has ended ends its transaction, which is strong since it may make further
  calls. Nothing is assumed of users or the broker.
- `RecordLedger` has no liveness: an importer need not call anything.
- `ArchitectureCheck`: a sequential program that nobody stops takes its next step.

## 5. Proofs

`KiteAuthorization_proofs` holds for any sets of calls, scopes, keys, nonces and
tokens, for any deadline, and under `ConstantsAssumption` only. `SingleUse` and the
others are not inductive. The strengthening `IInv` is built in layers, each of which
is invariant given those before it:

1. `TypeOK` and `Progress`: what a callback holds at each await.
2. `Custody`: a row is in the store or with one callback that presented its nonce,
   and it came from a start call that finished. It contains `SingleUse`.
3. `NoncesUnique`: with `FreshNonces`, a nonce names one attempt. `ReplayRejected`
   follows: two posted callbacks with one state would hold one row.
4. `Origins`: only login pages of URLs that left `start` mint tokens, and a
   validated callback carries the nonce of such a URL or a stray one. It says
   nothing of the pair, which is the browser's choice.
5. `Exchanges`: what the broker minted it minted for a posted callback with that
   token, for the key of the login page.
6. `Stored` and `Refusals`: the row of a URL that left `start` is in the store or
   with a callback that consumed it, and a refused call has minted nothing.

`ResultScoped` follows from `Custody`, `NoncesUnique` and `Exchanges`: the scope of
a session is that of the start call whose state was presented, whatever login its
token came from, and the session was minted for this call under its key.
`OneSessionPerAttempt` needs no random nonces: a minted session belongs to a posted
callback, and a row to one callback. `LoginNeverOrphaned` and
`RefusalIsSideEffectFree` follow from the sixth. `TimelyExchange` says that a call
which reaches its deadline before the check never posts; it is proved step by step
over `Custody` and `NoncesUnique`. That a call posts before the deadline is not
claimed, and is not so: the POST may leave after the wait for a connection.
`Implementation` proves the refinement of `OneTimeGrant`, step by step: `Issue` is
`Open`, `ConsumeHit` is `Take`, `PostExchange` is `Redeem`, all others stutter;
`BeginExchange` is one of those. The refinement mapping is explained in the module:
`taken` is read off `grant`, `redeemed` off `posted`.

`SqlNonceStore_proofs` proves the safety properties of the store for any number of
transactions, tenants and connections and for any functions from nonces to digests,
connections and tenants, colliding and mismatched ones included. Beside the
properties themselves the invariant says that what a transaction has deleted no
other transaction holds and was not consumed before (`SpentOnce`, `Apart`), that
what it inserted is not committed (`IssuedIsFresh`), and that committed rows have
distinct digests and connections of their own tenant (`Unique`, `Referenced`), and
that the rows a transaction holds have the tenant of its context (`ContextOwns`).
`TenantIsolation` is an action property: what changes in the committed table changes
by the commit of a transaction in the row's tenant, which is its connection's, or
goes with that connection. It needs the policy for the statements, the foreign key
for the connection's tenant, and the invariant for everything between statement and
commit.

From the same invariant follow two stronger statements. `ImplementsNonceTableHolds`
is the refinement of `NonceTable`: a commit is a transaction of the table
(`CommitTransacts`), although the statements of several transactions interleave,
because what one has inserted or deleted the others neither see nor hold.
`NobodyWaitsInVainHolds` says that a call that cannot end waits for an open
transaction or removal, and that if no call can end and none waits for a removal,
some waiting transactions form a deadlock or one that others wait for has no call
pending, so that its caller can end it. The argument takes all sessions with a
pending call: none of them can end, so each waits for another one; if all of these
have pending calls, the set is a deadlock. It is the safety half of `CallSettles`:
in no state is there nobody whose turn it is.

`LoginTransactions_proofs` starts from the lemma `LoginKeepsStore`: the service
takes steps of the store only, as the composition is written, so the store's
theorems hold for it and its invariant can be used. `LInv` ties a call to the
transaction under it: a call waits for the statement it made (`WaitingOK`), a
flushed row is in its transaction or committed (`FlushedOK`), a call at the broker
has deleted its row or seen the deletion committed (`WaitingApart`), and a result
belongs to a row that its transaction deleted (`ResultsOK`) or that is gone for good
(`CommittedOK`). A second success on a row (`SucceededOK`) therefore needs a
transaction that put the row back.

`RefusedForCauseHolds` says for which causes alone `complete` refuses the state of a
URL: its row was consumed or went with its connection, the context is not the row's
tenant (or is missing), or some caller's transaction spans `start` and the row was
not there when the DELETE began. A row that another open transaction holds, or gave
back, is no cause. `CauseInv` says that a linked nonce is a row or gone when no
caller spans (`LinkedOK`), that what a pending DELETE saw is there or gone since
(`SeenOK`), and that it saw the nonce it presents, if no caller spans and the nonce
was not gone (`PresentedOK`). `Gone` is for ever, so every way in which a row it saw
leaves the table is one of the causes (`StillCaused`).

Two theorems say under which callers the promises of the authorization flow survive
the SQL store. `SucceedsOnceWhenCommitting` assumes that no transaction spans a call
of the service (`Spanning = {}`) and proves `CallbackSucceedsOnce`, the statement of
ADR 0011 that `login_once` refutes without that assumption. `GrantsHold` assumes
also that digests do not collide (`CommittingCallers`) and proves that the service
implements `OneTimeGrant`, as `KiteAuthorization` does over its atomic store. The
invariant adds to `LInv` that a call has nothing but its own row in its transaction
and that the row belongs to the login it presents (`Own`), and that the histories
agree with the table (`TakenOK`, `OpenedOK`); the proof goes through who commits
what, one lemma for each kind of step. `LoginImplementsNonceTable` composes the
refinements: service over store, store over table.

`ZerodhaCollection_proofs` proves all six safety properties of `collect`, for any
number of calls and any requests, session, pool and responses. The invariant is
local to a call, since calls share only the clock, the pool and the session, and has
a part for each of the loop's variables: the walk (`Phase`), the list of
capabilities against the outcomes (`Agenda`), the issues (`Reasons`), the
authentication issue (`Stopped`) and the artifacts (`Evidence`). `Evidence` says of
the capability under way that an endpoint was fetched, waits, or is the reason for
an issue. `Elsewhere` shows once that a step of one call leaves the others in order.
`CollectAdvances` bounds the walk: `Work` counts ten for a capability left and three
for an endpoint left, is at most ninety-one, and becomes less with each step of the
call and with no other step. The reason codes of authentication failures must differ
from all others (`ReasonFacts`), for the outcomes keep codes and not kinds.

`RecordLedger_proofs` proves its properties for any zones, offsets and arguments,
and for any number of calls. The invariant says that what is kept was accepted and
is what its constructor made of its claim. The rest is about Python's comparison: on
records in UTC it agrees with the order of the instants, which it does not on what
sources give.

`KiteSession_proofs` proves the date arithmetic (`KolkataDateBounds`,
`KolkataDateMonotone`, `ExpiryWindow`) and from it the three properties, for every
set of instants and every latency of up to a day. The invariant says that a session
was read within `Latency` of its minting, so its date is the minting date or the
next one.

`ArchitectureCheck_proofs` proves that the search is right for any number of
modules. `AcyclicWhenAccepted` is about graphs, and its negation is stated as a
non-empty set of modules each of which depends on a member of the set, so that no
induction over paths is needed. The invariant says that the chain has no repetition
(`Path`) and follows dependencies (`Edges`), that a dependency of a module on the
chain was left, is still to be followed or is next on the chain (`Frontier`), that
every module was left, is on the chain's root or still to be visited (`Coverage`),
and that what was left depends only on what was left and contains no such set
(`Explored`). `Leave` keeps the last part by `JoinAcyclic`: a module all of whose
dependencies lie in an acyclic closed set extends it. `RecordedImportsConfined`
rests on `LongestIsOwner`, that the longest matching prefix belongs to the one match
that no other match extends, and on `Inspection`, which says what the violations
found so far say of the sources read so far. `RejectedExactlyWhenCyclic` adds the
converse of `AcyclicWhenAccepted` (a reported path that comes back is such a set,
`ReportedIsCyclic`): the search decides. `CheckAdvances` says that it also ends. Its
measure is the cardinality of a set of things left to do (`Remaining`): modules to
enter, to leave, to visit, to read, and dependencies to follow. Each step removes
one and adds none, so no arithmetic over the set of modules is needed.

`SecretEnvelope_proofs` proves both properties of the envelope for any number of
calls, keys and versions. A kept secret is what its call made of its arguments and
some key (`Faithful`), a presented one is composed of kept ones (`Composed`);
`AuthenticIsOne` shows that columns of several secrets that authenticate together
belong to one.

The proofs assume the named ASSUME of each module, which TLC evaluates in every run,
and the hypotheses named above: `FreshNonces` for random nonces, `CommittingCallers`
or `Spanning = {}` for the callers, finitely many modules for `CheckAdvances`.

Only model-checked: the liveness properties `CallbackSettles`, `ServiceSettles`,
`CallSettles`, `CollectSettles` and `CheckTerminates`. They need ENABLED, which is
out of the prover's reach. What of them is safety is proved: `CallbackAdvances` (a
call of `complete` only goes forward through six stages, in five steps at most),
`CollectAdvances` and `CheckAdvances` say that a call has finitely many steps to
take, and `NobodyWaitsInVain` that somebody always has the next one. TLC adds that
the steps the fairness of section 4 speaks of are enabled until then.

## 6. Where the documentation says something else

Shown by a run:

- `login_once`: ADR 0011 says that nonces are consumed by one atomic DELETE so that
  a callback can succeed only once across processes and restarts. `consume` deletes
  in its caller's transaction. If that transaction spans `complete` and is rolled
  back after the exchange, the row comes back and a second login on the same URL
  succeeds. `ReplayNeedsRollback` is what does hold, and `CommittedOnce` is the
  promise kept by callers that act only on committed results. When no transaction
  spans `complete`, ADR 0011 is right (`SucceedsOnceWhenCommitting`).
- `collect_partial`: ADR 0006 says partial success is a result and not an exception.
  An httpx error that is neither a timeout nor a network error, or a response with
  an empty content type, leaves `collect` as an exception and the artifacts gathered
  before it are lost.
- `arch_from`: ADR 0002 says dependency direction is checked by CI. The checker
  records `from package import module` as an import of the package only, which
  belongs to no module, so the import is accepted wherever it is forbidden.

Modelled as the code has it, without a run of its own:

- `NonceConflictError` is documented as "already present" (`nonce_store.py:40`). Any
  integrity error of the flush raises it (`:59`), a missing connection included;
  `FlushIntegrityError` has both.
- ADR 0003 asks a conversion for a source and a destination amount (`:66`).
  `Activity` counts currencies over all cash legs (`activities.py:210`), so a
  principal and a fee in another currency pass; see `ConversionShape`.
- ADR 0003 has futures and warrants with an expiry (`:70`). `Instrument` refuses one
  for anything but an option (`ownership.py:179`); see `InstrumentAccepted`.
- Only an activity's own id is refused as `supersedes_id` (`activities.py:155`), so
  two of them can supersede each other, although ADR 0003 has a correction replace
  an activity (`:47`).

`KiteSession` also shows that a response read after midnight in India gives the
session up to a day more than its token: `StaleForADayAtMost` is the strongest bound
that holds.

## 7. Not modelled

- `retry_after`, which `collect` drops, and the bytes counted by `_read_bounded`: an
  oversized response is a class of its own.
- Identifiers and scopes of the domain: wrappers around UUIDs and sets without
  behaviour. Spelling rules of currency and country codes, and enumerations.
- Normalizers of the connector SDK: protocols without an implementation.
- The version, shape and paths of `architecture.toml`, and Python's grammar.
- The other tables of migration 0001: no code reads or writes them.
- The empty packages and applications. Their parts in the models (callers of the
  service, importers, owners of transactions) are arbitrary where a model needs
  them.
- TLS, cookies, the wording of errors, logging, and the bytes of payloads.

## 8. What is left

- The life of a connection: a 401 or 403 leaves the transport's session ready, and
  nothing in the repository replaces it yet. When its owner exists, it joins
  `KiteSession` and `ZerodhaCollection` in a module of its own.
- The callback route: when it exists it fixes `Spanning`; with `Spanning` empty the
  theorems of section 5 apply, otherwise `login_once` does.
- A correspondence between `KiteAuthorization`, whose store is atomic, and
  `LoginTransactions`: both implement `OneTimeGrant`, the latter for
  `CommittingCallers`, but not each other.
- A ledger that rejects cycles of supersession, once the repository has one.
