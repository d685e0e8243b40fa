# A verification of the Splito backend

TLA+ models of the backend under `src/`, TLC configurations that check them on
small instances, and theorems about them checked by TLAPS. The backend is a
FastAPI service on PostgreSQL for sharing expenses in groups: users form groups,
record who paid what for whom, and pay each other back. Every number a user sees
comes from two tables, the append-only `ledger_entries` and the derived
`balances_cache`; whether these two and the `expenses` table agree, under any
sequence and any overlap of requests, is what this project is mostly about.

## The system

| Component | Code | State | Operations |
|---|---|---|---|
| Groups and members | `services/group_service.py`, `repositories/group_repository.py` | `groups`, `group_members` | create, update, archive, add and remove a member |
| Expenses | `services/expense_service.py`, `repositories/expense_repository.py` | `expenses`, `expense_participants` | create, update (title, description), reverse, list |
| Split strategies | `services/split_service.py`, `schemas/expense.py` | none | EQUAL, EXACT, PERCENTAGE, SHARE |
| Settlements | `services/settlement_service.py` | `settlements` | create, list |
| Balances | `services/balance_service.py`, `repositories/balance_repository.py`, `domain/balance/models.py` | `ledger_entries`, `balances_cache` | apply or reverse an expense, apply a settlement, clear a group, net of a user |
| Debt simplification | `BalanceService.simplify` | none | greedy list of transactions |
| Sessions | `db/session.py` | a transaction per request | commit at the end of a handler, rollback on an exception |
| Authentication | `services/auth_service.py`, `repositories/token_repository.py`, `core/security.py`, `middleware/auth.py` | `users`, `tokens` | register, login, refresh, verify, forgotten password |
| Email | `services/email_service.py` | none | an HTTP call that never raises |
| Notifications | `services/notification_*.py`, `repositories/notification_repository.py` | `notifications` | background writes after a commit; list, mark read |
| Analytics | `services/analytics_service.py`, `repositories/analytics_repository.py` | none | totals over the tables above |
| HTTP API, errors | `main.py`, `api/`, `middleware/exception_handlers.py` | none | routing, serialisation |
| Migrations | `alembic/` | none | the constraints of the tables |

**How they interact.** A handler gets one session from `get_db` and calls one
service method; the session commits when the handler returns, rolls back when it
raises. `ExpenseService` asks `SplitStrategy` for the shares, writes the expense,
its participants and its ledger entries, and then has `BalanceService` update two
cache rows per debtor (debtor to payer, and the mirror). `SettlementService`
checks a payment against the payer's cache row and writes a settlement, a ledger
entry and two cache rows. `GroupService` reads the cache before it removes a
member and deletes the group's cache rows when it archives the group.
`simplify` and the analytics read the cache. Four endpoints read the recipients
of a notification after the service has returned and queue a background task,
which runs after the commit and the response, in a session of its own, and
swallows its errors. `AuthService` writes a token, has the mail sent and returns;
the commit comes last. No service locks a row on purpose: requests meet only in
PostgreSQL's row locks and unique constraints.

**What is hard.** Read-modify-write of cache rows at READ COMMITTED; guards on
rows read without a lock; the pairs of mirrored rows, which two requests may lock
in opposite order; failures between two of the many writes of a request; the
`Numeric(18, 2)` columns, which round what the service computed with more
digits; operations that look at the membership but not at the status of the
group; mails that are lost, late, or sent for a token that is then rolled back;
tasks that die after the commit they belong to. `PROJECT.json` lists these hazards at the lines where they bite.

**What makes each component correct.** Balances: cache = ledger = expenses less
settlements, mirrored rows. Expenses: reversed at most once, records never
rewritten. Settlements: never more than was owed. Members: none leaves with a
balance, none outside is charged. Splits: the shares add up, are fair, and are
stored without a difference. Simplification: nets preserved, everybody settled,
never a payment beyond a balance, few transactions. Sessions: all of a request or
nothing, and every request ends. Tokens: an account is verified, and its password
changed, only by a link mailed to its address; a link is dead once it has been
redeemed, has expired or has been replaced. Notifications: all recipients of what
was committed or none, none for what was rolled back. Reports: their columns,
which come from different tables, add up.

## The modules

| Module | What it models |
|---|---|
| `Money` | amounts as integer mills (a tenth of a cent); `Numeric2`, the rounding of a column; `CutToCents` and `HalfEven`, the two ways the code quantizes |
| `DebtBook` | abstract: a book of pairwise debts with loans that are undone at most once, repayments within what is owed, and closing |
| `GroupLedger` | groups, members, expenses, settlements, ledger and cache, one request at a time |
| `Analytics` | the reports of a group and of a user and the lists of balances, as reads of `GroupLedger` |
| `LedgerTxn` | the same requests of one group as concurrent transactions, an SQL statement per step |
| `SplitStrategies` | the loops of the four strategies, a participant per step |
| `DebtSimplification` | the loop of `simplify`, a transaction per step |
| `AuthTokens` | accounts, mailed links, mails and JWTs, an SQL statement per step |
| `Notifications` | the requests that tell somebody something, their background tasks, reading |
| `SumTheorems` | lemmas about sums of a function over a finite set, which the next four modules share |
| `GroupLedgerProofs` | the theorems about `GroupLedger`: its invariants, its action properties, and that it implements `DebtBook` |
| `AnalyticsProofs` | the theorems about the reports, on top of those about `GroupLedger` |
| `SplitStrategiesProofs`, `DebtSimplificationProofs` | the theorems about the two algorithms |
| `LedgerTxnProofs`, `AuthTokensProofs`, `NotificationsProofs` | the theorems about the concurrent modules |
| `MC...` | instances of these for TLC |

### GroupLedger

`status` and `member`/`role` are the columns of `groups` and `group_members`,
`expense` is a growing function from ids to rows joined with their participants,
`ledger[g][t][u][v]` the sum of the ledger entries of type `t` from `u` to `v`,
and `cache[g][u][v]` a row of `balances_cache` (0 if there is none). An action is
a whole request with its guards in the order of the code and all its writes; a
rejected request is the absence of a step. `CreateExpense` takes any division
into amounts of `Shares`; a user listed twice counts once, with the sum of the
two amounts. Amounts are mills so that requests may carry fractions of a cent,
which the schemas allow.

### LedgerTxn

Each request has a program counter, a list `todo` of rows to upsert, the rows its
session holds (`seen`, SQLAlchemy's identity map: a second SELECT returns the
version already loaded, which is how `create_settlement` comes to work on the
row its guard read), and its uncommitted rows `put` and `gone`. A SELECT sees
what is committed; a writer waits for the holder of the row (`WaitsFor`); an
UPDATE of a deleted row and an INSERT of an existing pair raise; `DeadlockVictim`
is PostgreSQL's deadlock detection; `Crash` loses the connection at any point.
`stale` and `met` are history: who wrote over a version they had not read, and
who has not been alone. Left out: fractions of a cent (GroupLedger), adding
members and roles, and the rows other than balances that a transaction inserts,
which nobody else writes. Consecutive SELECTs of one guard are one step where
they read the same table.

### Analytics

Every operator is a query of `analytics_repository.py` over the state of
`GroupLedger`: sums of expenses by payer, of shares by participant, of
settlements, and of cache rows, each with the filter of its query (reversed
expenses, archived groups, former members). `MemberRows`, `UserReport`,
`GroupBalances` and `OverallBalance` are what the endpoints return. There is no
action: a report is one read, and its properties are invariants of `GroupLedger`.

### SplitStrategies and DebtSimplification

Both are loops over their input, which `Init` chooses: a split type, a total and
a list of participants; the net of every user. `SplitStrategies` justifies
`GroupLedger`'s assumption that shares are not negative (`TypeOK`: the
`owed_amount >= 0` constraint never bites). `DebtSimplification` takes nets that
do not add up to zero too, because lost updates produce them.

### AuthTokens

A request under `/auth` that writes is a transaction: its first SELECT lets it
through (`Register`, `ForgotPassword`, `ResetPassword`, ...), its writes follow,
and they are visible at its commit (`CommitLink`, `CommitRedeem`). `create_token`
is two steps, because its UPDATE (`Invalidate`) sees only the links committed at
that moment. `Issue` inserts the new link and sends the mail, which arrives or is
lost; the commit may still fail, and then a mail carries a link whose row never
comes. `superseded` is what the UPDATE of a request matched; it is kept after the
commit as history, so that a property can say which newer link replaced an older
one. A mail that has arrived may be followed at any later time, and more than
once. `Valid` is the condition of `get_valid_token`; `consume_token` does not look
again. `MayLogin` is what login checks; `Login`, `Refresh` and `Authenticates` are about JWTs, which no table
keeps and nothing revokes. `before` is history: which request had committed when
another one started. Row locks are left out except that of the unique e-mail
index: the others only put writers in the order of their commits, which the
model has anyway. So are `is_active`, which no code clears, and hashing.

### Notifications

An operation starts when the service is through with its checks; the endpoint
reads the recipients (`QueueForMembers`, ...), the session commits (`Commit`,
`CommitAdd`, `CommitRemove`), and the task inserts one row per recipient and
commits them together (`Insert`, `CommitTask`) or loses them all (`LoseTask`: an
insert fails, no connection comes free, the process dies). `WriteMember` is the
INSERT or UPDATE of a row of `group_members`: both wait for a request that has
written that row and not committed, the INSERT fails on `uq_group_member` if the
row is there by then, and the UPDATE goes through whatever became of the row.
`Readers` are the users who mark notifications as read. `stayed` and `outside` are history: who was
in, and who was out of the group from the start of a request to its commit. Money
is left out, so that any member may be removed and any payment recorded, and the
group is not archived.

## What is checked

| Run | Instance | Shows |
|---|---|---|
| `group_ledger` | 3 users, 1 group, 2 expenses | `TypeOK`, `CacheMirrors`, `CacheIsLedger`, `LedgerMatchesExpenses`, `SettlementsCovered`, `RecordsKept`; `RemovedMovesOnlyByReversal`: who is removed leaves with a net of zero, and while they are out only an archiving or a reversal of an expense of theirs changes their balances; `AdminsLostForGood`: a group without an admin stays so; that every request is a step of `DebtBook` (`ImplementsBook`); and of the reports `MemberRowsReconcile`, `UserReportReconciles` and `RateHonest` |
| `ledger_txn` | 2 users, 4 requests of any kind | `TypeOK`; `DriftOnlyFromStaleWrite`: cache and ledger part only when a request commits a balance computed from a replaced version; `AloneLikeTheBook`: a request that meets no other is one step of `DebtBook`, whatever earlier ones left behind |
| `ledger_txn_live` | 2 users, 3 requests | `EveryRequestEnds`: mutual lock-outs are resolved |
| `split_strategies` | totals of 0.001 to 0.060, up to 4 participants | `TypeOK`, `SharesAddUp`, `FairToTheCent`, `StoredSharesAddUp` |
| `debt_simplification` | 5 users, nets of -0.03 to 0.03 | `TypeOK`, `NetsPreserved`, `NeverMoreThanOwed`, `SettlesEveryone`, `FewerThanInvolved` |
| `auth_tokens` | 2 users, 4 requests, clock up to 2 | `TypeOK`; `OneLiveLink` and `SupersededIsDead`: a newer link kills the older; `SingleUseInSequence`: of requests that do not overlap one redeems a link; `SpentForAReason`: a spent link was redeemed, or a newer one is committed whose request invalidated it; `VerifiedByLink`, `LatestPasswordWins`, `SessionsOnlyForVerified` |
| `notifications` | 3 users, 3 requests | `TypeOK`; `AllOrNobody`: a commit tells all its recipients or, if the task is lost, none; `StayersAreTold` and `OutsidersAreNotTold`, whoever joins or leaves meanwhile; `JoinsOnce`: of the requests that insert a first membership for a user one commits; `OwnRowsMarked`: what a user's request marks as read are notifications to that user |
| `notifications_live` | 3 users, 2 requests | `ToldOrLost`: a committed request's task ends |

Each property has a mutant in `PROJECT.json`: a change of one definition, such as
a dropped guard or a forgotten mirror row, under which TLC refutes it.

Four runs show where the program does not do what the repository says of it:

| Run | Property | What happens |
|---|---|---|
| `lost_update` | `DeltaAddedAtomically` | two expenses at once: the second upsert overwrites the first (`balance_repository.py:56` says "atomically") |
| `double_reversal` | `ReversedOnce` | two reversals of one expense at once both succeed |
| `archived_ghost` | `ArchivedLeaveSummaries` | an expense in an archived group fills the cleared cache again |
| `token_reuse` | `SingleUse` | two requests that follow one reset link at once both set the password (`token_repository.py:71` says "single-use enforcement") |

Further configurations are kept for the reader and are not among the runs of
`PROJECT.json`. Six end in a counterexample, with a cause that one of the runs
above has as well, or on a point on which the documents say little or contradict
each other:

| Configuration | Property | What happens |
|---|---|---|
| `OverSettlement.cfg` (`MCLedgerTxn`) | `SettlementsCovered` | two settlements of one debt at once both succeed |
| `RemovedWithDebts.cfg` (`MCGroupLedger`) | `RemovedWithoutPendingBalance` | a member who owes 10 and is owed 10 is removed: only the net is looked at |
| `SubCentDrift.cfg` (`MCGroupLedger`) | `CacheIsLedger` | a settlement of half a cent is rounded to a cent in the ledger and to nothing in the cache |
| `AddedTwice.cfg` (`MCNotifications`) | `AddedOnce` | two requests that re-activate a former member at once both commit, and both welcome the user: the second adds somebody who is an active member by then, which `group_service.py:161-162` refuses; as in `double_reversal`, the status is read without a lock and not looked at again |
| `LoginUnverified.cfg` (`MCAuthTokens`) | `LoginAfterRegister` | an account that has just been registered cannot log in (see below) |
| `MinimumTransactions.cfg` (`MCDebtSimplification`) | `MinimumTransactions` | the greedy match takes four transactions where three do |

On the login the repository disagrees with itself. `auth_service.py:93-98` and
`endpoints/auth.py:37` ("User must verify email before logging in.") want the address
verified first, and `SessionsOnlyForVerified` states that. The integration tests do
not: `test_login_success` (`tests/integration/test_auth.py:31-45`) registers, logs in
and expects status 200 with JWTs, `test_get_me`, `test_refresh_token` and the
helpers of the other integration tests likewise, while `tests/conftest.py` replaces
the database session and nothing else, so that nobody has verified the address.
`LoginAfterRegister` states what these tests expect, and the code does not do it.

`TwoGroups.cfg` (`MCGroupLedger`) checks all properties of `group_ledger` with two
users in two groups, so that the reports add up more than one; it passes.

### Bounds

- `GroupLedger`: three users are the least at which a member's balances cancel
  out between two others and at which payer, debtor and bystander differ; two
  expenses let one be reversed while the other stands; amounts of one cent and
  payments of one or two cents tell "all of the debt" from "more than the debt";
  `MaxSettled` (two cents per direction) keeps the ledger finite and is named in
  the guard of `CreateSettlement`. Groups do not share state except through
  `OwedToOthers`, and the theorems hold for any number of them.
- `LedgerTxn`: the pair of mirrored rows is what requests compete for, so two
  users suffice; four requests make an expense and three that overlap on it (a
  reversal, a settlement, an archiving), or two that delete and re-insert a row
  under a third. Three requests reach every lock cycle of two rows.
- `SplitStrategies`: four participants and totals from less than a cent to more
  cents than participants, every fraction in mills.
- `DebtSimplification`: five users allow ties on both sides and chains of
  remainders; the smallest counterexample to minimality has five users too.
- `AuthTokens`: four requests make an account, two links for the same purpose and
  somebody who follows one of them; or an account, a link and two who redeem it
  at once; or two registrations of an address and what follows. Two users tell a
  link's owner from another account, two passwords an old from a new one. The
  lifetimes are one and two ticks, so that links and JWTs outlive each other both
  ways, and the clock (`MaxTime`) passes the longest of them. Two resets in
  sequence take five requests: what `LatestPasswordWins` says of them is left to
  the theorem. `TokenReuse.cfg` has one user and four requests: a registration, a
  reset link and two who redeem it with passwords of their own.
- `Notifications`: three users are an actor, somebody who stays and somebody who
  comes or goes; three requests are an expense, its reversal and a removal or an
  addition in between, or a removal and two additions of the same user
  (`AddedTwice.cfg`). Two of the users read, so that one could mark what the other
  was sent. The liveness run has two requests, because it cannot use symmetry.

Users, requests, passwords, expense ids and groups are interchangeable where a run
uses symmetry; the liveness runs use none. Deadlock checking is off because every
bound is an end of the inputs.

### Fairness

`LedgerTxn` assumes weak fairness of each request's next statement (a handler
that is running goes on; one that waits for a row is woken when the lock is
released) and of the deadlock detector. `Notifications` assumes weak fairness of
each request's next step, the task's included: Starlette runs the task after the
response. Nothing obliges anybody to send a request or to read, and crashes,
failures and lost tasks may happen at any time or never. The other
specifications are safety only.

## What is proved

Of the properties the passing runs check, all have a theorem that states them for
every value of the constants, except the two liveness properties (see the end of
this section).

**Sums.** Half of these theorems are about sums: over the debtors of an expense,
the expenses of a group, the participants of a split, the transactions of
`simplify`. The modules write them with `SumFunction` and `SumFunctionOnSet`, which
the library defines by a recursive function on the subsets of the domain that takes
an element with `CHOOSE`. `SumTheorems` shows that this function exists
(well-founded recursion) and that the sum does not depend on the element chosen
(`SumInsert`); the rest follows: disjoint unions, sums of sums in either order, sums
under a bijection, bounds. The library states induction over finite sets for a
predicate, which the provers cannot instantiate. `SmallestMember` and what follows
from it say the same of a family of sets: a family that has the empty set and, with
a set, that set and one element more has all subsets. A family is a value, so
each proof names its own (`F == {T \in SUBSET S : ...}`).

**GroupLedger.** `GroupLedgerProofs` proves, for any finite sets of users and groups
(`UsersAndGroupsAreFinite`: the tables have finitely many rows), any expense ids and
any amounts that meet the module's assumptions (`SharesAreMills`,
`PaymentsArePositive`, `MaxSettledIsNat`):

- `TypeCorrect`: `Spec => []TypeOK`. The columns hold whole cents, and ledger and
  shares are never negative, whatever fractions the requests carry.
- `MirrorsAlways`: `Spec => []CacheMirrors`, with fractions and in archived groups
  too. It rests on `Numeric2` being odd: a tie is rounded away from zero on both
  rows of a pair.
- `LedgerAlwaysMatches`: `Spec => []LedgerMatchesExpenses`, for any amounts and
  however many expenses there are. A new or reversed expense adds one term to the
  sum of its cell; for that one has to know that there are finitely many expenses
  (`FiniteExpenses`, an invariant of its own) and that a reversal takes the expense
  from one set of the sum to the other (`Posts` carries both).
- `RecordsAlwaysKept`: `Spec => RecordsKept`.
- `RemovedMovedOnlyByReversal`: `Spec => RemovedMovesOnlyByReversal`. Only
  `RemoveMember` makes a member leave, and its guard is a net of zero, which the
  step does not change. Of the other requests each leaves the cache rows of
  everybody it does not charge alone, or archives the group, or is a reversal; and
  it charges active members.
- `CacheRecomputable` and `NoOverpayment`: `CacheIsLedger` and
  `SettlementsCovered`, under the hypothesis `WholeCents` that no request carries
  a fraction of a cent. `SubCentDrift.cfg` shows that the hypothesis is needed.
- `AdminsNeverReturn`: `Spec => AdminsLostForGood`: once the last admin has left,
  no request makes another one or archives the group.
- `RefinesBook`: `Spec => ImplementsBook`, also under `WholeCents`. The cache is
  the book; creating an expense is `Lend`, a reversal `Undo`, a settlement
  `Repay`, archiving `Close`, and each other request leaves the book alone.

A financial request is a posting (`Posts` in the proofs): it adds a table of debts to one
kind of ledger entry and shifts the cache by it. The lemmas `PostedCells` and
`PostedTyped` say what a posting does cell by cell; each action is then one
posting. `CacheIsLedger` holds in a group that is not archived, and
`SettlementsCovered` is not inductive alone: a settlement is bounded by the
cache, so one needs to know that the cache never shows more than the ledger
leaves to pay. In an archived group the cache was cleared and no longer equals
the ledger, so the invariant `IInv` is `TypeOK`, the cache-ledger equation for
unarchived groups, `SettlementsCovered`, and `OutstandingCovered`: what the cache
shows u owing v, with what u has paid v, stays within what came about between
them. That survives the clearing, and it bounds the next settlement.

**Analytics.** `AnalyticsProofs` proves `ReportsReconcile`, `UserReportsReconcile` and
`RateAlwaysHonest`, the three properties of the reports, under `WholeCents`. The first
two follow from `CacheIsLedger`, `LedgerMatchesExpenses` and `IInv` alone: a member's
net is a sum of cache rows, each of which is a sum of ledger cells, each of which
is a sum over expenses; exchanging the sums gives the columns of the report, and
reversed expenses drop out because they are in the ledger once each way
(`LedgerNet`). The rate needs an inductive invariant of its own, because the
bound speaks of a whole group and a settlement of one pair: `PairsWithinDebts` says
that, while no expense is reversed, what a pair paid each other, both ways, with
what is open between them, is within what they were charged, both ways. A
settlement moves an amount from what is open to what was paid, and never turns
an open balance around. `NetsAlwaysCancel` is about what the endpoint hands to `simplify`: for any
amounts, the nets of a group are whole cents and add up to zero (`CacheMirrors`,
summed over all pairs), which is what `NetsAreCents` of `DebtSimplification` assumes
and its `EveryoneSettled` needs.

**SplitStrategies.** `SplitStrategiesProofs` proves all four properties of the run,
for any totals, numbers of participants, percentages, shares and exact amounts:
`TypeCorrect`, `AlwaysAddsUp`, `AlwaysFair`, `StoredAlwaysAddUp`. The invariant says of
a split under way that `running` is the sum of what was assigned, and for each kind
of strategy where it stands. `CutSoFar`: each participant so far pays their
share or less than a cent below it, in whole cents, so that what they fall short of
together (`Gap`) is less than a cent for each; the last one is given that.
`EqualSoFar`: after the first participant there is one equal amount left for
each of the others. `ExactSoFar`: what was asked for. The steps are arithmetic with
products of variables: shares are compared after multiplying by `Whole`, and
division enters by `DivFacts` only. That the stored columns agree needs that
at most one share has a fraction of a cent (`Numeric2` of the others does nothing).

**LedgerTxn.** `LedgerTxnProofs` proves `TypeCorrect` and `DriftOnly`
(`Spec => []DriftOnlyFromStaleWrite`) for any finite set of users
(`UsersAreFinite`: the rows to upsert are put in an order), any number of
concurrent requests, and positive amounts. The invariant says of each request
which step belongs to which operation and that an expense is there once its
request has committed (`Phase`), that the uncommitted rows of two requests do not
meet (`Locked`), and that what a request has written and what it has still to do
make up its moves (`WorkDone`): each row to upsert is new to it and carries its
move, each pair it moves is written or to do, and, unless the request is stale,
each written row is the committed balance plus the move. Locks keep other commits
away from these rows, so the last clause survives them. When the request commits,
its rows move the cache by exactly what its entries move the ledger (`PostingKeeps`).
A rollback, a deadlock or a unique violation takes rows and entries together.

`AloneIsLikeTheBook` needs a second invariant, `LoneInv`, on top of that one. While
a request has met no other, no other is under way and nothing has been committed
since it began (`StillHolds`): it is not stale, what it has read is still the
committed row, a settlement is still covered, an expense to reverse is still
active, and an archive has deleted or has in its list every row there is. By
`WorkDone` its commit then moves each balance by exactly its delta
(`CommittedBalances`), and the lemmas `CommitExpenseLends`, `CommitReversalUndoes`,
`CommitSettlementRepays` and `CommitArchiveCloses` show that these moves are a
`Lend`, `Undo`, `Repay` and `Close` of `DebtBook`, with their guards; a removal
changes no debt. Neither invariant says that cache and ledger agree: the theorem
holds after drift too.

**DebtSimplification.** `DebtSimplificationProofs` proves all five properties of the
run, for any finite set of users and any balances in whole cents, adding up or not
where the property does not ask for it: `TypeCorrect`, `WithinBalances`
(`NeverMoreThanOwed`), `NetsAlwaysPreserved`, `EveryoneSettled`, `AlwaysFewer`, and
`LoopEnds` (at most as many transactions as people with a balance). The invariant: a
heap holds at most one entry per user, within the user's balance; of the parties of
each transaction one has left the heaps; transactions and entries together are at
most the people involved; what a user pays and receives and what the heaps hold for
them make up their balance (`NetsPreserved`, a sum over a growing sequence and two
shrinking heaps). If the balances cancel out, so do the heaps (`NetsPreserved` summed
over the users, for whom the transactions cancel out); an empty heap then faces an
empty one, which gives `EveryoneSettled`. That there are fewer transactions than people
needs `LastTakesTwo`: whichever step empties both heaps took an entry off each. That
`heappop` finds a top in a finite heap is a lemma (`LargestFacts`, by
well-foundedness of the subset order).

**AuthTokens.** `AuthTokensProofs` proves all eight properties of the run for any
users, passwords, lifetimes, number of requests and clock, along one inductive
invariant of named parts. `Rows`, `Targets` and `Sweeps` say that links and the
requests about them agree in owner and type, also for a request under way, and
that the UPDATE of a request has matched every live link that was committed when
the request started: that is what makes a replaced link dead. `HeldAfresh` and
`HeldLatest` are `SingleUseInSequence` and `SupersededIsDead` from the moment a
request has found its link valid, because it does not look again. `Accounts` says
that links belong to accounts, `Sessions` that a JWT is dropped when it expires,
`Order` that the history relates requests that have committed to later ones.

**Notifications.** `NotificationsProofs` proves the five properties of the run,
with `TypeOK`, for any users and number of requests. The invariant adds `History`
(until a request has committed, who `stayed` is a member and who is `outside` is
not), `Addressed` (the recipients of a queued task lie between the two, without the
actor) and `OneRow` (at most one request has inserted a first membership for a user,
committed or not, and a committed one is in `joined`). Re-activations are outside
`OneRow`: two of them can commit, as `AddedTwice.cfg` shows.

Only model-checked:

- `EveryRequestEnds` and `ToldOrLost` are liveness, out of the prover's reach.
- The violations: that a document's claim fails is shown by a behaviour.

The hypothesis `WholeCents` is there where it has to be: without it
`SubCentDrift.cfg` refutes `CacheIsLedger`, on which the theorems that have it rest.

## What is not modelled

- Of the reports: months, averages, the largest expense, percentages and ranks,
  names and titles; pagination, serialisation, routing, the mapping of errors to
  responses.
- `update_group`, `update_expense` and `PATCH /users/me`, which change names,
  descriptions and a preferred currency that nothing else reads.
- Currencies: the cache has no currency column and adds up whatever comes; no
  document says what should happen.
- The `Idempotency-Key` header: `create_expense` accepts and ignores it. Two equal
  requests are two requests in the models.
- Percentages with decimals: `SplitStrategies` takes whole per cents, the schema
  also 33.33. SHARE runs the same arithmetic with any weights.
- Shares of zero in `LedgerTxn`: amounts are positive there, while an EQUAL split of
  0.01 stores shares of 0.00, whose upsert changes nothing. The theorems about `GroupLedger` allow
  them (`Shares` may have 0).
- When the DELETE of `archive_group` takes its snapshot: in `LedgerTxn` the rows are
  listed together with the guards (`CheckAdmin`) and deleted pair by pair, so that
  a row deleted and inserted again in between by somebody else would be deleted,
  where PostgreSQL keeps it. The group is archived by then, and no property looks
  at such a row.
- `is_active`: no code clears it, so that no account ever loses anything a JWT could
  outlive.
- The connection pool: a wait for a connection ends by a timeout of SQLAlchemy. To
  a background task that is one of the ways to get lost (`LoseTask`).
- Password hashing, signatures, mail templates, and the migrations, whose
  constraints are guards of the models.

## What could follow

1. Which of the transactions `simplify` proposes `create_settlement` accepts: a
   composition of `DebtSimplification` and `GroupLedger`. A proposed pair may have
   no balance between them.
2. Requests of several groups in `LedgerTxn`, and the reports read while a
   transaction commits between two of their queries.
