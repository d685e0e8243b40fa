----------------------------- MODULE LedgerTxn -----------------------------
(***************************************************************************)
(* The requests of one group as the transactions that carry them out, one  *)
(* SQL statement per step.  get_db gives every request a session of its    *)
(* own, commits it when the handler returns and rolls it back when the     *)
(* handler raises; sessions run concurrently, on PostgreSQL's default READ *)
(* COMMITTED.  So a SELECT sees what is committed when it runs, a row that *)
(* an open transaction wrote is locked until that transaction ends, a      *)
(* writer waits for it, and PostgreSQL breaks a cycle of waiting           *)
(* transactions by aborting one.                                           *)
(*                                                                         *)
(* Amounts are whole cents here: rounding is GroupLedger's subject.        *)
(***************************************************************************)
EXTENDS SequencesExt, Integers

CONSTANTS
  Users,
  Admin,      \* the group's creator; sends the admin requests
  Requests,   \* bound: the requests made; an expense has its request's id
  Amounts,    \* what one participant owes, what a settlement pays
  Kinds       \* which operations a run mixes

ASSUME UsersAreFinite  == IsFiniteSet(Users)
ASSUME AdminIsUser     == Admin \in Users
ASSUME AmountsPositive == Amounts \subseteq Nat \ {0}

VARIABLES
  \* committed state
  groupStatus,  \* groups.status
  active,       \* the users whose group_members row is ACTIVE
  expenses,     \* expenses with their debts, by id
  ledger,       \* ledger_entries: sums by type, from and to
  cache,        \* balances_cache: the rows there are, by <<user, other user>>
  \* per request
  pc,           \* the statement to run next
  ask,          \* the request
  todo,         \* the rows still to upsert or delete, in order
  seen,         \* balance rows the session holds, as it loaded them
  put,          \* balance rows written and not committed
  gone,         \* balance rows deleted and not committed
  \* history
  stale,        \* requests that wrote a balance over one they had not read
  met           \* requests under way that have not been alone all the time

dbVars  == <<groupStatus, active, expenses, ledger, cache>>
txnVars == <<pc, ask, todo, seen, put, gone>>
vars    == <<dbVars, txnVars, stale, met>>

EntryTypes == {"EXPENSE_CREATED", "EXPENSE_REVERSED", "SETTLEMENT_RECORDED"}

Pairs == {p \in Users \X Users : p[1] # p[2]}

NoDebts == [u \in Users |-> [v \in Users |-> 0]]
NoRows  == [p \in {} |-> 0]

\* The requests of a kind: the payer of an expense and what each of the others
\* owes, the id of the expense to reverse, the parties of a settlement.
Asks ==
  (UNION {[kind : {"expense"}, payer : {p}, owed : UNION {[S -> Amounts] :
             S \in (SUBSET (Users \ {p})) \ {{}}}] : p \in Users})
  \cup [kind : {"reverse"}, id : Requests]
  \cup [kind : {"settle"}, pair : Pairs, amount : Amounts]
  \cup [kind : {"remove"}, user : Users]
  \cup {[kind |-> "archive"]}

NoAsk == [kind |-> "none"]

Steps == {"idle", "members", "outstanding", "expense", "requester", "admin",
          "net", "read", "write", "clear", "mark", "commit", "done", "failed"}

Underway(r) == pc[r] \notin {"idle", "done", "failed"}

TypeOK ==
  /\ groupStatus \in {"ACTIVE", "ARCHIVED"}
  /\ active \subseteq Users
  /\ DOMAIN expenses \subseteq Requests
  /\ \A e \in DOMAIN expenses :
       /\ expenses[e].payer \in Users
       /\ DOMAIN expenses[e].owed \subseteq Users \ {expenses[e].payer}
       /\ expenses[e].status \in {"ACTIVE", "REVERSED"}
  /\ ledger \in [EntryTypes -> [Users -> [Users -> Nat]]]
  /\ DOMAIN cache \subseteq Pairs
  /\ \A p \in DOMAIN cache : cache[p] \in [id : Requests, amount : Int]
  /\ pc \in [Requests -> Steps]
  /\ \A r \in Requests :
       /\ ask[r] \in Asks \cup {NoAsk}
       /\ DOMAIN seen[r] \cup DOMAIN put[r] \cup gone[r] \subseteq Pairs
       /\ \A i \in DOMAIN todo[r] : todo[r][i].row \in Pairs /\ todo[r][i].delta \in Int
       \* a request that is over holds no row of its own
       /\ ~Underway(r) => DOMAIN put[r] = {} /\ gone[r] = {}
  /\ stale \subseteq Requests
  /\ met \subseteq {r \in Requests : Underway(r)}

\* A group with all users in it and nothing spent yet.
Init ==
  /\ groupStatus = "ACTIVE"
  /\ active = Users
  /\ expenses = [e \in {} |-> 0]
  /\ ledger = [t \in EntryTypes |-> NoDebts]
  /\ cache = NoRows
  /\ pc = [r \in Requests |-> "idle"]
  /\ ask = [r \in Requests |-> NoAsk]
  /\ todo = [r \in Requests |-> <<>>]
  /\ seen = [r \in Requests |-> NoRows]
  /\ put = [r \in Requests |-> NoRows]
  /\ gone = [r \in Requests |-> {}]
  /\ stale = {}
  /\ met = {}
-----------------------------------------------------------------------------
(* Rows, locks and the end of a transaction.                               *)

Without(f, S) == [p \in DOMAIN f \ S |-> f[p]]
With(f, g) == [p \in DOMAIN f \cup DOMAIN g |-> IF p \in DOMAIN g THEN g[p] ELSE f[p]]
Row(p, id, amount) == [q \in {p} |-> [id |-> id, amount |-> amount]]

Goto(r, step) == pc' = [pc EXCEPT ![r] = step]

\* The row outside balances_cache that a request updates last.
Marks(r) == CASE ask[r].kind = "reverse" -> <<"expenses", ask[r].id>>
              [] ask[r].kind = "remove"  -> <<"group_members", ask[r].user>>
              [] ask[r].kind = "archive" -> <<"groups">>
              [] OTHER -> <<>>

\* The requests whose locks the next statement of r runs into.
WaitsFor(r) ==
  {s \in Requests \ {r} :
     \/ /\ pc[r] \in {"write", "clear"}
        /\ Head(todo[r]).row \in DOMAIN put[s] \cup gone[s]
     \/ /\ pc[r] = "mark" /\ pc[s] = "commit"
        /\ Marks(s) = Marks(r)}

\* Mutant of End: the session is not rolled back or closed, its rows stay locked.
EndHoldingRows(r, how) ==
  /\ Goto(r, how)
  /\ met' = met \ {r}
  /\ UNCHANGED <<ask, todo, seen, put, gone>>

\* The transaction ends, with its locks and its session.
End(r, how) ==
  /\ Goto(r, how)
  /\ todo' = [todo EXCEPT ![r] = <<>>]
  /\ seen' = [seen EXCEPT ![r] = NoRows]
  /\ put' = [put EXCEPT ![r] = NoRows]
  /\ gone' = [gone EXCEPT ![r] = {}]
  /\ met' = met \ {r}
  /\ UNCHANGED ask

\* The handler raises: nothing of the request remains.
Rollback(r) ==
  /\ End(r, "failed")
  /\ stale' = stale \ {r}
  /\ UNCHANGED dbVars

\* A step that only moves on.
Proceed(r, step) ==
  /\ Goto(r, step)
  /\ UNCHANGED <<dbVars, ask, todo, seen, put, gone, stale, met>>

\* The service has its list of upserts and starts on it.
StartUpserts(r, upserts) ==
  /\ todo' = [todo EXCEPT ![r] = upserts]
  /\ UNCHANGED <<dbVars, ask, put, gone, stale, met>>
-----------------------------------------------------------------------------
(* The upserts of BalanceService: per debt the debtor's row and its mirror. *)

Mirrored(debtor, creditor, amount) ==
  <<[row |-> <<debtor, creditor>>, delta |-> amount],
    [row |-> <<creditor, debtor>>, delta |-> -amount]>>

\* apply_expense and reverse_expense, the debtors in the given order.
Upserts(payer, owed, order, sign) ==
  [i \in 1..2 * Len(order) |->
     LET debtor == order[(i + 1) \div 2]
     IN  Mirrored(debtor, payer, sign * owed[debtor])[IF i % 2 = 1 THEN 1 ELSE 2]]
-----------------------------------------------------------------------------
(* A request arrives.                                                      *)

Begin(r, a) ==
  /\ pc[r] = "idle"
  /\ a.kind \in Kinds
  /\ ask' = [ask EXCEPT ![r] = a]
  /\ Goto(r, CASE a.kind \in {"expense", "settle"} -> "members"
               [] a.kind = "reverse" -> "expense"
               [] OTHER -> "admin")
  /\ LET others == {s \in Requests : Underway(s)}
     IN  met' = IF others = {} THEN met ELSE others \cup {r}
  /\ UNCHANGED <<dbVars, todo, seen, put, gone, stale>>
-----------------------------------------------------------------------------
(* The guards, each on what its SELECT returns.                            *)

\* create_expense: the requester (some member), the payer and all participants
\* are active; then the debts are applied in the order of the payload.
CheckParticipants(r) ==
  /\ pc[r] = "members" /\ ask[r].kind = "expense"
  /\ IF {ask[r].payer} \cup DOMAIN ask[r].owed \subseteq active
     THEN \E order \in SetToSeqs(DOMAIN ask[r].owed) :
            /\ StartUpserts(r, Upserts(ask[r].payer, ask[r].owed, order, 1))
            /\ Goto(r, "read")
            /\ UNCHANGED seen
     ELSE Rollback(r)

\* create_settlement: both parties are active.
CheckParties(r) ==
  /\ pc[r] = "members" /\ ask[r].kind = "settle"
  /\ IF {ask[r].pair[1], ask[r].pair[2]} \subseteq active
     THEN Proceed(r, "outstanding")
     ELSE Rollback(r)

\* Mutant of Covers: any row will do.
CoversAnything(p, amount) == p \in DOMAIN cache

\* create_settlement: the outstanding balance bounds the payment.
Covers(p, amount) == p \in DOMAIN cache /\ cache[p].amount > 0 /\ amount <= cache[p].amount

\* The handler keeps the row it read, so the session keeps that version of it.
ReadOutstanding(r) ==
  /\ pc[r] = "outstanding"
  /\ LET p == ask[r].pair
     IN  IF Covers(p, ask[r].amount)
         THEN /\ StartUpserts(r, Mirrored(p[1], p[2], -ask[r].amount))
              /\ seen' = [seen EXCEPT ![r] = [q \in {p} |-> cache[p]]]
              /\ Goto(r, "read")
         ELSE Rollback(r)

\* reverse_expense: the expense is there and ACTIVE.
IsReversible(e) == e \in DOMAIN expenses /\ expenses[e].status = "ACTIVE"

ReadExpense(r) ==
  /\ pc[r] = "expense"
  /\ IF IsReversible(ask[r].id) THEN Proceed(r, "requester") ELSE Rollback(r)

\* reverse_expense: the requester is a member; the participants come back from
\* the database in any order.
CheckRequester(r) ==
  /\ pc[r] = "requester"
  /\ LET x == expenses[ask[r].id]
     IN  IF active # {}
         THEN \E order \in SetToSeqs(DOMAIN x.owed) :
                /\ StartUpserts(r, Upserts(x.payer, x.owed, order, -1))
                /\ Goto(r, "read")
                /\ UNCHANGED seen
         ELSE Rollback(r)

\* remove_member and archive_group: an admin asks, in a group not archived; the
\* member to remove is active.  The DELETE of archive_group finds its rows now.
CheckAdmin(r) ==
  /\ pc[r] = "admin"
  /\ IF groupStatus # "ACTIVE" \/ Admin \notin active THEN Rollback(r)
     ELSE \/ /\ ask[r].kind = "archive"
             /\ \E rows \in SetToSeqs(DOMAIN cache) :
                  StartUpserts(r, [i \in DOMAIN rows |-> [row |-> rows[i], delta |-> 0]])
             /\ Goto(r, IF DOMAIN cache = {} THEN "mark" ELSE "clear")
             /\ UNCHANGED seen
          \/ /\ ask[r].kind = "remove"
             /\ IF ask[r].user \in active THEN Proceed(r, "net") ELSE Rollback(r)

\* remove_member: the net of the member's rows is zero.
ReadNet(r) ==
  /\ pc[r] = "net"
  /\ LET mine == {p \in DOMAIN cache : p[1] = ask[r].user}
     IN  IF MapThenSumSet(LAMBDA p : cache[p].amount, mine) = 0
         THEN Proceed(r, "mark")
         ELSE Rollback(r)
-----------------------------------------------------------------------------
(* BalanceCacheRepository.upsert, a SELECT and then an UPDATE or an INSERT.*)

\* The session returns the version of the row it already holds.
SelectRow(r) ==
  /\ pc[r] = "read"
  /\ LET p == Head(todo[r]).row
     IN  seen' = [seen EXCEPT ![r] =
           IF p \notin DOMAIN cache THEN Without(@, {p})
           ELSE IF p \in DOMAIN @ /\ @[p].id = cache[p].id THEN @
           ELSE With(@, [q \in {p} |-> cache[p]])]
  /\ Goto(r, "write")
  /\ UNCHANGED <<dbVars, ask, todo, put, gone, stale, met>>

\* Mutant of NewAmount: the delta replaces the balance.
NewAmountAfresh(r, p, delta) == delta

\* What the UPDATE sets: the balance as read plus the delta.
NewAmount(r, p, delta) == seen[r][p].amount + delta

\* The flush.  An UPDATE whose row was deleted meanwhile matches no row
\* (StaleDataError), an INSERT whose row was inserted meanwhile violates
\* uq_balance_pair.
WriteRow(r) ==
  /\ pc[r] = "write" /\ WaitsFor(r) = {}
  /\ LET p == Head(todo[r]).row
         delta == Head(todo[r]).delta
         written(row) ==
           /\ put' = [put EXCEPT ![r] = With(@, row)]
           /\ todo' = [todo EXCEPT ![r] = Tail(@)]
           /\ Goto(r, IF Len(todo[r]) > 1 THEN "read"
                      ELSE IF ask[r].kind = "reverse" THEN "mark" ELSE "commit")
           /\ UNCHANGED <<dbVars, ask, seen, gone, met>>
     IN  \/ /\ p \in DOMAIN seen[r] /\ p \in DOMAIN cache
            /\ cache[p].id = seen[r][p].id
            /\ written(Row(p, cache[p].id, NewAmount(r, p, delta)))
            /\ stale' = IF cache[p].amount = seen[r][p].amount THEN stale
                        ELSE stale \cup {r}
         \/ /\ p \notin DOMAIN seen[r] /\ p \notin DOMAIN cache
            /\ written(Row(p, r, delta))
            /\ UNCHANGED stale
         \/ /\ p \in DOMAIN seen[r]
            /\ p \in DOMAIN cache => cache[p].id # seen[r][p].id
            /\ Rollback(r)
         \/ /\ p \notin DOMAIN seen[r] /\ p \in DOMAIN cache
            /\ Rollback(r)

\* One row of clear_group_balances' DELETE; a row that is gone is skipped.
ClearRow(r) ==
  /\ pc[r] = "clear" /\ WaitsFor(r) = {}
  /\ gone' = [gone EXCEPT ![r] = @ \cup ({Head(todo[r]).row} \cap DOMAIN cache)]
  /\ todo' = [todo EXCEPT ![r] = Tail(@)]
  /\ Goto(r, IF Len(todo[r]) > 1 THEN "clear" ELSE "mark")
  /\ UNCHANGED <<dbVars, ask, seen, put, stale, met>>

\* The last UPDATE: expense.status, membership.status or group.status.
MarkRow(r) ==
  /\ pc[r] = "mark" /\ WaitsFor(r) = {}
  /\ Proceed(r, "commit")
-----------------------------------------------------------------------------
(* The commits.                                                            *)

\* The balance rows of r reach the table.
CommitRows(r) == cache' = With(Without(cache, gone[r]), put[r])

Recorded(type, payer, owed) ==
  [ledger EXCEPT ![type] = [u \in Users |-> [v \in Users |->
     IF v = payer /\ u \in DOMAIN owed THEN @[u][v] + owed[u] ELSE @[u][v]]]]

CommitExpense(r) ==
  /\ pc[r] = "commit" /\ ask[r].kind = "expense"
  /\ expenses' = With(expenses, [e \in {r} |->
       [payer |-> ask[r].payer, owed |-> ask[r].owed, status |-> "ACTIVE"]])
  /\ ledger' = Recorded("EXPENSE_CREATED", ask[r].payer, ask[r].owed)
  /\ CommitRows(r) /\ End(r, "done")
  /\ UNCHANGED <<groupStatus, active, stale>>

CommitReversal(r) ==
  /\ pc[r] = "commit" /\ ask[r].kind = "reverse"
  /\ LET x == expenses[ask[r].id]
     IN  ledger' = Recorded("EXPENSE_REVERSED", x.payer, x.owed)
  /\ expenses' = [expenses EXCEPT ![ask[r].id].status = "REVERSED"]
  /\ CommitRows(r) /\ End(r, "done")
  /\ UNCHANGED <<groupStatus, active, stale>>

CommitSettlement(r) ==
  /\ pc[r] = "commit" /\ ask[r].kind = "settle"
  /\ ledger' = Recorded("SETTLEMENT_RECORDED", ask[r].pair[2],
                        [u \in {ask[r].pair[1]} |-> ask[r].amount])
  /\ CommitRows(r) /\ End(r, "done")
  /\ UNCHANGED <<groupStatus, active, expenses, stale>>

CommitRemoval(r) ==
  /\ pc[r] = "commit" /\ ask[r].kind = "remove"
  /\ active' = active \ {ask[r].user}
  /\ End(r, "done")
  /\ UNCHANGED <<groupStatus, expenses, ledger, cache, stale>>

CommitArchive(r) ==
  /\ pc[r] = "commit" /\ ask[r].kind = "archive"
  /\ groupStatus' = "ARCHIVED"
  /\ CommitRows(r) /\ End(r, "done")
  /\ UNCHANGED <<active, expenses, ledger, stale>>
-----------------------------------------------------------------------------
(* What else ends a transaction.                                           *)

\* PostgreSQL aborts a transaction that waits in a cycle.
InCycle(r) ==
  \E S \in SUBSET Requests :
    /\ r \in S
    /\ \A s \in S : /\ WaitsFor(s) \cap S # {}
                    /\ \E t \in S : s \in WaitsFor(t)

DeadlockVictim(r) == InCycle(r) /\ Rollback(r)

\* The process dies or loses its connection before the commit.
Crash(r) == Underway(r) /\ Rollback(r)

Step(r) ==
  \/ CheckParticipants(r) \/ CheckParties(r) \/ ReadOutstanding(r)
  \/ ReadExpense(r) \/ CheckRequester(r) \/ CheckAdmin(r) \/ ReadNet(r)
  \/ SelectRow(r) \/ WriteRow(r) \/ ClearRow(r) \/ MarkRow(r)
  \/ CommitExpense(r) \/ CommitReversal(r) \/ CommitSettlement(r)
  \/ CommitRemoval(r) \/ CommitArchive(r)

Next ==
  \E r \in Requests :
    \/ \E a \in Asks : Begin(r, a)
    \/ Step(r)
    \/ DeadlockVictim(r)
    \/ Crash(r)

\* A handler runs on, a commit frees the rows others wait for, and the
\* deadlock detector wakes up; nobody has to send a request.
Fairness == \A r \in Requests : WF_vars(Step(r)) /\ WF_vars(DeadlockVictim(r))

Spec == Init /\ [][Next]_vars /\ Fairness
-----------------------------------------------------------------------------
(* Properties.                                                             *)

LedgerDebt(u, v) ==
  ledger["EXPENSE_CREATED"][u][v] - ledger["EXPENSE_REVERSED"][u][v]
    - ledger["SETTLEMENT_RECORDED"][u][v]

Balance(u, v) == IF <<u, v>> \in DOMAIN cache THEN cache[<<u, v>>].amount ELSE 0

CacheIsLedger ==
  \A u, v \in Users : Balance(u, v) = LedgerDebt(u, v) - LedgerDebt(v, u)

\* Cache and ledger part in one way only: a request that committed a balance
\* computed from a version of the row that another request had replaced.
\* Aborts, deadlocks, unique violations and rows deleted under a request never
\* do it, because each takes the ledger entries with it.
DriftOnlyFromStaleWrite ==
  groupStatus = "ACTIVE" => CacheIsLedger \/ \E r \in stale : pc[r] = "done"

\* No request waits for ever: the mirrored upserts of two requests may lock each
\* other out, and then one of them is aborted and the other goes on.
EveryRequestEnds == \A r \in Requests : Underway(r) ~> ~Underway(r)

\* The committed state as the book of debts.
Debt == [u \in Users |-> [v \in Users |-> Balance(u, v)]]

Share(owed) == [u \in Users |-> IF u \in DOMAIN owed THEN owed[u] ELSE 0]

Book == INSTANCE DebtBook WITH
  Groups <- {"group"}, Loans <- Requests,
  debt <- [g \in {"group"} |-> Debt],
  lent <- [e \in DOMAIN expenses |->
             [stands |-> expenses[e].status = "ACTIVE", group |-> "group",
              lender |-> expenses[e].payer, share |-> Share(expenses[e].owed)]]

\* A request that has the database to itself from beginning to end changes the
\* debts by one step of the book or not at all, whatever concurrent requests
\* before it left behind: all its upserts and its record, or nothing.
AloneLikeTheBook ==
  [][\A r \in Requests :
       (Underway(r) /\ pc'[r] = "done" /\ r \notin met)
         => Book!BookNext \/ UNCHANGED Book!bookVars]_vars
-----------------------------------------------------------------------------
(* What the repository says and concurrent requests break.                 *)

\* "Atomically add delta to cached balance": when a request commits, each of the
\* rows it upserted moves by exactly its delta.
ExpenseMoves(r, p) ==
  CASE p[2] = ask[r].payer /\ p[1] \in DOMAIN ask[r].owed -> ask[r].owed[p[1]]
    [] p[1] = ask[r].payer /\ p[2] \in DOMAIN ask[r].owed -> -ask[r].owed[p[2]]
    [] OTHER -> 0

DeltaAddedAtomically ==
  [][\A r \in Requests : CommitExpense(r) =>
       \A p \in Pairs : Balance(p[1], p[2])' = Balance(p[1], p[2]) + ExpenseMoves(r, p)]_vars

\* An expense is reversed once: the second request finds it REVERSED.
ReversedOnce ==
  \A u, v \in Users : ledger["EXPENSE_REVERSED"][u][v] <= ledger["EXPENSE_CREATED"][u][v]

\* "Settlement cannot exceed outstanding balance": what u has paid to v is
\* covered by what came about between them.
SettlementsCovered ==
  \A u, v \in Users :
    ledger["SETTLEMENT_RECORDED"][u][v] <=
      ledger["EXPENSE_CREATED"][u][v] + ledger["EXPENSE_REVERSED"][v][u]
        + ledger["SETTLEMENT_RECORDED"][v][u]
=============================================================================
