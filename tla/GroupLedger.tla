---------------------------- MODULE GroupLedger ----------------------------
(***************************************************************************)
(* The financial core of the backend, one request at a time: groups and    *)
(* their members (group_service.py), expenses (expense_service.py),        *)
(* settlements (settlement_service.py), the append-only ledger_entries     *)
(* table and the balances_cache table that balance_service.py keeps beside *)
(* it.  An action is one whole request: its guards, its writes and its     *)
(* commit.  LedgerTxn takes the same requests apart into SQL statements.   *)
(*                                                                         *)
(* A rejected request changes nothing (get_db rolls back), so it is the    *)
(* absence of a step.                                                      *)
(***************************************************************************)
EXTENDS Money, FiniteSetsExt

CONSTANTS
  Users,       \* registered, verified, active users
  Groups,      \* group ids
  ExpenseIds,  \* expense ids: how many expenses can ever be created
  Shares,      \* amounts, in mills, one participant of an expense may owe
  Payments,    \* amounts, in mills, a settlement request may carry
  MaxSettled   \* bound: what one user may in total record as paid to another

\* The tables users and groups hold finitely many rows.
ASSUME UsersAndGroupsAreFinite == IsFiniteSet(Users) /\ IsFiniteSet(Groups)
ASSUME SharesAreMills     == Shares \subseteq Nat
ASSUME PaymentsArePositive == Payments \subseteq Nat \ {0}
ASSUME MaxSettledIsNat    == MaxSettled \in Nat

VARIABLES
  status,    \* groups.status, "NONE" before the row exists
  member,    \* group_members.status, "NONE" before the row exists
  role,      \* group_members.role
  expense,   \* expenses joined with expense_participants
  ledger,    \* ledger_entries: the sum of the rows of a type, by from and to
  cache      \* balances_cache.balance_amount, 0 when the row is absent

vars == <<status, member, role, expense, ledger, cache>>

EntryTypes == {"EXPENSE_CREATED", "EXPENSE_REVERSED", "SETTLEMENT_RECORDED"}

\* A debt table T: T[u][v] is what u owes v.
NoDebts == [u \in Users |-> [v \in Users |-> 0]]

\* A row of expenses with its participants' rows; owed is 0 for everyone else.
ExpenseRow == [status : {"ACTIVE", "REVERSED"}, group : Groups, payer : Users,
               owed : [Users -> Cents \cap Nat]]

TypeOK ==
  /\ status \in [Groups -> {"NONE", "ACTIVE", "ARCHIVED"}]
  /\ member \in [Groups -> [Users -> {"NONE", "ACTIVE", "REMOVED"}]]
  /\ role \in [Groups -> [Users -> {"NONE", "ADMIN", "MEMBER"}]]
  /\ DOMAIN expense \subseteq ExpenseIds
  /\ \A e \in DOMAIN expense : expense[e] \in ExpenseRow
  /\ ledger \in [Groups -> [EntryTypes -> [Users -> [Users -> Cents \cap Nat]]]]
  /\ cache \in [Groups -> [Users -> [Users -> Cents]]]

Init ==
  /\ status = [g \in Groups |-> "NONE"]
  /\ member = [g \in Groups |-> [u \in Users |-> "NONE"]]
  /\ role = [g \in Groups |-> [u \in Users |-> "NONE"]]
  /\ expense = [e \in {} |-> 0]
  /\ ledger = [g \in Groups |-> [t \in EntryTypes |-> NoDebts]]
  /\ cache = [g \in Groups |-> NoDebts]
-----------------------------------------------------------------------------
(* Reads and guards shared by the services.                                *)

IsMember(g, u) == member[g][u] = "ACTIVE"

\* GroupService._require_active_member: the group is not archived either.
RequireActiveMember(g, u) == status[g] = "ACTIVE" /\ IsMember(g, u)

RequireAdmin(g, u) == RequireActiveMember(g, u) /\ role[g][u] = "ADMIN"

\* BalanceService.get_user_net_balance: the sum over the user's rows.
NetBalance(g, u) == SumFunction(cache[g][u])
-----------------------------------------------------------------------------
(* Writes to the ledger and to the cache.                                  *)

\* The (debtor, payer, amount) triples of an expense: one per participant
\* other than the payer.
Debts(payer, owed) ==
  [u \in Users |-> [v \in Users |-> IF v = payer /\ u # payer THEN owed[u] ELSE 0]]

\* One debt, as the table of what it changes.
Single(from, to, amount) ==
  [u \in Users |-> [v \in Users |-> IF u = from /\ v = to THEN amount ELSE 0]]

\* Mutant of Upserted: the delta replaces the balance.
UpsertedAfresh(balance, delta) == Numeric2(delta)

\* BalanceCacheRepository.upsert, with the rounding of the column.
Upserted(balance, delta) == Numeric2(balance + delta)

\* apply_expense: each debtor->payer row up by the debt, its mirror down.
Applied(book, debts) ==
  [u \in Users |-> [v \in Users |-> Upserted(book[u][v], debts[u][v] - debts[v][u])]]

\* Mutant of Reduced: the mirror row is forgotten.
ReducedOneSided(book, debts) ==
  [u \in Users |-> [v \in Users |-> Upserted(book[u][v], -debts[u][v])]]

\* reverse_expense and apply_settlement: the debtor's row down, its mirror up.
Reduced(book, debts) ==
  [u \in Users |-> [v \in Users |-> Upserted(book[u][v], debts[v][u] - debts[u][v])]]

\* Mutant of Recorded: a reversal is booked as a negative amount.
RecordedNegative(g, type, debts) ==
  [ledger EXCEPT ![g][type] =
     [u \in Users |-> [v \in Users |->
        @[u][v] + Numeric2(IF type = "EXPENSE_REVERSED" THEN -debts[u][v]
                                                        ELSE debts[u][v])]]]

\* One LedgerEntry per debt, its amount rounded by the column.
Recorded(g, type, debts) ==
  [ledger EXCEPT ![g][type] =
     [u \in Users |-> [v \in Users |-> @[u][v] + Numeric2(debts[u][v])]]]
-----------------------------------------------------------------------------
(* GroupService.                                                           *)

CreateGroup(g, u) ==
  /\ status[g] = "NONE"
  /\ status' = [status EXCEPT ![g] = "ACTIVE"]
  /\ member' = [member EXCEPT ![g][u] = "ACTIVE"]
  /\ role' = [role EXCEPT ![g][u] = "ADMIN"]
  /\ UNCHANGED <<expense, ledger, cache>>

\* Mutant of AddMember: who comes back gets the old role again.
AddMemberOldRole(g, requester, u) ==
  /\ RequireActiveMember(g, requester)
  /\ ~IsMember(g, u)
  /\ member' = [member EXCEPT ![g][u] = "ACTIVE"]
  /\ role' = [role EXCEPT ![g][u] = IF @ = "NONE" THEN "MEMBER" ELSE @]
  /\ UNCHANGED <<status, expense, ledger, cache>>

\* A removed member is re-activated, and always as an ordinary member.
AddMember(g, requester, u) ==
  /\ RequireActiveMember(g, requester)
  /\ ~IsMember(g, u)
  /\ member' = [member EXCEPT ![g][u] = "ACTIVE"]
  /\ role' = [role EXCEPT ![g][u] = "MEMBER"]
  /\ UNCHANGED <<status, expense, ledger, cache>>

\* Mutant of RemoveMember: the balance is not looked at.
RemoveMemberUnchecked(g, requester, u) ==
  /\ RequireAdmin(g, requester)
  /\ IsMember(g, u)
  /\ member' = [member EXCEPT ![g][u] = "REMOVED"]
  /\ UNCHANGED <<status, role, expense, ledger, cache>>

\* Only the net balance is looked at; an admin may remove any member,
\* themselves included.
RemoveMember(g, requester, u) ==
  /\ RequireAdmin(g, requester)
  /\ IsMember(g, u)
  /\ NetBalance(g, u) = 0
  /\ member' = [member EXCEPT ![g][u] = "REMOVED"]
  /\ UNCHANGED <<status, role, expense, ledger, cache>>

\* clear_group_balances.
Cleared(g) == [cache EXCEPT ![g] = NoDebts]

ArchiveGroup(g, requester) ==
  /\ RequireAdmin(g, requester)
  /\ status' = [status EXCEPT ![g] = "ARCHIVED"]
  /\ cache' = Cleared(g)
  /\ UNCHANGED <<member, role, expense, ledger>>
-----------------------------------------------------------------------------
(* ExpenseService.  Its guard reads the membership only: neither operation *)
(* looks at the status of the group.                                       *)

\* Every participant must be in get_active_members.
AllActive(g, parts) == \A u \in parts : IsMember(g, u)

\* What is asked of each user: 0 of those who do not take part.
Asked(parts, owed) == [u \in Users |-> IF u \in parts THEN owed[u] ELSE 0]

CreateExpense(e, g, requester, payer, parts, owed) ==
  LET debts == Debts(payer, Asked(parts, owed))
      row == [status |-> "ACTIVE", group |-> g, payer |-> payer,
              owed |-> [u \in Users |-> Numeric2(Asked(parts, owed)[u])]]
  IN  /\ e \notin DOMAIN expense
      /\ IsMember(g, requester) /\ IsMember(g, payer)
      /\ AllActive(g, parts)
      \* CHECK total_amount > 0, on the stored total
      /\ Numeric2(SumFunction(owed)) > 0
      /\ expense' = [x \in DOMAIN expense \cup {e} |->
                        IF x = e THEN row ELSE expense[x]]
      /\ ledger' = Recorded(g, "EXPENSE_CREATED", debts)
      /\ cache' = [cache EXCEPT ![g] = Applied(@, debts)]
      /\ UNCHANGED <<status, member, role>>

\* Mutant of Reversible: a reversed expense can be reversed again.
ReversibleAgain(e) == e \in DOMAIN expense

\* The expense exists and is not reversed yet.
Reversible(e) == e \in DOMAIN expense /\ expense[e].status = "ACTIVE"

ReverseExpense(e, requester) ==
  /\ Reversible(e)
  /\ IsMember(expense[e].group, requester)
  /\ LET g == expense[e].group
         debts == Debts(expense[e].payer, expense[e].owed)
     IN  /\ cache' = [cache EXCEPT ![g] = Reduced(@, debts)]
         /\ ledger' = Recorded(g, "EXPENSE_REVERSED", debts)
  /\ expense' = [expense EXCEPT ![e].status = "REVERSED"]
  /\ UNCHANGED <<status, member, role>>
-----------------------------------------------------------------------------
(* SettlementService.  The requester is any user, and the status of the    *)
(* group is not looked at here either.                                     *)

\* Mutant of WithinOutstanding: any debt covers any payment.
AnyOutstanding(outstanding, amount) == outstanding > 0

\* Settlement cannot exceed the outstanding balance.
WithinOutstanding(outstanding, amount) == outstanding > 0 /\ amount <= outstanding

\* MaxSettled bounds the runs; the code has no such guard.
CreateSettlement(g, from, to, amount) ==
  /\ from # to
  /\ IsMember(g, from) /\ IsMember(g, to)
  /\ WithinOutstanding(cache[g][from][to], amount)
  \* CHECK amount > 0, on the stored amount
  /\ Numeric2(amount) > 0
  /\ ledger[g]["SETTLEMENT_RECORDED"][from][to] + Numeric2(amount) <= MaxSettled
  /\ ledger' = Recorded(g, "SETTLEMENT_RECORDED", Single(from, to, amount))
  /\ cache' = [cache EXCEPT ![g] = Reduced(@, Single(from, to, amount))]
  /\ UNCHANGED <<status, member, role, expense>>
-----------------------------------------------------------------------------
Next ==
  \/ \E g \in Groups, u \in Users : CreateGroup(g, u)
  \/ \E g \in Groups, r, u \in Users : AddMember(g, r, u)
  \/ \E g \in Groups, r, u \in Users : RemoveMember(g, r, u)
  \/ \E g \in Groups, r \in Users : ArchiveGroup(g, r)
  \/ \E e \in ExpenseIds, g \in Groups, r, p \in Users,
        parts \in (SUBSET Users) \ {{}} :
       \E owed \in [parts -> Shares] : CreateExpense(e, g, r, p, parts, owed)
  \/ \E e \in ExpenseIds, r \in Users : ReverseExpense(e, r)
  \/ \E g \in Groups, from, to \in Users, amount \in Payments :
       CreateSettlement(g, from, to, amount)

Spec == Init /\ [][Next]_vars
-----------------------------------------------------------------------------
(* What the ledger says.                                                   *)

\* No request carries a fraction of a cent.  The schemas do not ask for it.
WholeCents == Shares \cup Payments \subseteq Cents

\* What u owes v by the entries from u to v.
LedgerDebt(g, u, v) ==
  ledger[g]["EXPENSE_CREATED"][u][v] - ledger[g]["EXPENSE_REVERSED"][u][v]
    - ledger[g]["SETTLEMENT_RECORDED"][u][v]

\* The pairwise balance recomputed from the ledger.
LedgerBalance(g, u, v) == LedgerDebt(g, u, v) - LedgerDebt(g, v, u)
-----------------------------------------------------------------------------
(* Properties.                                                             *)

\* The two rows of a pair always mirror each other, whatever the amounts and
\* in archived groups too, although apply_expense, reverse_expense and
\* apply_settlement write and round them separately: every reader takes one
\* of them for both.
CacheMirrors ==
  \A g \in Groups, u, v \in Users : cache[g][u][v] = -cache[g][v][u]

\* The cache of a group that is not archived is what the ledger adds up to,
\* after any sequence of expenses, reversals, settlements and membership
\* changes ("always recomputable from ledger_entries").
CacheIsLedger ==
  \A g \in Groups : status[g] = "ACTIVE" =>
    \A u, v \in Users : cache[g][u][v] = LedgerBalance(g, u, v)

\* The ledger has each expense's debts exactly once as created, and exactly
\* once as reversed if the expense is REVERSED: nothing is undone twice.
LedgerMatchesExpenses ==
  \A g \in Groups, u, v \in Users :
    LET Total(es) ==
          SumFunction([e \in es |-> Debts(expense[e].payer, expense[e].owed)[u][v]])
        here == {e \in DOMAIN expense : expense[e].group = g}
    IN  /\ ledger[g]["EXPENSE_CREATED"][u][v] = Total(here)
        /\ ledger[g]["EXPENSE_REVERSED"][u][v] =
             Total({e \in here : expense[e].status = "REVERSED"})

\* Nobody ever pays back more than came about: what u has paid to v is covered
\* by what u was charged in favour of v, what v was charged and got undone,
\* and what v has paid to u.  It holds through archiving, which forgets the
\* cache the settlement guard reads.
SettlementsCovered ==
  \A g \in Groups, u, v \in Users :
    ledger[g]["SETTLEMENT_RECORDED"][u][v] <=
      ledger[g]["EXPENSE_CREATED"][u][v] + ledger[g]["EXPENSE_REVERSED"][v][u]
        + ledger[g]["SETTLEMENT_RECORDED"][v][u]

\* Financial records are never deleted or rewritten: ledger sums never go
\* down, an expense keeps its group, payer and shares, and never leaves
\* REVERSED.
RecordsKept ==
  [][/\ \A g \in Groups, t \in EntryTypes, u, v \in Users :
          ledger[g][t][u][v] <= ledger'[g][t][u][v]
     /\ DOMAIN expense \subseteq DOMAIN expense'
     /\ \A e \in DOMAIN expense :
          \/ expense'[e] = expense[e]
          \/ /\ expense[e].status = "ACTIVE"
             /\ expense'[e] = [expense[e] EXCEPT !.status = "REVERSED"]]_vars

\* A member leaves with a net balance of zero, and while they are out their
\* balances stay as they are, until the group is archived, except that an expense
\* they took part in may be reversed: no expense or settlement of the others
\* reaches them.
RemovedMovesOnlyByReversal ==
  [][\A g \in Groups, u \in Users : member'[g][u] = "REMOVED" =>
       \/ member[g][u] = "ACTIVE" /\ NetBalance(g, u)' = 0
       \/ /\ member[g][u] = "REMOVED"
          /\ \/ cache'[g][u] = cache[g][u]
             \/ status[g] = "ACTIVE" /\ status'[g] = "ARCHIVED"
             \/ \E e \in DOMAIN expense :
                  /\ expense[e].group = g
                  /\ expense[e].payer = u \/ expense[e].owed[u] > 0
                  /\ expense[e].status = "ACTIVE" /\ expense'[e].status = "REVERSED"]_vars

\* The users who may archive the group and remove its members.
Admins(g) == {u \in Users : IsMember(g, u) /\ role[g][u] = "ADMIN"}

\* Nobody promotes a member, and who comes back does so as an ordinary one: a
\* group whose admin, its creator, removed themselves never has an admin again
\* and is never archived.
AdminsLostForGood ==
  [][\A g \in Groups : status[g] # "NONE" /\ Admins(g) = {} =>
       Admins(g)' = {} /\ status'[g] = status[g]]_vars
-----------------------------------------------------------------------------
(* The requests implement the book of debts: the cache is the book, an      *)
(* expense is a loan that stands until it is reversed.                      *)

Lent == [e \in DOMAIN expense |->
           [stands |-> expense[e].status = "ACTIVE", group |-> expense[e].group,
            lender |-> expense[e].payer, share |-> expense[e].owed]]

Book == INSTANCE DebtBook WITH
          Loans <- ExpenseIds, Amounts <- Shares \cup Payments,
          debt <- cache, lent <- Lent

\* With amounts in whole cents every request is a step of the book or changes
\* no debt: an expense is undone at most once, a settlement repays at most what
\* the cache shows as owed, and only archiving forgets debts.
ImplementsBook == Book!BookSpec
-----------------------------------------------------------------------------
(* What the repository says and the code does not do.                      *)

\* "Cannot remove member with pending balance": whoever is removed owes nobody
\* and is owed by nobody.
RemovedWithoutPendingBalance ==
  [][\A g \in Groups, u \in Users :
       (member[g][u] = "ACTIVE" /\ member'[g][u] = "REMOVED")
         => \A v \in Users : cache[g][u][v] = 0]_vars

\* AnalyticsRepository.get_user_balance_totals, first component: what a user
\* owes over all rows of the cache, whatever the group's status.
OwedToOthers(u, groups) ==
  SumFunction([g \in groups |->
    SumFunction([v \in Users |-> IF cache[g][u][v] > 0 THEN cache[g][u][v] ELSE 0])])

\* Archived groups do not "ghost into cross-group summaries".
ArchivedLeaveSummaries ==
  \A u \in Users : OwedToOthers(u, Groups) =
    OwedToOthers(u, {g \in Groups : status[g] = "ACTIVE"})
=============================================================================
