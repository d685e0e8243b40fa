------------------------------ MODULE Analytics ------------------------------
(***************************************************************************)
(* What the reports say: the analytics of a group and of a user            *)
(* (analytics_service.py) and the two lists of balances (balances.py), as  *)
(* reads of GroupLedger's state.  They add up different tables: expenses   *)
(* by payer, shares by participant, settlements, and rows of the cache.    *)
(* Months, averages, percentages, names and titles are left out.           *)
(***************************************************************************)
EXTENDS GroupLedger

\* The expenses that count: a reversed one is as if it had never been.
Counted(g) ==
  {e \in DOMAIN expense : expense[e].group = g /\ expense[e].status = "ACTIVE"}

\* expenses.total_amount, what the participants owe together.  (SplitStrategies
\* checks that they do.)
Total(e) == SumFunction(expense[e].owed)

\* get_group_total_expenses.
GroupTotal(g) == SumFunction([e \in Counted(g) |-> Total(e)])

\* What u recorded as paid to others, and others as paid to u.
Sent(g, u) == SumFunction(ledger[g]["SETTLEMENT_RECORDED"][u])
Received(g, u) ==
  SumFunction([v \in Users |-> ledger[g]["SETTLEMENT_RECORDED"][v][u]])

\* get_group_total_settlements.
GroupSettled(g) == SumFunction([u \in Users |-> Sent(g, u)])

Paid(g, u) ==
  SumFunction([e \in {x \in Counted(g) : expense[x].payer = u} |-> Total(e)])

\* Mutant of Owed: a reversed expense still counts.
OwedEver(g, u) ==
  SumFunction([e \in {x \in DOMAIN expense : expense[x].group = g} |->
                 expense[e].owed[u]])

Owed(g, u) == SumFunction([e \in Counted(g) |-> expense[e].owed[u]])

\* get_member_spending_breakdown, for those who are in the group; the net is
\* positive for who is owed.
MemberRows(g) ==
  [u \in {v \in Users : IsMember(g, v)} |->
     [paid |-> Paid(g, u), owed |-> Owed(g, u), net |-> -NetBalance(g, u)]]

\* get_group_analytics, for the members of a group that is not archived; the
\* settlement rate is `settled' in per cent of `total', 100 at most.
GroupReport(g) ==
  [total |-> GroupTotal(g), settled |-> GroupSettled(g), members |-> MemberRows(g)]

\* get_group_balances: a row per pair, in the direction of the debt.
GroupBalances(g) == {p \in Users \X Users : cache[g][p[1]][p[2]] > 5}

Unarchived == {g \in Groups : status[g] = "ACTIVE"}

\* get_my_overall_balances: the rows of a counterpart, left groups included.
OverallBalance(u, v) == SumFunction([g \in Unarchived |-> cache[g][u][v]])

\* Mutant of GroupRows: archived groups are listed too.
GroupRowsArchived(u) ==
  [g \in {h \in Groups : IsMember(h, u)} |->
     [paid |-> Paid(g, u), owed |-> Owed(g, u)]]

\* get_user_group_breakdown: the groups that are not archived, if u is in them.
GroupRows(u) ==
  [g \in {h \in Groups : RequireActiveMember(h, u)} |->
     [paid |-> Paid(g, u), owed |-> Owed(g, u)]]

\* get_user_analytics.  The totals take in every group, archived or left.
UserReport(u) ==
  LET othersOwe == SumFunction([g \in Groups |->
        SumFunction([v \in Users |-> IF cache[g][u][v] < 0 THEN -cache[g][u][v] ELSE 0])])
  IN  [paid   |-> SumFunction([g \in Groups |-> Paid(g, u)]),
       net    |-> othersOwe - OwedToOthers(u, Groups),
       groups |-> GroupRows(u)]
-----------------------------------------------------------------------------
(* Properties.                                                             *)

\* The report of a group explains its balances: what a member is owed is what
\* they paid, less what they owe, plus what they sent, less what they received,
\* over any expenses, reversals, settlements, removals and returns.
MemberRowsReconcile ==
  \A g \in Groups : status[g] = "ACTIVE" =>
    LET rows == GroupReport(g).members
    IN  \A u \in DOMAIN rows :
          rows[u].net = rows[u].paid - rows[u].owed + Sent(g, u) - Received(g, u)

\* The list of a user's balances and their report are explained by the groups
\* the report lists: they differ from them by what a reversal left in a group
\* that the user has left, and from each other by what is in archived groups.
UserReportReconciles ==
  \A u \in Users :
    LET report  == UserReport(u)
        listed  == DOMAIN report.groups
        net(S)  == SumFunction([g \in S |-> NetBalance(g, u)])
        overall == -SumFunction([v \in Users |-> OverallBalance(u, v)])
    IN  /\ overall =
             SumFunction([g \in listed |-> report.groups[g].paid - report.groups[g].owed
                                             + Sent(g, u) - Received(g, u)])
               - net(Unarchived \ listed)
        /\ report.net = overall - net(Groups \ Unarchived)

\* The settlement rate is honest as long as no expense is reversed: what was
\* settled and what is still open stay within the total together, so that the
\* rate needs no cap and at 100 % nobody owes anything.  Reversing an expense
\* that was settled breaks it: the total shrinks, the settlement stays.
RateHonest ==
  \A g \in Groups :
    (\A e \in DOMAIN expense : expense[e].group = g => expense[e].status = "ACTIVE")
    => GroupReport(g).settled
         + SumFunction([p \in GroupBalances(g) |-> cache[g][p[1]][p[2]]])
         <= GroupReport(g).total
=============================================================================
