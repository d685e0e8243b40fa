--------------------------- MODULE Notifications ---------------------------
(***************************************************************************)
(* Who is told what happened in a group.  The handlers of four operations  *)
(* read the recipients in the session of the request, queue a background   *)
(* task and return; get_db commits, the response goes out, and then the    *)
(* task writes one notification per recipient in a session of its own,     *)
(* with one commit, and swallows whatever goes wrong.  Nothing repeats a   *)
(* task that failed or that the process did not live to run.               *)
(*                                                                         *)
(* Requests run concurrently, one statement per step, on READ COMMITTED,   *)
(* so the members may change between the service's check and the read of   *)
(* the recipients.  The money is GroupLedger's subject: here any member    *)
(* may pay another one and any member may be removed.  The group is not    *)
(* archived.                                                               *)
(***************************************************************************)
EXTENDS Integers

CONSTANTS
  Users,
  Admin,     \* the group's creator; only he removes members here
  Requests,  \* bound: the requests made; an expense has its request's id
  Readers    \* the users who read their notifications

ASSUME AdminIsUser == Admin \in Users
ASSUME ReadersAreUsers == Readers \subseteq Users

VARIABLES
  \* committed state
  joined,      \* the users with a row in group_members
  members,     \* those of them whose row is ACTIVE
  reversed,    \* the expenses with status REVERSED
  inbox,       \* notifications: <<request that caused it, user>>
  read,        \* those of them with is_read
  \* per request
  pc,          \* what it does next
  ask,         \* the request
  recipients,  \* whom the queued task is to tell
  written,     \* whose row the task has inserted and not committed
  \* history, of the requests about an expense, up to their commit
  stayed,      \* members all the time since the request started
  outside      \* no member at any time since the request started

groupVars == <<joined, members, reversed>>
boxVars   == <<inbox, read>>
taskVars  == <<recipients, written>>
history   == <<stayed, outside>>
vars      == <<groupVars, boxVars, pc, ask, taskVars, history>>

Asks ==
  [kind : {"expense"}, actor : Users, charged : Users]
  \cup [kind : {"reverse"}, actor : Users, id : Requests]
  \cup [kind : {"settle", "remove"}, user : Users]
  \cup [kind : {"add"}, actor : Users, user : Users, fresh : BOOLEAN]

NoAsk == [kind |-> "none"]

Steps == {"idle", "write", "recipients", "commit", "task", "done", "failed", "lost"}

\* A row of the notifications table.
Notification == Requests \X Users

AboutExpense(r) == ask[r].kind \in {"expense", "reverse"}

Uncommitted(r) == pc[r] \in {"write", "recipients", "commit"}

Committed(r) == pc[r] \in {"task", "done", "lost"}

Init ==
  /\ \E S \in SUBSET Users : members = S \cup {Admin} /\ joined = members
  /\ reversed = {}
  /\ inbox = {} /\ read = {}
  /\ pc = [r \in Requests |-> "idle"]
  /\ ask = [r \in Requests |-> NoAsk]
  /\ recipients = [r \in Requests |-> {}]
  /\ written = [r \in Requests |-> {}]
  /\ stayed = [r \in Requests |-> {}]
  /\ outside = [r \in Requests |-> {}]
-----------------------------------------------------------------------------
Goto(r, step) == pc' = [pc EXCEPT ![r] = step]

\* The service has checked the request and staged its writes.  (A request the
\* service turns away leaves no trace: it is no step.)
Start(r, a, step) ==
  /\ pc[r] = "idle"
  /\ ask' = [ask EXCEPT ![r] = a]
  /\ Goto(r, step)
  /\ IF a.kind \in {"expense", "reverse"}
     THEN /\ stayed' = [stayed EXCEPT ![r] = members]
          /\ outside' = [outside EXCEPT ![r] = Users \ members]
     ELSE UNCHANGED history
  /\ UNCHANGED <<groupVars, boxVars, taskVars>>

\* The endpoint's add_task.
Queue(r, users) ==
  /\ recipients' = [recipients EXCEPT ![r] = users]
  /\ Goto(r, "commit")
  /\ UNCHANGED <<groupVars, boxVars, ask, written, history>>

Rollback(r) ==
  /\ Goto(r, "failed")
  /\ ask' = [ask EXCEPT ![r] = NoAsk]
  /\ recipients' = [recipients EXCEPT ![r] = {}]
  /\ stayed' = [stayed EXCEPT ![r] = {}]
  /\ outside' = [outside EXCEPT ![r] = {}]
  /\ UNCHANGED <<groupVars, boxVars, written>>
-----------------------------------------------------------------------------
(* The services' checks.                                                   *)

\* Payer and participants are active; one of those it charges stands for all.
CreateExpense(r, actor, charged) ==
  /\ {actor, charged} \subseteq members
  /\ Start(r, [kind |-> "expense", actor |-> actor, charged |-> charged], "recipients")

ReverseExpense(r, actor, id) ==
  /\ Committed(id) /\ ask[id].kind = "expense"
  /\ id \notin reversed
  /\ actor \in members
  /\ Start(r, [kind |-> "reverse", actor |-> actor, id |-> id], "recipients")

\* Anyone may record the payment, the payee too, who is told all the same.
CreateSettlement(r, from, to) ==
  /\ {from, to} \subseteq members /\ from # to
  /\ Start(r, [kind |-> "settle", user |-> to], "recipients")

\* A new row, or the old one re-activated: the SELECT decides.
AddMember(r, actor, u) ==
  /\ actor \in members /\ u \notin members
  /\ Start(r, [kind |-> "add", actor |-> actor, user |-> u, fresh |-> u \notin joined], "write")

RemoveMember(r, u) ==
  /\ Admin \in members /\ u \in members
  /\ Start(r, [kind |-> "remove", user |-> u], "write")

\* The requests that have written u's row of group_members and not committed it.
Writing(u) == {s \in Requests : /\ pc[s] \in {"recipients", "commit"}
                                /\ ask[s].kind \in {"add", "remove"} /\ ask[s].user = u}

\* Where the request goes when its row is written.
Written(r) == Goto(r, IF ask[r].kind = "add" THEN "recipients" ELSE "commit")

\* Mutant of WriteMember: there is no uq_group_member.
WriteMemberTwice(r) ==
  /\ pc[r] = "write"
  /\ Written(r)
  /\ UNCHANGED <<groupVars, boxVars, ask, taskVars, history>>

\* The INSERT or the UPDATE waits for whoever has written the row.  The INSERT
\* violates uq_group_member if it is there by now; the UPDATE sets the status
\* whatever it has become.
WriteMember(r) ==
  /\ pc[r] = "write" /\ Writing(ask[r].user) = {}
  /\ IF ask[r].kind = "add" /\ ask[r].fresh /\ ask[r].user \in joined THEN Rollback(r)
     ELSE /\ Written(r)
          /\ UNCHANGED <<groupVars, boxVars, ask, taskVars, history>>
-----------------------------------------------------------------------------
(* The endpoints read the recipients and queue the task.                   *)

\* Mutant of Told: those who take part in the expense.
ToldCharged(r) == IF ask[r].kind = "expense" THEN {ask[r].charged} \ {ask[r].actor}
                                             ELSE members \ {ask[r].actor}

\* Mutant of Told: everyone with a row, whatever its status.
ToldJoined(r) == joined \ {ask[r].actor}

\* The active members when the service is through, but not who did it.
Told(r) == members \ {ask[r].actor}

QueueForMembers(r) ==
  /\ pc[r] = "recipients" /\ AboutExpense(r)
  /\ Queue(r, Told(r))

\* The payee.
QueueForPayee(r) ==
  /\ pc[r] = "recipients" /\ ask[r].kind = "settle"
  /\ Queue(r, {ask[r].user})

\* The new member; get_group_detail wants whoever added them still active.
QueueForAdded(r) ==
  /\ pc[r] = "recipients" /\ ask[r].kind = "add"
  /\ IF ask[r].actor \in members THEN Queue(r, {ask[r].user}) ELSE Rollback(r)
-----------------------------------------------------------------------------
(* The commit, and what ends a request without one.                        *)

\* The response is sent; a task with nobody to tell returns at once.
Answer(r) == Goto(r, IF recipients[r] = {} THEN "done" ELSE "task")

\* The requests about an expense that have not committed see who comes and goes.
NoteAdded(u) ==
  outside' = [s \in Requests |-> IF Uncommitted(s) THEN outside[s] \ {u} ELSE outside[s]]
NoteRemoved(u) ==
  stayed' = [s \in Requests |-> IF Uncommitted(s) THEN stayed[s] \ {u} ELSE stayed[s]]

Commit(r) ==
  /\ pc[r] = "commit" /\ ask[r].kind \in {"expense", "reverse", "settle"}
  /\ reversed' = IF ask[r].kind = "reverse" THEN reversed \cup {ask[r].id} ELSE reversed
  /\ Answer(r)
  /\ UNCHANGED <<joined, members, boxVars, ask, taskVars, history>>

\* Mutant of CommitAdd: the row becomes ACTIVE and was never inserted.
CommitAddUnjoined(r) ==
  /\ pc[r] = "commit" /\ ask[r].kind = "add"
  /\ members' = members \cup {ask[r].user}
  /\ NoteAdded(ask[r].user)
  /\ Answer(r)
  /\ UNCHANGED <<joined, reversed, boxVars, ask, taskVars, stayed>>

CommitAdd(r) ==
  /\ pc[r] = "commit" /\ ask[r].kind = "add"
  /\ joined' = joined \cup {ask[r].user}
  /\ members' = members \cup {ask[r].user}
  /\ NoteAdded(ask[r].user)
  /\ Answer(r)
  /\ UNCHANGED <<reversed, boxVars, ask, taskVars, stayed>>

CommitRemove(r) ==
  /\ pc[r] = "commit" /\ ask[r].kind = "remove"
  /\ members' = members \ {ask[r].user}
  /\ NoteRemoved(ask[r].user)
  /\ Answer(r)
  /\ UNCHANGED <<joined, reversed, boxVars, ask, taskVars, outside>>

\* The handler raises, or the process dies before the commit.
Fail(r) == Uncommitted(r) /\ Rollback(r)
-----------------------------------------------------------------------------
(* The background task, _notify.                                           *)

\* Mutant of Insert: a commit per row.
InsertAndCommit(r, u) ==
  /\ pc[r] = "task"
  /\ u \in recipients[r] \ written[r]
  /\ written' = [written EXCEPT ![r] = @ \cup {u}]
  /\ inbox' = inbox \cup {<<r, u>>}
  /\ UNCHANGED <<groupVars, read, pc, ask, recipients, history>>

Insert(r, u) ==
  /\ pc[r] = "task"
  /\ u \in recipients[r] \ written[r]
  /\ written' = [written EXCEPT ![r] = @ \cup {u}]
  /\ UNCHANGED <<groupVars, boxVars, pc, ask, recipients, history>>

\* Mutant of CommitTask: the task waits until everyone else is through with theirs.
CommitTaskLast(r) ==
  /\ \A s \in Requests \ {r} : pc[s] # "task"
  /\ pc[r] = "task" /\ written[r] = recipients[r]
  /\ inbox' = inbox \cup {<<r, u>> : u \in written[r]}
  /\ written' = [written EXCEPT ![r] = {}]
  /\ Goto(r, "done")
  /\ UNCHANGED <<groupVars, read, ask, recipients, history>>

CommitTask(r) ==
  /\ pc[r] = "task" /\ written[r] = recipients[r]
  /\ inbox' = inbox \cup {<<r, u>> : u \in written[r]}
  /\ written' = [written EXCEPT ![r] = {}]
  /\ Goto(r, "done")
  /\ UNCHANGED <<groupVars, read, ask, recipients, history>>

\* An insert fails, no connection comes free in time, or the process dies: the
\* rows are rolled back and nobody hears of it.
LoseTask(r) ==
  /\ pc[r] = "task"
  /\ written' = [written EXCEPT ![r] = {}]
  /\ Goto(r, "lost")
  /\ UNCHANGED <<groupVars, boxVars, ask, recipients, history>>
-----------------------------------------------------------------------------
(* The reader.  A row is never deleted and is_read never reset, so that    *)
(* the SELECT and the UPDATE of mark_one_read do not come apart.           *)

\* Mutant of MarkOneRead: the SELECT has no user_id.
MarkOneReadOfAnyone(n, u) ==
  /\ n \in inbox
  /\ read' = read \cup {n}
  /\ UNCHANGED <<groupVars, inbox, pc, ask, taskVars, history>>

\* get_by_id_for_user: 404 if the notification belongs to a different user.
MarkOneRead(n, u) ==
  /\ n \in inbox /\ n[2] = u
  /\ read' = read \cup {n}
  /\ UNCHANGED <<groupVars, inbox, pc, ask, taskVars, history>>

MarkAllRead(u) ==
  /\ read' = read \cup {n \in inbox : n[2] = u}
  /\ UNCHANGED <<groupVars, inbox, pc, ask, taskVars, history>>

\* A request of u's to mark one notification, or all, as read.
Reads(u) == MarkAllRead(u) \/ \E n \in inbox : MarkOneRead(n, u)

Step(r) ==
  \/ WriteMember(r) \/ QueueForMembers(r) \/ QueueForPayee(r) \/ QueueForAdded(r)
  \/ Commit(r) \/ CommitAdd(r) \/ CommitRemove(r)
  \/ (\E u \in Users : Insert(r, u)) \/ CommitTask(r)

Next ==
  \/ \E r \in Requests, actor \in Users :
       \/ \E u \in Users : CreateExpense(r, actor, u)
       \/ \E id \in Requests : ReverseExpense(r, actor, id)
       \/ \E u \in Users : AddMember(r, actor, u)
  \/ \E r \in Requests, from, to \in Users : CreateSettlement(r, from, to)
  \/ \E r \in Requests, u \in Users : RemoveMember(r, u)
  \/ \E r \in Requests : Step(r) \/ Fail(r) \/ LoseTask(r)
  \/ \E u \in Readers : Reads(u)

\* Handlers and tasks run on; nobody has to send a request or read anything.
Spec == Init /\ [][Next]_vars /\ \A r \in Requests : WF_vars(Step(r))
-----------------------------------------------------------------------------
(* Properties.                                                             *)

TypeOK ==
  /\ members \subseteq joined /\ joined \subseteq Users
  /\ reversed \subseteq Requests
  /\ inbox \subseteq Notification /\ read \subseteq inbox
  /\ pc \in [Requests -> Steps]
  /\ ask \in [Requests -> Asks \cup {NoAsk}]
  /\ recipients \in [Requests -> SUBSET Users]
  /\ written \in [Requests -> SUBSET Users]
  /\ stayed \in [Requests -> SUBSET Users]
  /\ outside \in [Requests -> SUBSET Users]

\* Who has a notification of r.
Informed(r) == {u \in Users : <<r, u>> \in inbox}

\* Nobody hears of what was rolled back, and of what was committed either all
\* recipients hear or none: an insert that fails takes the others with it.
AllOrNobody ==
  \A r \in Requests :
    Informed(r) = IF pc[r] = "done" THEN recipients[r] ELSE {}

\* An expense that came or went is news to everyone who was a member all the
\* time: only who joins or leaves while the request runs may miss it, the
\* participants it charges included, and who did it is not told.
StayersAreTold ==
  \A r \in Requests : pc[r] = "done" /\ AboutExpense(r) =>
    /\ stayed[r] \ {ask[r].actor} \subseteq Informed(r)
    /\ ask[r].actor \notin Informed(r)

\* And it is no news to who was out of the group all the time, as former
\* members are, even if the expense reversed had charged them.
OutsidersAreNotTold ==
  \A r \in Requests : AboutExpense(r) => Informed(r) \cap outside[r] = {}

\* uq_group_member: a user's row is inserted once.  Of two requests that add a
\* newcomer at the same time one fails, and its welcome is never sent.  (This is
\* about first memberships only: two requests that re-activate the row of a
\* former member both commit and both send a welcome, see AddedOnce.)
JoinsOnce ==
  \A r, s \in Requests :
    /\ r # s /\ Committed(r) /\ Committed(s)
    /\ ask[r].kind = "add" /\ ask[r].fresh
    /\ ask[s].kind = "add" /\ ask[s].fresh
    => ask[r].user # ask[s].user

\* Notifications are kept and stay read, and what a user's request marks as read
\* are notifications to that user, one by one and all at once ("404 if
\* notification doesn't exist or belongs to a different user").
OwnRowsMarked ==
  [][/\ inbox \subseteq inbox' /\ read \subseteq read'
     /\ \A u \in Readers : Reads(u) => \A n \in read' \ read : n[2] = u]_vars

\* Every request comes to an end, and so does its task: what is committed is
\* told or, if the server fails it, lost for good.
ToldOrLost ==
  \A r \in Requests : Uncommitted(r) \/ pc[r] = "task" ~> pc[r] \in {"done", "failed", "lost"}
-----------------------------------------------------------------------------
(* What the repository says and the code does not do.                      *)

\* add_member, group_service.py:162 "User is already an active member of this
\* group.": who is an active member is not added again.
AddedOnce ==
  [][\A r \in Requests : CommitAdd(r) => ask[r].user \notin members]_vars
=============================================================================
