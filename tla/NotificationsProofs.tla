------------------------- MODULE NotificationsProofs -------------------------
(***************************************************************************)
(* The safety properties of Notifications hold for any users and any       *)
(* number of concurrent requests.                                          *)
(***************************************************************************)
EXTENDS Notifications, TLAPS

\* While a request about an expense runs, its history is true of the members.
History ==
  \A r \in Requests : Uncommitted(r) /\ AboutExpense(r) =>
    stayed[r] \subseteq members /\ outside[r] \cap members = {}

\* StayersAreTold and OutsidersAreNotTold, of the queued task.
Addressed ==
  \A r \in Requests : pc[r] \in {"commit", "task", "done", "lost"} /\ AboutExpense(r) =>
    /\ stayed[r] \ {ask[r].actor} \subseteq recipients[r]
    /\ ask[r].actor \notin recipients[r]
    /\ outside[r] \cap recipients[r] = {}

\* The request has inserted a row into group_members, committed or not.
Inserted(r) ==
  /\ ask[r].kind = "add" /\ ask[r].fresh
  /\ pc[r] \in {"recipients", "commit", "task", "done", "lost"}

\* uq_group_member: one row per user.
OneRow ==
  /\ \A r, s \in Requests : Inserted(r) /\ Inserted(s) /\ r # s => ask[r].user # ask[s].user
  /\ \A r \in Requests : Committed(r) /\ ask[r].kind = "add" => ask[r].user \in joined
  /\ \A r \in Requests : pc[r] = "write" => ask[r].kind \in {"add", "remove"}

IInv == TypeOK /\ AllOrNobody /\ History /\ Addressed /\ OneRow

LEMMA InitHolds == Init => IInv
<1> SUFFICES ASSUME Init PROVE IInv
  OBVIOUS
<1> USE DEF Init
<1>1. TypeOK
  BY AdminIsUser DEF TypeOK, Steps, Notification
<1>2. AllOrNobody /\ History /\ Addressed /\ OneRow
  BY DEF AllOrNobody, Informed, History, Addressed, OneRow, Uncommitted, Inserted, Committed
<1> QED
  BY <1>1, <1>2 DEF IInv
-----------------------------------------------------------------------------
(* The request up to its commit.                                           *)

LEMMA StartKeeps ==
  ASSUME IInv, NEW r \in Requests, NEW a \in Asks, NEW step \in {"write", "recipients", "commit"},
         a.kind \in {"expense", "reverse"} => step = "recipients",
         a.kind = "add" => step = "write",
         step = "write" => a.kind \in {"add", "remove"},
         Start(r, a, step)
  PROVE  IInv'
<1> USE DEF IInv
<1>1. /\ pc[r] = "idle" /\ pc' = [pc EXCEPT ![r] = step] /\ ask' = [ask EXCEPT ![r] = a]
      /\ UNCHANGED <<joined, members, reversed, inbox, read, recipients, written>>
      /\ IF a.kind \in {"expense", "reverse"}
         THEN /\ stayed' = [stayed EXCEPT ![r] = members]
              /\ outside' = [outside EXCEPT ![r] = Users \ members]
         ELSE UNCHANGED <<stayed, outside>>
  BY DEF Start, Goto, groupVars, boxVars, taskVars, history
<1>2. TypeOK'
  BY <1>1 DEF TypeOK, Steps
<1>3. /\ \A q \in Requests \ {r} : /\ pc'[q] = pc[q] /\ ask'[q] = ask[q]
                                  /\ stayed'[q] = stayed[q] /\ outside'[q] = outside[q]
      /\ pc'[r] = step /\ ask'[r] = a
      /\ a.kind \in {"expense", "reverse"} => stayed'[r] = members /\ outside'[r] = Users \ members
  BY <1>1 DEF TypeOK
<1>4. AllOrNobody'
  BY <1>1, <1>3 DEF AllOrNobody, Informed
<1>5. History'
  BY <1>1, <1>3 DEF History, Uncommitted, AboutExpense
<1>6. Addressed'
  BY <1>1, <1>3 DEF Addressed, AboutExpense
<1>7. OneRow'
  BY <1>1, <1>3 DEF OneRow, Inserted, Committed
<1> QED
  BY <1>2, <1>4, <1>5, <1>6, <1>7

LEMMA QueueKeeps ==
  ASSUME IInv, NEW r \in Requests, NEW users \in SUBSET Users, pc[r] = "recipients",
         AboutExpense(r) => users = members \ {ask[r].actor},
         Queue(r, users)
  PROVE  IInv'
<1> USE DEF IInv
<1>1. /\ pc' = [pc EXCEPT ![r] = "commit"] /\ recipients' = [recipients EXCEPT ![r] = users]
      /\ UNCHANGED <<joined, members, reversed, inbox, read, ask, written, stayed, outside>>
  BY DEF Queue, Goto, groupVars, boxVars, history
<1>2. TypeOK'
  BY <1>1 DEF TypeOK, Steps
<1>3. /\ \A q \in Requests \ {r} : pc'[q] = pc[q] /\ recipients'[q] = recipients[q]
      /\ pc'[r] = "commit" /\ recipients'[r] = users
  BY <1>1 DEF TypeOK
<1>4. AllOrNobody'
  BY <1>1, <1>3 DEF AllOrNobody, Informed
<1>5. History'
  BY <1>1, <1>3 DEF History, Uncommitted, AboutExpense
<1>6. Addressed'
  BY <1>1, <1>3 DEF Addressed, AboutExpense, History, Uncommitted
<1>7. OneRow'
  BY <1>1, <1>3 DEF OneRow, Inserted, Committed
<1> QED
  BY <1>2, <1>4, <1>5, <1>6, <1>7

LEMMA RollbackKeeps ==
  ASSUME IInv, NEW r \in Requests, Uncommitted(r), Rollback(r)
  PROVE  IInv'
<1> USE DEF IInv
<1>1. /\ pc' = [pc EXCEPT ![r] = "failed"] /\ ask' = [ask EXCEPT ![r] = NoAsk]
      /\ recipients' = [recipients EXCEPT ![r] = {}]
      /\ stayed' = [stayed EXCEPT ![r] = {}] /\ outside' = [outside EXCEPT ![r] = {}]
      /\ UNCHANGED <<joined, members, reversed, inbox, read, written>>
  BY DEF Rollback, Goto, groupVars, boxVars
<1>2. TypeOK'
  BY <1>1 DEF TypeOK, Steps
<1>3. /\ \A q \in Requests \ {r} :
           /\ pc'[q] = pc[q] /\ ask'[q] = ask[q] /\ recipients'[q] = recipients[q]
           /\ stayed'[q] = stayed[q] /\ outside'[q] = outside[q]
      /\ pc'[r] = "failed" /\ pc[r] # "done"
  BY <1>1 DEF TypeOK, Uncommitted
<1>4. AllOrNobody'
  BY <1>1, <1>3 DEF AllOrNobody, Informed
<1>5. History'
  BY <1>1, <1>3 DEF History, Uncommitted, AboutExpense
<1>6. Addressed'
  BY <1>1, <1>3 DEF Addressed, AboutExpense
<1>7. OneRow'
  BY <1>1, <1>3 DEF OneRow, Inserted, Committed
<1> QED
  BY <1>2, <1>4, <1>5, <1>6, <1>7

LEMMA WriteMemberKeeps ==
  ASSUME IInv, NEW r \in Requests, WriteMember(r)
  PROVE  IInv'
<1> USE DEF IInv
<1> DEFINE taken == ask[r].kind = "add" /\ ask[r].fresh /\ ask[r].user \in joined
<1>1. CASE taken
  BY <1>1, RollbackKeeps DEF WriteMember, Uncommitted
<1>2. CASE ~taken
  <2> DEFINE step == IF ask[r].kind = "add" THEN "recipients" ELSE "commit"
  <2>1. /\ pc[r] = "write" /\ Writing(ask[r].user) = {} /\ ask[r].kind \in {"add", "remove"}
        /\ pc' = [pc EXCEPT ![r] = step]
        /\ UNCHANGED <<joined, members, reversed, inbox, read, ask, recipients, written, stayed,
                       outside>>
    BY <1>2 DEF WriteMember, Written, Goto, groupVars, boxVars, taskVars, history, OneRow
  <2>2. TypeOK'
    BY <2>1 DEF TypeOK, Steps
  <2>3. (\A q \in Requests \ {r} : pc'[q] = pc[q]) /\ pc'[r] = step
    BY <2>1 DEF TypeOK
  <2>4. AllOrNobody'
    BY <2>1, <2>3 DEF AllOrNobody, Informed
  <2>5. History' /\ Addressed'
    BY <2>1, <2>3 DEF History, Addressed, Uncommitted, AboutExpense
  <2>6. ASSUME NEW s \in Requests, s # r, Inserted(s), ask[r].kind = "add", ask[r].fresh
        PROVE  ask[s].user # ask[r].user
    <3>1. CASE pc[s] \in {"recipients", "commit"}
      BY <2>1, <2>6, <3>1 DEF Writing, Inserted
    <3>2. CASE pc[s] \in {"task", "done", "lost"}
      BY <1>2, <2>6, <3>2 DEF OneRow, Inserted, Committed
    <3> QED
      BY <2>6, <3>1, <3>2 DEF Inserted
  <2>7. \A q \in Requests : Inserted(q)' => Inserted(q) \/ (q = r /\ ask[r].kind = "add" /\ ask[r].fresh)
    BY <2>1, <2>3 DEF Inserted
  <2>8. OneRow'
    BY <2>1, <2>3, <2>6, <2>7 DEF OneRow, Committed
  <2> QED
    BY <2>2, <2>4, <2>5, <2>8
<1> QED
  BY <1>1, <1>2
-----------------------------------------------------------------------------
(* The commit.                                                             *)

\* What the three commits have in common: the request's pc and nothing of the
\* others' moves on, and AllOrNobody holds.
LEMMA AnswerKeeps ==
  ASSUME IInv, NEW r \in Requests, pc[r] = "commit", Answer(r),
         UNCHANGED <<boxVars, ask, taskVars>>
  PROVE  /\ \A q \in Requests \ {r} : pc'[q] = pc[q]
         /\ pc'[r] \in {"done", "task"} /\ pc' \in [Requests -> Steps]
         /\ AllOrNobody'
<1>1. pc' = [pc EXCEPT ![r] = IF recipients[r] = {} THEN "done" ELSE "task"]
  BY DEF Answer, Goto
<1>2. /\ \A q \in Requests \ {r} : pc'[q] = pc[q]
      /\ pc'[r] = IF recipients[r] = {} THEN "done" ELSE "task"
      /\ pc' \in [Requests -> Steps]
  BY <1>1 DEF IInv, TypeOK, Steps
<1>3. Informed(r) = {} /\ \A q \in Requests : Informed(q)' = Informed(q)
  BY DEF IInv, AllOrNobody, Informed, boxVars
<1>4. AllOrNobody'
  <2> SUFFICES ASSUME NEW q \in Requests
               PROVE  Informed(q)' = IF pc'[q] = "done" THEN recipients'[q] ELSE {}
    BY DEF AllOrNobody
  <2>1. CASE q = r
    BY <2>1, <1>2, <1>3 DEF taskVars
  <2>2. CASE q # r
    BY <2>2, <1>2, <1>3 DEF taskVars, IInv, AllOrNobody
  <2> QED
    BY <2>1, <2>2
<1> QED
  BY <1>2, <1>4

LEMMA CommitKeeps ==
  ASSUME IInv, NEW r \in Requests, Commit(r)
  PROVE  IInv'
<1> USE DEF IInv
<1>1. /\ pc[r] = "commit" /\ ask[r].kind \in {"expense", "reverse", "settle"}
      /\ reversed' = IF ask[r].kind = "reverse" THEN reversed \cup {ask[r].id} ELSE reversed
      /\ UNCHANGED <<joined, members, inbox, read, ask, recipients, written, stayed, outside>>
  BY DEF Commit, boxVars, taskVars, history
<1>2. /\ \A q \in Requests \ {r} : pc'[q] = pc[q]
      /\ pc'[r] \in {"done", "task"} /\ pc' \in [Requests -> Steps] /\ AllOrNobody'
  BY AnswerKeeps DEF Commit
<1>3. ask[r].kind = "reverse" => ask[r].id \in Requests
  BY DEF TypeOK, Asks, NoAsk
<1>4. TypeOK'
  BY <1>1, <1>2, <1>3 DEF TypeOK
<1>5. History'
  BY <1>1, <1>2 DEF History, Uncommitted, AboutExpense
<1>6. Addressed'
  BY <1>1, <1>2 DEF Addressed, AboutExpense
<1>7. OneRow'
  BY <1>1, <1>2 DEF OneRow, Inserted, Committed
<1> QED
  BY <1>2, <1>4, <1>5, <1>6, <1>7

LEMMA CommitAddKeeps ==
  ASSUME IInv, NEW r \in Requests, CommitAdd(r)
  PROVE  IInv'
<1> USE DEF IInv
<1> DEFINE u == ask[r].user
<1>1. /\ pc[r] = "commit" /\ ask[r].kind = "add"
      /\ joined' = joined \cup {u} /\ members' = members \cup {u}
      /\ outside' = [s \in Requests |-> IF Uncommitted(s) THEN outside[s] \ {u} ELSE outside[s]]
      /\ UNCHANGED <<reversed, inbox, read, ask, recipients, written, stayed>>
  BY DEF CommitAdd, NoteAdded, boxVars, taskVars
<1>2. /\ \A q \in Requests \ {r} : pc'[q] = pc[q]
      /\ pc'[r] \in {"done", "task"} /\ pc' \in [Requests -> Steps] /\ AllOrNobody'
  BY AnswerKeeps DEF CommitAdd
<1>3. u \in Users
  BY <1>1 DEF TypeOK, Asks, NoAsk
<1> HIDE DEF u
<1>4. TypeOK'
  BY <1>1, <1>2, <1>3 DEF TypeOK
<1>5. \A q \in Requests : outside'[q] \subseteq outside[q] /\ (Uncommitted(q) => u \notin outside'[q])
  BY <1>1
<1>6. History'
  BY <1>1, <1>2, <1>5 DEF History, Uncommitted, AboutExpense
<1>7. Addressed'
  BY <1>1, <1>2, <1>5 DEF Addressed, AboutExpense
<1>8. OneRow'
  BY <1>1, <1>2 DEF OneRow, Inserted, Committed, u
<1> QED
  BY <1>2, <1>4, <1>6, <1>7, <1>8

LEMMA CommitRemoveKeeps ==
  ASSUME IInv, NEW r \in Requests, CommitRemove(r)
  PROVE  IInv'
<1> USE DEF IInv
<1> DEFINE u == ask[r].user
<1>1. /\ pc[r] = "commit" /\ ask[r].kind = "remove"
      /\ members' = members \ {u}
      /\ stayed' = [s \in Requests |-> IF Uncommitted(s) THEN stayed[s] \ {u} ELSE stayed[s]]
      /\ UNCHANGED <<joined, reversed, inbox, read, ask, recipients, written, outside>>
  BY DEF CommitRemove, NoteRemoved, boxVars, taskVars
<1>2. /\ \A q \in Requests \ {r} : pc'[q] = pc[q]
      /\ pc'[r] \in {"done", "task"} /\ pc' \in [Requests -> Steps] /\ AllOrNobody'
  BY AnswerKeeps DEF CommitRemove
<1> HIDE DEF u
<1>3. TypeOK'
  BY <1>1, <1>2 DEF TypeOK
<1>4. \A q \in Requests : stayed'[q] \subseteq stayed[q] /\ (Uncommitted(q) => u \notin stayed'[q])
  BY <1>1
<1>5. History'
  BY <1>1, <1>2, <1>4 DEF History, Uncommitted, AboutExpense
<1>6. Addressed'
  BY <1>1, <1>2, <1>4 DEF Addressed, AboutExpense
<1>7. OneRow'
  BY <1>1, <1>2 DEF OneRow, Inserted, Committed
<1> QED
  BY <1>2, <1>3, <1>5, <1>6, <1>7
-----------------------------------------------------------------------------
(* The background task and the reader.                                     *)

LEMMA InsertKeeps ==
  ASSUME IInv, NEW r \in Requests, NEW u \in Users, Insert(r, u)
  PROVE  IInv'
<1> USE DEF IInv
<1>1. /\ written' = [written EXCEPT ![r] = @ \cup {u}]
      /\ UNCHANGED <<joined, members, reversed, inbox, read, pc, ask, recipients, stayed, outside>>
  BY DEF Insert, groupVars, boxVars, history
<1>2. TypeOK'
  BY <1>1 DEF TypeOK
<1>3. AllOrNobody' /\ History' /\ Addressed' /\ OneRow'
  BY <1>1 DEF AllOrNobody, Informed, History, Addressed, OneRow, Uncommitted, AboutExpense,
              Inserted, Committed
<1> QED
  BY <1>2, <1>3

LEMMA CommitTaskKeeps ==
  ASSUME IInv, NEW r \in Requests, CommitTask(r)
  PROVE  IInv'
<1> USE DEF IInv
<1>1. /\ pc[r] = "task" /\ written[r] = recipients[r]
      /\ inbox' = inbox \cup {<<r, u>> : u \in written[r]}
      /\ written' = [written EXCEPT ![r] = {}] /\ pc' = [pc EXCEPT ![r] = "done"]
      /\ UNCHANGED <<joined, members, reversed, read, ask, recipients, stayed, outside>>
  BY DEF CommitTask, Goto, groupVars, history
<1>2. TypeOK'
  BY <1>1 DEF TypeOK, Steps, Notification
<1>3. (\A q \in Requests \ {r} : pc'[q] = pc[q]) /\ pc'[r] = "done"
  BY <1>1 DEF TypeOK
<1>4. AllOrNobody'
  <2> SUFFICES ASSUME NEW q \in Requests
               PROVE  Informed(q)' = IF pc'[q] = "done" THEN recipients'[q] ELSE {}
    BY DEF AllOrNobody
  <2>1. Informed(q)' = {v \in Users : <<q, v>> \in inbox'}
    BY DEF Informed
  <2>2. \A v : <<q, v>> \in inbox' <=> <<q, v>> \in inbox \/ (q = r /\ v \in written[r])
    BY <1>1
  <2>3. CASE q = r
    BY <2>1, <2>2, <2>3, <1>1, <1>3 DEF AllOrNobody, Informed, TypeOK
  <2>4. CASE q # r
    BY <2>1, <2>2, <2>4, <1>1, <1>3 DEF AllOrNobody, Informed
  <2> QED
    BY <2>3, <2>4
<1>5. History' /\ Addressed'
  BY <1>1, <1>3 DEF History, Addressed, Uncommitted, AboutExpense
<1>6. OneRow'
  BY <1>1, <1>3 DEF OneRow, Inserted, Committed
<1> QED
  BY <1>2, <1>4, <1>5, <1>6

LEMMA LoseTaskKeeps ==
  ASSUME IInv, NEW r \in Requests, LoseTask(r)
  PROVE  IInv'
<1> USE DEF IInv
<1>1. /\ pc[r] = "task"
      /\ written' = [written EXCEPT ![r] = {}] /\ pc' = [pc EXCEPT ![r] = "lost"]
      /\ UNCHANGED <<joined, members, reversed, inbox, read, ask, recipients, stayed, outside>>
  BY DEF LoseTask, Goto, groupVars, boxVars, history
<1>2. TypeOK'
  BY <1>1 DEF TypeOK, Steps
<1>3. (\A q \in Requests \ {r} : pc'[q] = pc[q]) /\ pc'[r] = "lost"
  BY <1>1 DEF TypeOK
<1>4. AllOrNobody'
  BY <1>1, <1>3 DEF AllOrNobody, Informed
<1>5. History' /\ Addressed'
  BY <1>1, <1>3 DEF History, Addressed, Uncommitted, AboutExpense
<1>6. OneRow'
  BY <1>1, <1>3 DEF OneRow, Inserted, Committed
<1> QED
  BY <1>2, <1>4, <1>5, <1>6

\* Reading, and a stuttering step, leave all but `read' alone.
LEMMA ReadKeeps ==
  ASSUME IInv, read' \subseteq inbox,
         UNCHANGED <<groupVars, inbox, pc, ask, taskVars, history>>
  PROVE  IInv'
<1>1. UNCHANGED <<joined, members, reversed, inbox, pc, ask, recipients, written, stayed, outside>>
  BY DEF groupVars, taskVars, history
<1>2. TypeOK'
  BY <1>1 DEF IInv, TypeOK
<1>3. AllOrNobody' /\ History' /\ Addressed' /\ OneRow'
  BY <1>1 DEF IInv, AllOrNobody, Informed, History, Addressed, OneRow, Uncommitted, AboutExpense,
              Inserted, Committed
<1> QED
  BY <1>2, <1>3 DEF IInv
-----------------------------------------------------------------------------
(* Every step.                                                             *)

LEMMA RequestKeeps ==
  ASSUME IInv, NEW r \in Requests, NEW actor \in Users,
         \/ \E u \in Users : CreateExpense(r, actor, u)
         \/ \E id \in Requests : ReverseExpense(r, actor, id)
         \/ \E u \in Users : AddMember(r, actor, u)
  PROVE  IInv'
<1>1. ASSUME NEW u \in Users, CreateExpense(r, actor, u) PROVE IInv'
  <2> DEFINE a == [kind |-> "expense", actor |-> actor, charged |-> u]
  <2>1. a \in Asks /\ a.kind = "expense"
    BY DEF Asks
  <2>2. Start(r, a, "recipients")
    BY <1>1 DEF CreateExpense
  <2> HIDE DEF a
  <2> QED
    BY <2>1, <2>2, StartKeeps
<1>2. ASSUME NEW id \in Requests, ReverseExpense(r, actor, id) PROVE IInv'
  <2> DEFINE a == [kind |-> "reverse", actor |-> actor, id |-> id]
  <2>1. a \in Asks /\ a.kind = "reverse"
    BY DEF Asks
  <2>2. Start(r, a, "recipients")
    BY <1>2 DEF ReverseExpense
  <2> HIDE DEF a
  <2> QED
    BY <2>1, <2>2, StartKeeps
<1>3. ASSUME NEW u \in Users, AddMember(r, actor, u) PROVE IInv'
  <2> DEFINE a == [kind |-> "add", actor |-> actor, user |-> u, fresh |-> u \notin joined]
  <2>1. a \in Asks /\ a.kind = "add"
    BY DEF Asks
  <2>2. Start(r, a, "write")
    BY <1>3 DEF AddMember
  <2> HIDE DEF a
  <2> QED
    BY <2>1, <2>2, StartKeeps
<1> QED
  BY <1>1, <1>2, <1>3

LEMMA StepKeeps == IInv /\ [Next]_vars => IInv'
<1> SUFFICES ASSUME IInv, [Next]_vars PROVE IInv'
  OBVIOUS
<1>1. ASSUME NEW r \in Requests, NEW from \in Users, NEW to \in Users,
             CreateSettlement(r, from, to)
      PROVE  IInv'
  <2> DEFINE a == [kind |-> "settle", user |-> to]
  <2>1. a \in Asks /\ a.kind = "settle"
    BY DEF Asks
  <2>2. Start(r, a, "recipients")
    BY <1>1 DEF CreateSettlement
  <2> HIDE DEF a
  <2> QED
    BY <2>1, <2>2, StartKeeps
<1>2. ASSUME NEW r \in Requests, NEW u \in Users, RemoveMember(r, u) PROVE IInv'
  <2> DEFINE a == [kind |-> "remove", user |-> u]
  <2>1. a \in Asks /\ a.kind = "remove"
    BY DEF Asks
  <2>2. Start(r, a, "write")
    BY <1>2 DEF RemoveMember
  <2> HIDE DEF a
  <2> QED
    BY <2>1, <2>2, StartKeeps
<1>3. ASSUME NEW r \in Requests, QueueForMembers(r) PROVE IInv'
  BY <1>3, QueueKeeps DEF QueueForMembers, Told, IInv, TypeOK
<1>4. ASSUME NEW r \in Requests, QueueForPayee(r) PROVE IInv'
  <2>1. ask[r].user \in Users
    BY <1>4 DEF QueueForPayee, IInv, TypeOK, Asks, NoAsk
  <2> QED
    BY <1>4, <2>1, QueueKeeps DEF QueueForPayee, AboutExpense
<1>5. ASSUME NEW r \in Requests, QueueForAdded(r) PROVE IInv'
  <2>1. ask[r].user \in Users
    BY <1>5 DEF QueueForAdded, IInv, TypeOK, Asks, NoAsk
  <2> QED
    BY <1>5, <2>1, QueueKeeps, RollbackKeeps DEF QueueForAdded, AboutExpense, Uncommitted
<1>6. ASSUME NEW r \in Requests, Step(r) PROVE IInv'
  BY <1>3, <1>4, <1>5, <1>6, WriteMemberKeeps, CommitKeeps, CommitAddKeeps, CommitRemoveKeeps,
     InsertKeeps, CommitTaskKeeps DEF Step
<1>7. ASSUME NEW r \in Requests, Fail(r) \/ LoseTask(r) PROVE IInv'
  BY <1>7, RollbackKeeps, LoseTaskKeeps DEF Fail
<1>8. ASSUME NEW u \in Readers, Reads(u) PROVE IInv'
  BY <1>8, ReadKeeps DEF Reads, MarkAllRead, MarkOneRead, IInv, TypeOK
<1>9. CASE UNCHANGED vars
  BY <1>9, ReadKeeps DEF vars, boxVars, IInv, TypeOK
<1> QED
  BY <1>1, <1>2, <1>6, <1>7, <1>8, <1>9, RequestKeeps DEF Next

LEMMA Invariance == Spec => []IInv
  BY InitHolds, StepKeeps, PTL DEF Spec
-----------------------------------------------------------------------------
(* The theorems.                                                           *)

\* The type invariant: an ACTIVE membership is a row of the table, a read
\* notification exists, and a task's recipients are users.
THEOREM TypeCorrect == Spec => []TypeOK
<1>1. IInv => TypeOK
  BY DEF IInv
<1> QED
  BY <1>1, Invariance, PTL

\* The rows of a background task are committed together or not at all, and
\* only after the commit of the request (notification_triggers._notify).
THEOREM OneCommitPerTask == Spec => []AllOrNobody
<1>1. IInv => AllOrNobody
  BY DEF IInv
<1> QED
  BY <1>1, Invariance, PTL

\* However members come and go while the request runs, whoever stayed is told
\* of its expense, and its actor is not (endpoints/expenses.py).
THEOREM StayersHear == Spec => []StayersAreTold
<1>1. IInv => StayersAreTold
  <2> SUFFICES ASSUME IInv, NEW r \in Requests, pc[r] = "done", AboutExpense(r)
               PROVE  /\ stayed[r] \ {ask[r].actor} \subseteq Informed(r)
                      /\ ask[r].actor \notin Informed(r)
    BY DEF StayersAreTold
  <2>1. Informed(r) = recipients[r]
    BY DEF IInv, AllOrNobody
  <2> QED
    BY <2>1 DEF IInv, Addressed
<1> QED
  BY <1>1, Invariance, PTL

\* And whoever was outside the group all that time is not told.
THEOREM OutsidersDoNotHear == Spec => []OutsidersAreNotTold
<1>1. IInv => OutsidersAreNotTold
  <2> SUFFICES ASSUME IInv, NEW r \in Requests, AboutExpense(r)
               PROVE  Informed(r) \cap outside[r] = {}
    BY DEF OutsidersAreNotTold
  <2>1. CASE pc[r] = "done"
    BY <2>1 DEF IInv, AllOrNobody, Addressed
  <2>2. CASE pc[r] # "done"
    BY <2>2 DEF IInv, AllOrNobody
  <2> QED
    BY <2>1, <2>2
<1> QED
  BY <1>1, Invariance, PTL

\* Of the requests that insert a user's row at most one commits: the others meet
\* uq_group_member.  (The requests that re-activate a row are another matter, see
\* AddedOnce.)
THEOREM NobodyJoinsTwice == Spec => []JoinsOnce
<1>1. IInv => JoinsOnce
  BY DEF IInv, JoinsOnce, OneRow, Inserted, Committed
<1> QED
  BY <1>1, Invariance, PTL

\* What a user's request marks as read are notifications to that user
\* (mark_one_read and mark_all_read), and no row is lost or becomes unread.
THEOREM ReadingIsPrivate == Spec => OwnRowsMarked
<1> DEFINE Private == \A u \in Readers : Reads(u) => \A n \in read' \ read : n[2] = u
           Kept == inbox \subseteq inbox' /\ read \subseteq read' /\ Private
<1>1. Private
  <2> SUFFICES ASSUME NEW u \in Readers, Reads(u), NEW n \in read', n \notin read
               PROVE  n[2] = u
    OBVIOUS
  <2>1. CASE MarkAllRead(u)
    BY <2>1 DEF MarkAllRead
  <2>2. ASSUME NEW m \in inbox, MarkOneRead(m, u) PROVE n[2] = u
    BY <2>2 DEF MarkOneRead
  <2> QED
    BY <2>1, <2>2 DEF Reads
<1>2. ASSUME Next PROVE inbox \subseteq inbox' /\ read \subseteq read'
  <2>1. ASSUME NEW u \in Readers, Reads(u) PROVE inbox \subseteq inbox' /\ read \subseteq read'
    BY <2>1 DEF Reads, MarkAllRead, MarkOneRead
  <2> QED
    BY <1>2, <2>1
    DEF Next, CreateExpense, ReverseExpense, AddMember, CreateSettlement, RemoveMember, Step, Fail,
        LoseTask, WriteMember, QueueForMembers, QueueForPayee, QueueForAdded, Commit, CommitAdd,
        CommitRemove, Insert, CommitTask, Start, Queue, Rollback, boxVars
<1> HIDE DEF Private
<1>3. [Next]_vars => [Kept]_vars
  BY <1>1, <1>2
<1> QED
  BY <1>3, PTL DEF Spec, OwnRowsMarked, Private
=============================================================================
