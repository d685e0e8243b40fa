-------------------------- MODULE AuthTokensProofs --------------------------
(***************************************************************************)
(* The properties of AuthTokens hold for any accounts, passwords, requests *)
(* and lifetimes.  They rest on one inductive invariant, IInv.             *)
(***************************************************************************)
EXTENDS AuthTokens, TLAPS

\* Redeems a link, and has found it valid.
Holding(r) == Redeems(r) /\ pc[r] \in {"commit", "done"}

\* `before' only relates requests to later ones.
Order ==
  \A r, s \in Requests : <<r, s>> \in before => pc[r] = "done" /\ pc[s] # "idle" /\ r # s

\* The rows of user_tokens are those of the requests that made them.
Rows ==
  /\ \A t \in Requests : t \in DOMAIN tokens <=> pc[t] = "done" /\ Makes(t)
  /\ \A t \in DOMAIN tokens : tokens[t].user = ask[t].user /\ tokens[t].type = LinkType(t)

\* Links are for accounts.
Accounts ==
  /\ \A t \in DOMAIN tokens : Registered(tokens[t].user)
  /\ \A r \in Requests : ask[r].kind \in {"resend", "forgot"} => Registered(ask[r].user)

\* What a request redeems is a row of the right type, found before anything is
\* written.
Targets ==
  \A r \in Requests :
    /\ Holding(r) =>
         ask[r].token \in DOMAIN tokens /\ tokens[ask[r].token].type = LinkType(r)
    /\ pc[r] \in {"insert", "invalidate", "issue"} => ~Redeems(r)

\* A request that is about to create a link has matched every older live one.
Sweeps ==
  \A r \in Requests : Makes(r) /\ pc[r] \in {"issue", "commit"} =>
    /\ \A t \in superseded[r] :
         /\ t \in DOMAIN tokens
         /\ tokens[t].user = ask[r].user /\ tokens[t].type = LinkType(r)
    /\ \A t \in DOMAIN tokens :
         tokens[t].user = ask[r].user /\ tokens[t].type = LinkType(r) /\ <<t, r>> \in before
         => t \in superseded[r] \/ tokens[t].is_used

\* SingleUseInSequence, from the moment the link was found valid.
HeldAfresh ==
  \A r, s \in Requests :
    Redeemed(r) /\ Holding(s) /\ <<r, s>> \in before => ask[r].token # ask[s].token

\* SupersededIsDead, likewise.
HeldLatest ==
  \A t, q \in DOMAIN tokens : \A r \in Requests :
    SameLink(t, q) /\ <<t, q>> \in before /\ <<q, r>> \in before /\ Holding(r)
    => ask[r].token # t

\* JWTs are accepted until they are dropped.
Sessions == \A s \in sessions : s.user \in verified /\ s.expires >= now

IInv ==
  /\ TypeOK /\ Order /\ Rows /\ Accounts /\ Targets /\ Sweeps
  /\ OneLiveLink /\ HeldAfresh /\ HeldLatest /\ SpentForAReason
  /\ VerifiedByLink /\ LatestPasswordWins /\ Sessions

LEMMA InitHolds == Init => IInv
<1> SUFFICES ASSUME Init PROVE IInv
  OBVIOUS
<1> USE NoPasswordIsNone DEF Init
<1>1. TypeOK
  BY DEF TypeOK, Steps
<1>2. Order /\ Rows /\ Accounts /\ Targets /\ Sweeps
  BY DEF Order, Rows, Accounts, Targets, Sweeps, Holding, Makes, Redeems, NoAsk
<1>3. OneLiveLink /\ HeldAfresh /\ HeldLatest /\ SpentForAReason
  BY DEF OneLiveLink, HeldAfresh, HeldLatest, SpentForAReason, Redeemed, Holding
<1>4. VerifiedByLink /\ LatestPasswordWins /\ Sessions
  BY DEF VerifiedByLink, LatestPasswordWins, PasswordSetBy, Sessions, Redeemed
<1> QED
  BY <1>1, <1>2, <1>3, <1>4 DEF IInv
-----------------------------------------------------------------------------
(* Requests that begin.                                                    *)

\* What the first SELECT of each handler has seen.
Admitted(a, step) ==
  /\ a \in Asks
  /\ a.kind \in {"register", "resend", "forgot"} => step \in {"insert", "invalidate"}
  /\ a.kind \in {"resend", "forgot"} => Registered(a.user)
  /\ a.kind \in {"verify", "reset"} =>
       /\ step = "commit"
       /\ a.token \in DOMAIN tokens /\ ~tokens[a.token].is_used
       /\ tokens[a.token].type =
            IF a.kind = "reset" THEN "PASSWORD_RESET" ELSE "EMAIL_VERIFICATION"

\* A request that begins keeps the invariant: what it has found valid is no
\* link redeemed or replaced before, since those are used.
LEMMA StartKeeps ==
  ASSUME IInv, NEW r \in Requests, NEW a, NEW step \in Steps,
         Admitted(a, step), Start(r, a, step)
  PROVE  IInv'
<1> USE DEF IInv
<1>1. /\ pc[r] = "idle"
      /\ pc' = [pc EXCEPT ![r] = step] /\ ask' = [ask EXCEPT ![r] = a]
      /\ before' = before \cup {<<s, r>> : s \in {q \in Requests : pc[q] = "done"}}
      /\ UNCHANGED <<password, verified, tokens, now, mailbox, sessions, superseded, expires>>
  BY DEF Start, Goto, dbVars, outVars
<1>2. TypeOK'
  BY <1>1 DEF TypeOK, Admitted
<1>3. step \in {"insert", "invalidate", "commit"}
  BY DEF Admitted, Asks
<1>4. /\ \A q \in Requests \ {r} : pc'[q] = pc[q] /\ ask'[q] = ask[q]
      /\ pc'[r] = step /\ ask'[r] = a
      /\ \A q, s \in Requests : <<q, s>> \in before'
           <=> <<q, s>> \in before \/ (s = r /\ pc[q] = "done")
  BY <1>1 DEF TypeOK
<1>5. Order'
  BY <1>1, <1>3, <1>4 DEF Order
<1>6. Rows'
  BY <1>1, <1>3, <1>4 DEF Rows, Makes, LinkType, TypeOK
<1>7. Accounts'
  BY <1>1, <1>4 DEF Accounts, Registered, Admitted, Rows
<1>8. Targets'
  BY <1>1, <1>4 DEF Targets, Holding, Redeems, LinkType, Admitted
<1>9. Sweeps'
  BY <1>1, <1>3, <1>4 DEF Sweeps, Makes, LinkType, Admitted, TypeOK, Order, Rows
<1>10. OneLiveLink'
  BY <1>1, <1>4 DEF OneLiveLink, SameLink, Rows, TypeOK
<1>11. \A q \in Requests : Redeemed(q)' <=> Redeemed(q)
  BY <1>1, <1>3, <1>4 DEF Redeemed, Redeems
<1>12. HeldAfresh'
  <2> SUFFICES ASSUME NEW q \in Requests, NEW s \in Requests, Redeemed(q), q # r,
                      Holding(s)', <<q, s>> \in before'
               PROVE  ask'[q].token # ask'[s].token
    BY <1>3, <1>4, <1>11 DEF HeldAfresh, Redeemed
  <2>1. CASE s = r
    BY <2>1, <1>3, <1>4 DEF VerifiedByLink, Holding, Redeems, Admitted
  <2>2. CASE s # r
    BY <2>2, <1>4 DEF HeldAfresh, Holding, Redeems
  <2> QED
    BY <2>1, <2>2
<1>13. HeldLatest'
  <2> SUFFICES ASSUME NEW t \in DOMAIN tokens, NEW q \in DOMAIN tokens, NEW s \in Requests,
                      SameLink(t, q), <<t, q>> \in before', <<q, s>> \in before', Holding(s)'
               PROVE  ask'[s].token # t
    BY <1>1 DEF HeldLatest, SameLink
  <2>1. q \in Requests /\ t \in Requests /\ q # r /\ <<t, q>> \in before
    BY <1>1, <1>4 DEF Rows, TypeOK
  <2>2. CASE s = r
    BY <2>1, <2>2, <1>3, <1>4 DEF OneLiveLink, Holding, Redeems, Admitted
  <2>3. CASE s # r
    BY <2>1, <2>3, <1>4 DEF HeldLatest, Holding, Redeems
  <2> QED
    BY <2>2, <2>3
<1>14. SpentForAReason'
  BY <1>1, <1>3, <1>4, <1>11 DEF SpentForAReason, SameLink, Redeemed
<1>15. VerifiedByLink'
  BY <1>1, <1>3, <1>4, <1>11 DEF VerifiedByLink, Redeemed
<1>16. LatestPasswordWins'
  <2>1. \A u \in Users : PasswordSetBy(u)' = PasswordSetBy(u)
    BY <1>1, <1>3, <1>4 DEF PasswordSetBy
  <2>2. \A u \in Users : \A q \in PasswordSetBy(u) : q \in Requests /\ q # r
    BY <1>1 DEF PasswordSetBy
  <2> QED
    BY <2>1, <2>2, <1>1, <1>4 DEF LatestPasswordWins
<1>17. Sessions'
  BY <1>1 DEF Sessions
<1> QED
  BY <1>2, <1>5, <1>6, <1>7, <1>8, <1>9, <1>10, <1>12, <1>13, <1>14, <1>15, <1>16, <1>17
-----------------------------------------------------------------------------
(* Requests on their way.                                                  *)

\* A step that commits nothing keeps the invariant if it keeps the types and
\* what is known of the links to be replaced.
LEMMA InnerKeeps ==
  ASSUME IInv, NEW r \in Requests, NEW to \in {"invalidate", "issue", "commit", "failed"},
         pc[r] \notin {"idle", "done"}, pc' = [pc EXCEPT ![r] = to],
         \/ ask' = ask /\ ~Redeems(r)
         \/ ask' = [ask EXCEPT ![r] = NoAsk] /\ to = "failed",
         \A q \in Requests \ {r} : superseded'[q] = superseded[q],
         UNCHANGED <<dbVars, now, sessions, before>>,
         TypeOK', Sweeps'
  PROVE  IInv'
<1> USE DEF IInv
<1>1. /\ \A q \in Requests \ {r} : pc'[q] = pc[q] /\ ask'[q] = ask[q]
      /\ pc'[r] = to /\ ((ask'[r] = ask[r] /\ ~Redeems(r)) \/ ask'[r] = NoAsk)
      /\ UNCHANGED <<password, verified, tokens, now, sessions, before>>
  BY DEF TypeOK, dbVars
<1>2. Order'
  BY <1>1 DEF Order
<1>3. Rows'
  <2>1. \A t \in Requests : t \in DOMAIN tokens => t # r
    BY DEF Rows
  <2> QED
    BY <2>1, <1>1 DEF Rows, Makes, LinkType, TypeOK
<1>4. Accounts'
  BY <1>1 DEF Accounts, Registered, NoAsk
<1>5. Targets'
  BY <1>1 DEF Targets, Holding, Redeems, LinkType, NoAsk
<1>6. OneLiveLink'
  BY <1>1 DEF OneLiveLink, SameLink
<1>7. \A q \in Requests :
        /\ pc'[q] = "done" <=> pc[q] = "done"
        /\ pc[q] = "done" => ask'[q] = ask[q]
        /\ pc'[q] \in {"commit", "done"} /\ ask'[q].kind \in {"verify", "reset"}
           => ask'[q] = ask[q] /\ pc'[q] = pc[q]
  BY <1>1 DEF Redeems, NoAsk
<1>9. HeldAfresh'
  BY <1>1, <1>7 DEF HeldAfresh, Redeemed, Holding, Redeems
<1>10. HeldLatest'
  BY <1>1, <1>7 DEF HeldLatest, SameLink, Holding, Redeems
<1>11. SpentForAReason'
  <2>1. \A q \in DOMAIN tokens : superseded'[q] = superseded[q]
    BY <1>1 DEF Rows, TypeOK
  <2> QED
    BY <2>1, <1>1, <1>7 DEF SpentForAReason, SameLink, Redeemed, Redeems
<1>12. VerifiedByLink'
  BY <1>1, <1>7 DEF VerifiedByLink, Redeemed, Redeems
<1>13. LatestPasswordWins'
  <2>1. \A u \in Users : PasswordSetBy(u)' = PasswordSetBy(u)
    BY <1>1 DEF PasswordSetBy
  <2>2. \A u \in Users : \A q \in PasswordSetBy(u) : q \in Requests /\ q # r
    BY DEF PasswordSetBy
  <2> QED
    BY <2>1, <2>2, <1>1 DEF LatestPasswordWins
<1>14. Sessions'
  BY <1>1 DEF Sessions
<1> QED
  BY <1>2, <1>3, <1>4, <1>5, <1>6, <1>9, <1>10, <1>11, <1>12, <1>13, <1>14

LEMMA RollbackKeeps ==
  ASSUME IInv, NEW r \in Requests, pc[r] \notin {"idle", "done"}, Rollback(r)
  PROVE  IInv'
<1>1. /\ pc' = [pc EXCEPT ![r] = "failed"] /\ ask' = [ask EXCEPT ![r] = NoAsk]
      /\ superseded' = [superseded EXCEPT ![r] = {}] /\ expires' = [expires EXCEPT ![r] = 0]
      /\ UNCHANGED <<dbVars, outVars, before>>
  BY DEF Rollback, End, Goto
<1>2. TypeOK'
  BY <1>1 DEF IInv, TypeOK, Steps, dbVars, outVars
<1>3. Sweeps'
  BY <1>1 DEF IInv, Sweeps, Makes, LinkType, TypeOK, dbVars
<1>4. \A q \in Requests \ {r} : superseded'[q] = superseded[q]
  BY <1>1 DEF IInv, TypeOK
<1> QED
  BY <1>1, <1>2, <1>3, <1>4, InnerKeeps DEF outVars

LEMMA InsertUserKeeps ==
  ASSUME IInv, NEW r \in Requests, InsertUser(r)
  PROVE  IInv'
<1>1. CASE Registered(ask[r].user)
  BY <1>1, RollbackKeeps DEF InsertUser
<1>2. CASE ~Registered(ask[r].user)
  <2>1. /\ pc[r] = "insert" /\ pc' = [pc EXCEPT ![r] = "invalidate"]
        /\ UNCHANGED <<dbVars, outVars, ask, superseded, expires, before>>
    BY <1>2 DEF InsertUser, Goto
  <2>2. TypeOK'
    BY <2>1 DEF IInv, TypeOK, Steps, dbVars, outVars
  <2>3. Sweeps'
    BY <2>1 DEF IInv, Sweeps, Makes, LinkType, TypeOK, dbVars
  <2>4. ~Redeems(r)
    BY <2>1 DEF IInv, Targets
  <2> QED
    BY <2>1, <2>2, <2>3, <2>4, InnerKeeps DEF outVars
<1> QED
  BY <1>1, <1>2

LEMMA InvalidateKeeps ==
  ASSUME IInv, NEW r \in Requests, Invalidate(r)
  PROVE  IInv'
<1>1. /\ pc[r] = "invalidate" /\ pc' = [pc EXCEPT ![r] = "issue"]
      /\ superseded' = [superseded EXCEPT ![r] = Older(r)]
      /\ UNCHANGED <<dbVars, outVars, ask, expires, before>>
  BY DEF Invalidate, Goto
<1>2. TypeOK'
  BY <1>1 DEF IInv, TypeOK, Steps, Older, dbVars, outVars
<1>3. Sweeps'
  BY <1>1 DEF IInv, Sweeps, Makes, LinkType, TypeOK, Older, dbVars
<1>4. ~Redeems(r)
  BY <1>1 DEF IInv, Targets
<1>5. \A q \in Requests \ {r} : superseded'[q] = superseded[q]
  BY <1>1 DEF IInv, TypeOK
<1> QED
  BY <1>1, <1>2, <1>3, <1>4, <1>5, InnerKeeps DEF outVars

LEMMA IssueKeeps ==
  ASSUME IInv, NEW r \in Requests, Issue(r)
  PROVE  IInv'
<1>1. /\ pc[r] = "issue" /\ pc' = [pc EXCEPT ![r] = "commit"]
      /\ expires' = [expires EXCEPT ![r] = now + Life(LinkType(r))]
      /\ mailbox' \in {mailbox, mailbox \cup {r}}
      /\ UNCHANGED <<dbVars, now, sessions, ask, superseded, before>>
  BY DEF Issue, Delivered, Goto
<1>2. now + Life(LinkType(r)) \in Nat
  BY LifetimesPositive DEF IInv, TypeOK, Life
<1>3. TypeOK'
  BY <1>1, <1>2 DEF IInv, TypeOK, Steps, dbVars
<1>4. Sweeps'
  BY <1>1 DEF IInv, Sweeps, Makes, LinkType, TypeOK, dbVars
<1>5. ~Redeems(r)
  BY <1>1 DEF IInv, Targets
<1> QED
  BY <1>1, <1>3, <1>4, <1>5, InnerKeeps
-----------------------------------------------------------------------------
(* Commits.                                                                *)

\* A new link: the older ones go with it.
LEMMA CommitLinkKeeps ==
  ASSUME IInv, NEW r \in Requests, CommitLink(r)
  PROVE  IInv'
<1> USE DEF IInv
<1> DEFINE row == [user |-> ask[r].user, type |-> LinkType(r),
                   expires |-> expires[r], is_used |-> FALSE]
<1>1. /\ pc[r] = "commit" /\ Makes(r) /\ ~Redeems(r)
      /\ pc' = [pc EXCEPT ![r] = "done"]
      /\ expires' = [expires EXCEPT ![r] = 0]
      /\ UNCHANGED <<verified, now, mailbox, sessions, ask, superseded, before>>
  BY DEF CommitLink, End, Goto, outVars, Makes, Redeems
<1>2. /\ r \notin DOMAIN tokens /\ DOMAIN tokens \subseteq Requests
      /\ DOMAIN tokens' = DOMAIN tokens \cup {r}
      /\ tokens'[r] = row
      /\ \A t \in DOMAIN tokens : t # r /\ tokens'[t] =
           IF t \in superseded[r] THEN [tokens[t] EXCEPT !.is_used = TRUE] ELSE tokens[t]
  BY <1>1 DEF CommitLink, Used, Rows, TypeOK
<1>3. \A t \in DOMAIN tokens :
        /\ tokens'[t] \in TokenRows
        /\ tokens'[t].user = tokens[t].user /\ tokens'[t].type = tokens[t].type
        /\ tokens'[t].is_used <=> tokens[t].is_used \/ t \in superseded[r]
  BY <1>2 DEF TypeOK, TokenRows
<1>4. /\ ask[r].user \in Users /\ row \in TokenRows
      /\ ask[r].kind = "register" => ask[r].password \in Passwords
  BY <1>1 DEF TypeOK, Makes, Asks, NoAsk, LinkType, TokenRows, TokenTypes
<1>5. /\ \A q \in Requests \ {r} : pc'[q] = pc[q]
      /\ pc'[r] = "done"
      /\ password' = IF ask[r].kind = "register"
                     THEN [password EXCEPT ![ask[r].user] = ask[r].password] ELSE password
  BY <1>1 DEF TypeOK, CommitLink
<1>6. TypeOK'
  <2>1. password' \in [Users -> Passwords \cup {NoPassword}]
    BY <1>4, <1>5 DEF TypeOK
  <2>2. DOMAIN tokens' \subseteq Requests /\ \A t \in DOMAIN tokens' : tokens'[t] \in TokenRows
    BY <1>2, <1>3, <1>4
  <2> QED
    BY <2>1, <2>2, <1>1 DEF TypeOK, Steps
<1>7. Order'
  BY <1>1, <1>5 DEF Order
<1>8. Rows'
  BY <1>1, <1>2, <1>3, <1>5 DEF Rows, Makes, LinkType
<1>9. Accounts'
  <2>1. \A u \in Users : Registered(u) => password'[u] # NoPassword
    BY <1>4, <1>5, NoPasswordIsNone DEF Registered, TypeOK
  <2>2. password'[ask[r].user] # NoPassword
    BY <1>1, <1>4, <1>5, NoPasswordIsNone DEF Accounts, Registered, TypeOK, Makes
  <2>3. \A t \in DOMAIN tokens : tokens[t].user \in Users
    BY DEF TypeOK, TokenRows
  <2>4. \A q \in Requests : ask[q].kind \in {"resend", "forgot"} => ask[q].user \in Users
    BY DEF TypeOK, Asks, NoAsk
  <2> QED
    BY <2>1, <2>2, <2>3, <2>4, <1>1, <1>2, <1>3 DEF Accounts, Registered
<1>10. \A q \in Requests : Redeems(q) /\ pc'[q] \in {"commit", "done"} => q # r /\ Holding(q)
  BY <1>1, <1>5 DEF Holding
<1>11. Targets'
  BY <1>1, <1>2, <1>3, <1>5, <1>10 DEF Targets, Holding, Redeems, LinkType
<1>12. Sweeps'
  BY <1>1, <1>2, <1>3, <1>5 DEF Sweeps, Makes, LinkType, Order
<1>13. OneLiveLink'
  BY <1>1, <1>2, <1>3 DEF OneLiveLink, SameLink, Sweeps, Order, LinkType
<1>14. HeldAfresh'
  BY <1>1, <1>5, <1>10 DEF HeldAfresh, Redeemed, Holding, Redeems
<1>15. HeldLatest'
  BY <1>1, <1>2, <1>3, <1>5, <1>10 DEF HeldLatest, SameLink, Holding, Redeems, Order
<1>16. SpentForAReason'
  <2> SUFFICES ASSUME NEW t \in DOMAIN tokens', tokens'[t].is_used,
                      ~ \E q \in DOMAIN tokens' : /\ tokens'[t].user = tokens'[q].user
                                                 /\ tokens'[t].type = tokens'[q].type
                                                 /\ t \in superseded[q]
               PROVE  \E q \in Requests : pc'[q] = "done" /\ Redeems(q) /\ ask[q].token = t
    BY <1>1 DEF SpentForAReason, SameLink, Redeemed, Redeems
  <2>1. t \in DOMAIN tokens /\ t \notin superseded[r]
    BY <1>1, <1>2, <1>3 DEF Sweeps, LinkType
  <2>2. PICK q \in Requests : Redeemed(q) /\ ask[q].token = t
    BY <2>1, <1>2, <1>3 DEF SpentForAReason, SameLink
  <2> QED
    BY <2>2, <1>1, <1>5 DEF Redeemed
<1>17. VerifiedByLink'
  <2>1. \A q \in Requests : pc'[q] = "done" /\ Redeems(q) <=> Redeemed(q)
    BY <1>1, <1>5 DEF Redeemed
  <2>2. \A q \in Requests : Redeemed(q) =>
          /\ ask[q].token \in DOMAIN tokens
          /\ tokens'[ask[q].token].user = tokens[ask[q].token].user
          /\ tokens[ask[q].token].is_used => tokens'[ask[q].token].is_used
    BY <1>3 DEF Targets, Redeemed, Holding
  <2> QED
    BY <2>1, <2>2, <1>1 DEF VerifiedByLink, Redeemed, Redeems
<1>18. LatestPasswordWins'
  <2> SUFFICES ASSUME NEW u \in Users, NEW q \in PasswordSetBy(u)',
                      \A s \in PasswordSetBy(u)' \ {q} : <<s, q>> \in before
               PROVE  password'[u] = ask[q].password
    BY <1>1 DEF LatestPasswordWins
  <2>1. \A s \in Requests : s \in PasswordSetBy(u)' <=>
          s \in PasswordSetBy(u) \/ (s = r /\ ask[r].kind = "register" /\ ask[r].user = u)
    BY <1>1, <1>3, <1>5 DEF PasswordSetBy, Makes, Targets, Holding, Redeems
  <2>2. q \in Requests /\ r \notin PasswordSetBy(u)
    BY <1>1 DEF PasswordSetBy
  <2>3. CASE ask[r].kind = "register" /\ ask[r].user = u
    <3>1. q = r
      BY <2>1, <2>2, <2>3, <1>1 DEF Order
    <3> QED
      BY <3>1, <2>3, <1>5 DEF TypeOK
  <2>4. CASE ~(ask[r].kind = "register" /\ ask[r].user = u)
    <3>1. password'[u] = password[u]
      BY <2>4, <1>5 DEF TypeOK
    <3>2. PasswordSetBy(u)' = PasswordSetBy(u)
      BY <2>1, <2>4 DEF PasswordSetBy
    <3> QED
      BY <3>1, <3>2, <2>2 DEF LatestPasswordWins
  <2> QED
    BY <2>3, <2>4
<1>19. Sessions'
  BY <1>1 DEF Sessions
<1> QED
  BY <1>6, <1>7, <1>8, <1>9, <1>11, <1>12, <1>13, <1>14, <1>15, <1>16, <1>17, <1>18, <1>19

\* A link is redeemed: the address is verified and the link spent.
LEMMA CommitRedeemKeeps ==
  ASSUME IInv, NEW r \in Requests, CommitRedeem(r)
  PROVE  IInv'
<1> USE DEF IInv
<1> DEFINE link == ask[r].token
           owner == tokens[link].user
<1>1. /\ pc[r] = "commit" /\ Redeems(r) /\ Holding(r)
      /\ pc' = [pc EXCEPT ![r] = "done"]
      /\ expires' = [expires EXCEPT ![r] = 0]
      /\ verified' = verified \cup {owner}
      /\ password' = IF ask[r].kind = "reset"
                     THEN [password EXCEPT ![owner] = ask[r].password] ELSE password
      /\ UNCHANGED <<now, mailbox, sessions, ask, superseded, before>>
  BY DEF CommitRedeem, End, Goto, outVars, Holding
<1>2. /\ link \in DOMAIN tokens /\ tokens[link].type = LinkType(r) /\ owner \in Users
      /\ DOMAIN tokens' = DOMAIN tokens /\ DOMAIN tokens \subseteq Requests
      /\ \A t \in DOMAIN tokens : tokens'[t] =
           IF t = link THEN [tokens[t] EXCEPT !.is_used = TRUE] ELSE tokens[t]
  BY <1>1 DEF Targets, CommitRedeem, Used, TypeOK, TokenRows
<1>3. \A t \in DOMAIN tokens :
        /\ tokens'[t] \in TokenRows
        /\ tokens'[t].user = tokens[t].user /\ tokens'[t].type = tokens[t].type
        /\ tokens'[t].is_used <=> tokens[t].is_used \/ t = link
  BY <1>2 DEF TypeOK, TokenRows
<1>4. /\ \A q \in Requests \ {r} : pc'[q] = pc[q]
      /\ pc'[r] = "done"
      /\ ask[r].kind = "reset" => ask[r].password \in Passwords
  BY <1>1 DEF TypeOK, Asks, NoAsk
<1>5. TypeOK'
  <2>1. password' \in [Users -> Passwords \cup {NoPassword}] /\ verified' \subseteq Users
    BY <1>1, <1>2, <1>4 DEF TypeOK
  <2> QED
    BY <2>1, <1>1, <1>2, <1>3 DEF TypeOK, Steps
<1>6. Order'
  BY <1>1, <1>4 DEF Order
<1>7. Rows'
  BY <1>1, <1>2, <1>3, <1>4 DEF Rows, Makes, Redeems, LinkType
<1>8. Accounts'
  <2>1. \A u \in Users : Registered(u) => password'[u] # NoPassword
    BY <1>1, <1>2, <1>4, NoPasswordIsNone DEF Registered, TypeOK
  <2>2. \A t \in DOMAIN tokens : tokens[t].user \in Users
    BY DEF TypeOK, TokenRows
  <2>3. \A q \in Requests : ask[q].kind \in {"resend", "forgot"} => ask[q].user \in Users
    BY DEF TypeOK, Asks, NoAsk
  <2> QED
    BY <2>1, <2>2, <2>3, <1>1, <1>2, <1>3 DEF Accounts, Registered
<1>9. \A q \in Requests : Redeems(q) /\ pc'[q] \in {"commit", "done"} => Holding(q)
  BY <1>1, <1>4 DEF Holding
<1>10. Targets'
  BY <1>1, <1>2, <1>3, <1>4, <1>9 DEF Targets, Holding, Redeems, LinkType
<1>11. Sweeps'
  BY <1>1, <1>2, <1>3, <1>4 DEF Sweeps, Makes, Redeems, LinkType
<1>12. OneLiveLink'
  BY <1>1, <1>2, <1>3 DEF OneLiveLink, SameLink
<1>13. HeldAfresh'
  BY <1>1, <1>4, <1>9 DEF HeldAfresh, Redeemed, Holding, Redeems, Order
<1>14. HeldLatest'
  BY <1>1, <1>2, <1>3, <1>9 DEF HeldLatest, SameLink, Holding, Redeems
<1>15. SpentForAReason'
  <2> SUFFICES ASSUME NEW t \in DOMAIN tokens', tokens'[t].is_used,
                      ~ \E q \in DOMAIN tokens' : /\ tokens'[t].user = tokens'[q].user
                                                 /\ tokens'[t].type = tokens'[q].type
                                                 /\ t \in superseded[q]
               PROVE  \E q \in Requests : pc'[q] = "done" /\ Redeems(q) /\ ask[q].token = t
    BY <1>1 DEF SpentForAReason, SameLink, Redeemed, Redeems
  <2>1. CASE t = link
    BY <2>1, <1>1, <1>4
  <2>2. CASE t # link
    <3>1. PICK q \in Requests : Redeemed(q) /\ ask[q].token = t
      BY <2>2, <1>2, <1>3 DEF SpentForAReason, SameLink
    <3> QED
      BY <3>1, <1>4 DEF Redeemed
  <2> QED
    BY <2>1, <2>2
<1>16. VerifiedByLink'
  <2>1. \A q \in Requests : pc'[q] = "done" /\ Redeems(q) <=> q = r \/ Redeemed(q)
    BY <1>1, <1>4 DEF Redeemed
  <2>2. \A q \in Requests : Redeemed(q) \/ q = r =>
          /\ ask[q].token \in DOMAIN tokens
          /\ tokens'[ask[q].token].user = tokens[ask[q].token].user
          /\ tokens[ask[q].token].is_used \/ q = r => tokens'[ask[q].token].is_used
    BY <1>2, <1>3 DEF Targets, Redeemed, Holding
  <2> QED
    BY <2>1, <2>2, <1>1 DEF VerifiedByLink, Redeemed, Redeems
<1>17. LatestPasswordWins'
  <2> SUFFICES ASSUME NEW u \in Users, NEW q \in PasswordSetBy(u)',
                      \A s \in PasswordSetBy(u)' \ {q} : <<s, q>> \in before
               PROVE  password'[u] = ask[q].password
    BY <1>1 DEF LatestPasswordWins
  <2>1. \A s \in Requests : s \in PasswordSetBy(u)' <=>
          s \in PasswordSetBy(u) \/ (s = r /\ ask[r].kind = "reset" /\ owner = u)
    BY <1>1, <1>2, <1>3, <1>4 DEF PasswordSetBy, Targets, Holding, Redeems
  <2>2. q \in Requests /\ r \notin PasswordSetBy(u)
    BY <1>1 DEF PasswordSetBy
  <2>3. CASE ask[r].kind = "reset" /\ owner = u
    <3>1. q = r
      BY <2>1, <2>2, <2>3, <1>1 DEF Order
    <3> QED
      BY <3>1, <2>3, <1>1 DEF TypeOK
  <2>4. CASE ~(ask[r].kind = "reset" /\ owner = u)
    <3>1. password'[u] = password[u]
      BY <2>4, <1>1 DEF TypeOK
    <3>2. PasswordSetBy(u)' = PasswordSetBy(u)
      BY <2>1, <2>4 DEF PasswordSetBy
    <3> QED
      BY <3>1, <3>2, <2>2 DEF LatestPasswordWins
  <2> QED
    BY <2>3, <2>4
<1>18. Sessions'
  BY <1>1 DEF Sessions
<1> QED
  BY <1>5, <1>6, <1>7, <1>8, <1>10, <1>11, <1>12, <1>13, <1>14, <1>15, <1>16, <1>17, <1>18
-----------------------------------------------------------------------------
(* JWTs and the clock.                                                     *)

\* Whatever leaves the database and the requests alone.
LEMMA OutsideKeeps ==
  ASSUME IInv, UNCHANGED <<dbVars, mailbox, txnVars>>,
         now' \in Nat, sessions' \subseteq JWTs, Sessions'
  PROVE  IInv'
<1> USE DEF IInv
<1>1. UNCHANGED <<password, verified, tokens, mailbox, pc, ask, superseded, expires, before>>
  BY DEF dbVars, txnVars
<1>2. TypeOK'
  BY <1>1 DEF TypeOK
<1>3. Order' /\ Rows' /\ Accounts' /\ Targets' /\ Sweeps'
  BY <1>1 DEF Order, Rows, Accounts, Targets, Sweeps, Holding, Makes, Redeems, LinkType, Registered
<1>4. OneLiveLink' /\ HeldAfresh' /\ HeldLatest' /\ SpentForAReason'
  BY <1>1 DEF OneLiveLink, HeldAfresh, HeldLatest, SpentForAReason, SameLink, Redeemed, Holding,
              Redeems
<1>5. VerifiedByLink'
  BY <1>1 DEF VerifiedByLink, Redeemed, Redeems
<1>6. LatestPasswordWins'
  BY <1>1 DEF LatestPasswordWins, PasswordSetBy
<1> QED
  BY <1>2, <1>3, <1>4, <1>5, <1>6

LEMMA IssueTokensKeeps ==
  ASSUME IInv, NEW u \in verified, IssueTokens(u), UNCHANGED <<dbVars, now, mailbox, txnVars>>
  PROVE  IInv'
<1>1. /\ now \in Nat /\ now + AccessLife \in Nat /\ now + RefreshLife \in Nat
      /\ now + AccessLife >= now /\ now + RefreshLife >= now /\ u \in Users
  BY LifetimesPositive DEF IInv, TypeOK
<1>2. sessions' \subseteq JWTs
  BY <1>1 DEF IInv, TypeOK, IssueTokens, JWTs
<1>3. Sessions'
  BY <1>1 DEF IInv, Sessions, IssueTokens, dbVars
<1> QED
  BY <1>1, <1>2, <1>3, OutsideKeeps

LEMMA TickKeeps ==
  ASSUME IInv, Tick
  PROVE  IInv'
<1>1. now' \in Nat /\ sessions' \subseteq JWTs
  BY DEF IInv, TypeOK, Tick
<1>2. Sessions'
  BY DEF IInv, Sessions, Tick, dbVars
<1> QED
  BY <1>1, <1>2, OutsideKeeps DEF Tick
-----------------------------------------------------------------------------
(* The invariant.                                                          *)

LEMMA StepKeeps == IInv /\ [Next]_vars => IInv'
<1> SUFFICES ASSUME IInv, [Next]_vars PROVE IInv'
  OBVIOUS
<1>1. ASSUME NEW r \in Requests, NEW u \in Users, NEW p \in Passwords, Register(r, u, p)
      PROVE  IInv'
  <2> DEFINE a == [kind |-> "register", user |-> u, password |-> p]
  <2>1. Admitted(a, "insert")
    BY DEF Admitted, Asks
  <2> QED
    BY <1>1, <2>1, StartKeeps DEF Register, Steps
<1>2. ASSUME NEW r \in Requests, NEW u \in Users, ResendVerification(r, u)
      PROVE  IInv'
  <2> DEFINE a == [kind |-> "resend", user |-> u]
  <2>1. Admitted(a, "invalidate")
    BY <1>2 DEF Admitted, Asks, ResendVerification
  <2> QED
    BY <1>2, <2>1, StartKeeps DEF ResendVerification, Steps
<1>3. ASSUME NEW r \in Requests, NEW u \in Users, ForgotPassword(r, u)
      PROVE  IInv'
  <2> DEFINE a == [kind |-> "forgot", user |-> u]
  <2>1. Admitted(a, "invalidate")
    BY <1>3 DEF Admitted, Asks, ForgotPassword
  <2> QED
    BY <1>3, <2>1, StartKeeps DEF ForgotPassword, Steps
<1>4. ASSUME NEW r \in Requests, NEW t \in mailbox, VerifyEmail(r, t)
      PROVE  IInv'
  <2> DEFINE a == [kind |-> "verify", token |-> t]
  <2>1. Admitted(a, "commit")
    BY <1>4 DEF Admitted, Asks, VerifyEmail, Valid, IInv, TypeOK
  <2> QED
    BY <1>4, <2>1, StartKeeps DEF VerifyEmail, Steps
<1>5. ASSUME NEW r \in Requests, NEW t \in mailbox, NEW p \in Passwords, ResetPassword(r, t, p)
      PROVE  IInv'
  <2> DEFINE a == [kind |-> "reset", token |-> t, password |-> p]
  <2>1. Admitted(a, "commit")
    BY <1>5 DEF Admitted, Asks, ResetPassword, Valid, IInv, TypeOK
  <2> QED
    BY <1>5, <2>1, StartKeeps DEF ResetPassword, Steps
<1>6. ASSUME NEW r \in Requests, Step(r)
      PROVE  IInv'
  BY <1>6, InsertUserKeeps, InvalidateKeeps, IssueKeeps, CommitLinkKeeps, CommitRedeemKeeps
  DEF Step
<1>7. ASSUME NEW r \in Requests, Crash(r)
      PROVE  IInv'
  BY <1>7, RollbackKeeps DEF Crash, Underway
<1>8. ASSUME NEW u \in Users, NEW p \in Passwords, Login(u, p)
      PROVE  IInv'
  BY <1>8, IssueTokensKeeps DEF Login, MayLogin
<1>9. ASSUME NEW s \in sessions, Refresh(s)
      PROVE  IInv'
  <2>1. s.user \in verified
    BY DEF IInv, Sessions
  <2> QED
    BY <1>9, <2>1, IssueTokensKeeps DEF Refresh
<1>10. CASE Tick
  BY <1>10, TickKeeps
<1>11. CASE UNCHANGED vars
  <2>1. UNCHANGED <<dbVars, mailbox, txnVars, now, sessions, verified>>
    BY <1>11 DEF vars, outVars, dbVars
  <2>2. now' \in Nat /\ sessions' \subseteq JWTs /\ Sessions'
    BY <2>1 DEF IInv, TypeOK, Sessions
  <2> QED
    BY <2>1, <2>2, OutsideKeeps
<1> QED
  BY <1>1, <1>2, <1>3, <1>4, <1>5, <1>6, <1>7, <1>8, <1>9, <1>10, <1>11 DEF Next

LEMMA Invariance == Spec => []IInv
  BY InitHolds, StepKeeps, PTL DEF Spec

\* What the invariant says once a request is through.
LEMMA Consequences ==
  IInv => /\ TypeOK /\ OneLiveLink /\ SingleUseInSequence /\ SupersededIsDead
          /\ SpentForAReason /\ VerifiedByLink /\ LatestPasswordWins /\ SessionsOnlyForVerified
<1> SUFFICES ASSUME IInv
             PROVE  SingleUseInSequence /\ SupersededIsDead /\ SessionsOnlyForVerified
  BY DEF IInv
<1>1. \A r \in Requests : Redeemed(r) => Holding(r)
  BY DEF Redeemed, Holding
<1>2. SingleUseInSequence /\ SupersededIsDead
  BY <1>1 DEF IInv, HeldAfresh, HeldLatest, SingleUseInSequence, SupersededIsDead
<1>3. ASSUME NEW u \in verified PROVE Registered(u)
  <2>1. u \in Users
    BY DEF IInv, TypeOK
  <2>2. PICK r \in Requests : Redeemed(r) /\ tokens[ask[r].token].user = u
    BY <2>1 DEF IInv, VerifiedByLink
  <2> QED
    BY <2>2, <1>1 DEF IInv, Accounts, Targets
<1>4. SessionsOnlyForVerified
  BY <1>3 DEF IInv, Sessions, SessionsOnlyForVerified, Authenticates
<1> QED
  BY <1>2, <1>4
-----------------------------------------------------------------------------
(* The theorems.                                                           *)

\* Columns, queues and JWTs hold what they are declared to hold; an expiry is
\* never negative.
THEOREM TypeCorrect == Spec => []TypeOK
  BY Invariance, Consequences, PTL

\* create_token: of two links for one purpose the one committed before the other
\* was asked for is spent, whatever else runs at the time.
THEOREM OldLinksSpent == Spec => []OneLiveLink
  BY Invariance, Consequences, PTL

\* get_valid_token and consume_token: two requests that do not overlap never
\* redeem the same link.  (Two that overlap do: see SingleUse.)
THEOREM RedeemedOnceInSequence == Spec => []SingleUseInSequence
  BY Invariance, Consequences, PTL

\* create_token: a link that was replaced is not redeemed by a later request.
THEOREM ReplacedNeverRedeemed == Spec => []SupersededIsDead
  BY Invariance, Consequences, PTL

\* create_token and consume_token: a link is spent by who redeems it or by a
\* newer one of its user and type, whose committed request has found it in the
\* table, and by nothing else.
THEOREM NeverSpentByOthers == Spec => []SpentForAReason
  BY Invariance, Consequences, PTL

\* verify_email and reset_password: verified means redeemed, and redeemed means
\* verified and spent.
THEOREM VerifiedOnlyByLink == Spec => []VerifiedByLink
  BY Invariance, Consequences, PTL

\* register and reset_password: the last password set is the one that counts.
THEOREM LastPasswordCounts == Spec => []LatestPasswordWins
  BY Invariance, Consequences, PTL

\* login and refresh: a JWT implies a verified account, however it was renewed.
THEOREM SessionsVerified == Spec => []SessionsOnlyForVerified
  BY Invariance, Consequences, PTL
=============================================================================
