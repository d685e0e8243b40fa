----------------------------- MODULE AuthTokens -----------------------------
(***************************************************************************)
(* Accounts and the links mailed for them: registration, verification of   *)
(* the address, reset of the password, login and its JWTs.  Every request  *)
(* is a transaction of its own (get_db), one SQL statement per step, on    *)
(* READ COMMITTED: a statement sees what is committed when it runs, the    *)
(* request's own writes become visible when it commits.  A mail goes out   *)
(* before the commit, so it may carry a link whose row never comes.        *)
(*                                                                         *)
(* Row locks are left out, except the one of the unique e-mail index: the  *)
(* others only order writers that do not read what they overwrite, and the *)
(* order of the commits is that order.  is_active is left out: no code     *)
(* ever clears it.  Password hashing is left out: a password matches the   *)
(* hash made of it and no other.                                           *)
(***************************************************************************)
EXTENDS Integers

CONSTANTS
  Users,        \* one account per e-mail address at most
  Passwords,
  NoPassword,   \* stands for: there is no account
  Requests,     \* bound: the requests made; a link has its request's id
  VerifyLife, ResetLife,    \* lifetime of the links, in ticks of the clock
  AccessLife, RefreshLife,  \* lifetime of the JWTs
  MaxTime       \* bound on the clock

ASSUME NoPasswordIsNone == NoPassword \notin Passwords
ASSUME LifetimesPositive ==
  {VerifyLife, ResetLife, AccessLife, RefreshLife} \subseteq Nat \ {0}

VARIABLES
  \* committed state
  password,    \* users.password_hash, by e-mail address
  verified,    \* the users with is_email_verified
  tokens,      \* user_tokens, by the request that created the row
  \* outside the database
  now,         \* the clock
  mailbox,     \* links in mails that arrived
  sessions,    \* JWTs that have not expired
  \* per request
  pc,          \* the statement to run next
  ask,         \* the request
  superseded,  \* the rows its UPDATE of older links matched; history once it
               \* has committed
  expires,     \* expires_at of the row it inserts
  \* history
  before       \* <<r, s>>: r had committed when s started

dbVars  == <<password, verified, tokens>>
outVars == <<now, mailbox, sessions>>
txnVars == <<pc, ask, superseded, expires, before>>
vars    == <<dbVars, outVars, txnVars>>

TokenTypes == {"EMAIL_VERIFICATION", "PASSWORD_RESET"}

TokenRows == [user : Users, type : TokenTypes, expires : Nat, is_used : BOOLEAN]

JWTs == [user : Users, type : {"access", "refresh"}, expires : Nat]

\* What the routes under /auth that write accept.
Asks ==
  [kind : {"register"}, user : Users, password : Passwords]
  \cup [kind : {"resend", "forgot"}, user : Users]
  \cup [kind : {"verify"}, token : Requests]
  \cup [kind : {"reset"}, token : Requests, password : Passwords]

Steps == {"idle", "insert", "invalidate", "issue", "commit", "done", "failed"}

NoAsk == [kind |-> "none"]

Makes(r)   == ask[r].kind \in {"register", "resend", "forgot"}
Redeems(r) == ask[r].kind \in {"verify", "reset"}

\* The type of the link a request creates or redeems.
LinkType(r) == IF ask[r].kind \in {"forgot", "reset"} THEN "PASSWORD_RESET"
                                                      ELSE "EMAIL_VERIFICATION"

Registered(u) == password[u] # NoPassword

Underway(r) == pc[r] \notin {"idle", "done", "failed"}

Init ==
  /\ password = [u \in Users |-> NoPassword]
  /\ verified = {}
  /\ tokens = [r \in {} |-> 0]
  /\ now = 0
  /\ mailbox = {}
  /\ sessions = {}
  /\ pc = [r \in Requests |-> "idle"]
  /\ ask = [r \in Requests |-> NoAsk]
  /\ superseded = [r \in Requests |-> {}]
  /\ expires = [r \in Requests |-> 0]
  /\ before = {}
-----------------------------------------------------------------------------
(* How a request moves.                                                    *)

Goto(r, step) == pc' = [pc EXCEPT ![r] = step]

\* The first SELECT of the handler lets the request through to the given step.
\* (A request that its SELECT turns away leaves no trace: it is no step.)
Start(r, a, step) ==
  /\ pc[r] = "idle"
  /\ ask' = [ask EXCEPT ![r] = a]
  /\ before' = before \cup {<<s, r>> : s \in {q \in Requests : pc[q] = "done"}}
  /\ Goto(r, step)
  /\ UNCHANGED <<dbVars, outVars, superseded, expires>>

\* The transaction ends, committed or rolled back.
End(r, how) ==
  /\ Goto(r, how)
  /\ expires' = [expires EXCEPT ![r] = 0]
  /\ UNCHANGED before

\* The rows of user_tokens after is_used was set in those of S.
Used(S) == [t \in DOMAIN tokens |->
              IF t \in S THEN [tokens[t] EXCEPT !.is_used = TRUE] ELSE tokens[t]]

\* Mutant of Rollback: create_token's UPDATE is not undone.
RollbackButUpdate(r) ==
  /\ End(r, "failed")
  /\ ask' = [ask EXCEPT ![r] = NoAsk]
  /\ superseded' = [superseded EXCEPT ![r] = {}]
  /\ tokens' = Used(superseded[r])
  /\ UNCHANGED <<password, verified, outVars>>

Rollback(r) ==
  /\ End(r, "failed")
  /\ ask' = [ask EXCEPT ![r] = NoAsk]
  /\ superseded' = [superseded EXCEPT ![r] = {}]
  /\ UNCHANGED <<dbVars, outVars>>
-----------------------------------------------------------------------------
(* The first SELECT of each handler.                                       *)

\* The address is free.
Register(r, u, p) ==
  /\ ~Registered(u)
  /\ Start(r, [kind |-> "register", user |-> u, password |-> p], "insert")

\* An unknown or a verified address gets an answer and no mail.
ResendVerification(r, u) ==
  /\ Registered(u) /\ u \notin verified
  /\ Start(r, [kind |-> "resend", user |-> u], "invalidate")

\* An unknown address gets an answer and no mail.
ForgotPassword(r, u) ==
  /\ Registered(u)
  /\ Start(r, [kind |-> "forgot", user |-> u], "invalidate")

\* Mutant of Valid: is_used is not looked at.
ValidAgain(t, type) ==
  t \in DOMAIN tokens /\ tokens[t].type = type /\ tokens[t].expires > now

\* get_valid_token: the value, the type, not used, not expired.
Valid(t, type) ==
  /\ t \in DOMAIN tokens
  /\ tokens[t].type = type
  /\ ~tokens[t].is_used
  /\ tokens[t].expires > now

\* Links are redeemed by who has the mail.
VerifyEmail(r, t) ==
  /\ t \in mailbox /\ Valid(t, "EMAIL_VERIFICATION")
  /\ Start(r, [kind |-> "verify", token |-> t], "commit")

ResetPassword(r, t, p) ==
  /\ t \in mailbox /\ Valid(t, "PASSWORD_RESET")
  /\ Start(r, [kind |-> "reset", token |-> t, password |-> p], "commit")
-----------------------------------------------------------------------------
(* The writes before the commit.                                           *)

\* register's INSERT waits for an open transaction that inserted the same
\* address, and violates the unique index if that one commits.
InsertUser(r) ==
  /\ pc[r] = "insert"
  /\ \A s \in Requests :
       pc[s] \in {"invalidate", "issue", "commit"} /\ ask[s].kind = "register"
       => ask[s].user # ask[r].user
  /\ IF Registered(ask[r].user) THEN Rollback(r)
     ELSE /\ Goto(r, "invalidate")
          /\ UNCHANGED <<dbVars, outVars, ask, superseded, expires, before>>

\* Mutant of Older: only links that have expired are swept.
OlderExpired(r) == {t \in DOMAIN tokens : /\ tokens[t].user = ask[r].user
                                          /\ tokens[t].type = LinkType(r)
                                          /\ ~tokens[t].is_used
                                          /\ tokens[t].expires <= now}

\* create_token's UPDATE: the rows of the user and type that are not used yet.
Older(r) == {t \in DOMAIN tokens : /\ tokens[t].user = ask[r].user
                                   /\ tokens[t].type = LinkType(r)
                                   /\ ~tokens[t].is_used}

Invalidate(r) ==
  /\ pc[r] = "invalidate"
  /\ superseded' = [superseded EXCEPT ![r] = Older(r)]
  /\ Goto(r, "issue")
  /\ UNCHANGED <<dbVars, outVars, ask, expires, before>>

\* Mutant of Life: the delta is subtracted.
LifeBackwards(type) == IF type = "PASSWORD_RESET" THEN -ResetLife ELSE -VerifyLife

Life(type) == IF type = "PASSWORD_RESET" THEN ResetLife ELSE VerifyLife

\* The mail gets through or is lost; the handler does not learn which.
Delivered(r) == {mailbox, mailbox \cup {r}}

\* create_token's INSERT, and then the mail.
Issue(r) ==
  /\ pc[r] = "issue"
  /\ expires' = [expires EXCEPT ![r] = now + Life(LinkType(r))]
  /\ mailbox' \in Delivered(r)
  /\ Goto(r, "commit")
  /\ UNCHANGED <<dbVars, now, sessions, ask, superseded, before>>
-----------------------------------------------------------------------------
(* The commits.                                                            *)

\* register, resend_verification and forgot_password.
CommitLink(r) ==
  /\ pc[r] = "commit" /\ Makes(r)
  /\ tokens' = [t \in DOMAIN tokens \cup {r} |->
       IF t = r THEN [user |-> ask[r].user, type |-> LinkType(r),
                      expires |-> expires[r], is_used |-> FALSE]
       ELSE Used(superseded[r])[t]]
  /\ password' = IF ask[r].kind = "register"
                 THEN [password EXCEPT ![ask[r].user] = ask[r].password]
                 ELSE password
  /\ End(r, "done")
  /\ UNCHANGED <<verified, outVars, ask, superseded>>

\* Mutant of CommitRedeem: a reset sets the password and leaves is_email_verified.
CommitRedeemUnverified(r) ==
  /\ pc[r] = "commit" /\ Redeems(r)
  /\ LET u == tokens[ask[r].token].user
     IN  IF ask[r].kind = "reset"
         THEN password' = [password EXCEPT ![u] = ask[r].password] /\ UNCHANGED verified
         ELSE verified' = verified \cup {u} /\ UNCHANGED password
  /\ tokens' = Used({ask[r].token})
  /\ End(r, "done")
  /\ UNCHANGED <<outVars, ask, superseded>>

\* Mutant of CommitRedeem: who is verified keeps the password.
CommitRedeemFirstOnly(r) ==
  /\ pc[r] = "commit" /\ Redeems(r)
  /\ LET u == tokens[ask[r].token].user
     IN  /\ verified' = verified \cup {u}
         /\ password' = IF ask[r].kind = "reset" /\ u \notin verified
                        THEN [password EXCEPT ![u] = ask[r].password]
                        ELSE password
  /\ tokens' = Used({ask[r].token})
  /\ End(r, "done")
  /\ UNCHANGED <<outVars, ask, superseded>>

\* verify_email and reset_password: consume_token does not look again.
CommitRedeem(r) ==
  /\ pc[r] = "commit" /\ Redeems(r)
  /\ LET u == tokens[ask[r].token].user
     IN  /\ verified' = verified \cup {u}
         /\ password' = IF ask[r].kind = "reset"
                        THEN [password EXCEPT ![u] = ask[r].password]
                        ELSE password
  /\ tokens' = Used({ask[r].token})
  /\ End(r, "done")
  /\ UNCHANGED <<outVars, ask, superseded>>

\* The handler raises, the commit fails or the process dies.
Crash(r) == Underway(r) /\ Rollback(r)
-----------------------------------------------------------------------------
(* JWTs: nothing is stored, so nothing revokes one.                        *)

IssueTokens(u) ==
  sessions' = sessions \cup {[user |-> u, type |-> "access", expires |-> now + AccessLife],
                             [user |-> u, type |-> "refresh", expires |-> now + RefreshLife]}

\* Mutant of MayLogin: the block of unverified users is gone.
MayLoginUnverified(u, p) == Registered(u) /\ password[u] = p

\* login's checks: the password, and that the address was verified.
MayLogin(u, p) == Registered(u) /\ password[u] = p /\ u \in verified

Login(u, p) ==
  /\ MayLogin(u, p)
  /\ IssueTokens(u)
  /\ UNCHANGED <<dbVars, now, mailbox, txnVars>>

\* refresh reads the JWT and no row.
Refresh(s) ==
  /\ s.type = "refresh"
  /\ IssueTokens(s.user)
  /\ UNCHANGED <<dbVars, now, mailbox, txnVars>>

\* get_current_user: the JWT is accepted and its user exists.
Authenticates(s) == s.type = "access" /\ s.expires >= now /\ Registered(s.user)

\* python-jose accepts a JWT until the end of the second it expires in.
Tick ==
  /\ now < MaxTime
  /\ now' = now + 1
  /\ sessions' = {s \in sessions : s.expires >= now'}
  /\ UNCHANGED <<dbVars, mailbox, txnVars>>

Step(r) ==
  InsertUser(r) \/ Invalidate(r) \/ Issue(r) \/ CommitLink(r) \/ CommitRedeem(r)

Next ==
  \/ \E r \in Requests, u \in Users :
       \/ \E p \in Passwords : Register(r, u, p)
       \/ ResendVerification(r, u)
       \/ ForgotPassword(r, u)
  \/ \E r \in Requests, t \in mailbox :
       \/ VerifyEmail(r, t)
       \/ \E p \in Passwords : ResetPassword(r, t, p)
  \/ \E r \in Requests : Step(r) \/ Crash(r)
  \/ \E u \in Users, p \in Passwords : Login(u, p)
  \/ \E s \in sessions : Refresh(s)
  \/ Tick

Spec == Init /\ [][Next]_vars
-----------------------------------------------------------------------------
(* Properties.                                                             *)

TypeOK ==
  /\ password \in [Users -> Passwords \cup {NoPassword}]
  /\ verified \subseteq Users
  /\ DOMAIN tokens \subseteq Requests
  /\ \A t \in DOMAIN tokens : tokens[t] \in TokenRows
  /\ now \in Nat
  /\ mailbox \subseteq Requests
  /\ sessions \subseteq JWTs
  /\ pc \in [Requests -> Steps]
  /\ ask \in [Requests -> Asks \cup {NoAsk}]
  /\ superseded \in [Requests -> SUBSET Requests]
  /\ expires \in [Requests -> Nat]
  /\ before \subseteq Requests \X Requests

Redeemed(r) == pc[r] = "done" /\ Redeems(r)

SameLink(t, q) == tokens[t].user = tokens[q].user /\ tokens[t].type = tokens[q].type

\* create_token invalidates the older links: of two links for the same purpose,
\* the one committed before the other was asked for is spent.  (Two that are
\* asked for at the same time may both live.)
OneLiveLink ==
  \A t, q \in DOMAIN tokens :
    SameLink(t, q) /\ <<t, q>> \in before => tokens[t].is_used

\* A link is redeemed once, unless two requests redeem it at the same time.
SingleUseInSequence ==
  \A r, s \in Requests :
    Redeemed(r) /\ Redeemed(s) /\ <<r, s>> \in before => ask[r].token # ask[s].token

\* Who asked for a new link and got it cannot be surprised by the old one: a
\* request that starts after the new link was committed does not redeem a link
\* committed before the new one was asked for.
SupersededIsDead ==
  \A t, q \in DOMAIN tokens : \A r \in Requests :
    SameLink(t, q) /\ <<t, q>> \in before /\ <<q, r>> \in before /\ Redeemed(r)
    => ask[r].token # t

\* A link dies for a reason: it was redeemed, or a newer one of the same user
\* and type has replaced it, one that is committed and whose request found the
\* older one in the table.  No rolled-back request, no older link and no other
\* user spends it, and none is born used.
SpentForAReason ==
  \A t \in DOMAIN tokens : tokens[t].is_used =>
    \/ \E r \in Requests : Redeemed(r) /\ ask[r].token = t
    \/ \E q \in DOMAIN tokens : SameLink(t, q) /\ t \in superseded[q]

\* Redeeming is all or nothing: an address is verified if and only if a link
\* mailed to it was redeemed, and the link is spent with it.
VerifiedByLink ==
  /\ \A u \in Users : u \in verified <=>
       \E r \in Requests : Redeemed(r) /\ tokens[ask[r].token].user = u
  /\ \A r \in Requests : Redeemed(r) => tokens[ask[r].token].is_used

\* The committed requests that set the password of u.
PasswordSetBy(u) ==
  {r \in Requests : /\ pc[r] = "done"
                    /\ \/ ask[r].kind = "register" /\ ask[r].user = u
                       \/ ask[r].kind = "reset" /\ tokens[ask[r].token].user = u}

\* The password is the one chosen last: no verification, login or older reset
\* puts another one back.
LatestPasswordWins ==
  \A u \in Users : \A r \in PasswordSetBy(u) :
    (\A s \in PasswordSetBy(u) \ {r} : <<s, r>> \in before) => password[u] = ask[r].password

\* Only who verified the address holds a JWT, and an access JWT works until it
\* expires; register, which makes JWTs for an unverified user, hands none out.
\* (endpoints/auth.py:37 says "User must verify email before logging in."; the
\* integration tests say otherwise: see LoginAfterRegister.)
SessionsOnlyForVerified ==
  \A s \in sessions : s.user \in verified /\ (s.type = "access" => Authenticates(s))
-----------------------------------------------------------------------------
(* What the repository says and the code does not do.                      *)

\* consume_token, token_repository.py:71 "Mark a token as used - single-use
\* enforcement.": one reset link sets the password once.
SingleUse ==
  \A r, s \in Requests :
    Redeemed(r) /\ Redeemed(s) /\ r # s /\ ask[r].kind = "reset"
    => ask[r].token # ask[s].token

\* test_login_success (tests/integration/test_auth.py:32-42) registers, logs in
\* with the same password and expects JWTs: an account can log in at once.
LoginAfterRegister == \A u \in Users : Registered(u) => MayLogin(u, password[u])
=============================================================================
