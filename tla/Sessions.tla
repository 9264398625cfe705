------------------------------ MODULE Sessions ------------------------------
(***************************************************************************)
(* Sign-in state of the accounts: AuthService with its repositories, the    *)
(* routes of routers/auth.py and the ban of routers/admin.py.               *)
(*                                                                          *)
(* A request is two steps: it reads and decides (Login, Refresh, ...) and   *)
(* later commits (CommitLogin, CommitRotate, ...), so what it decided on may *)
(* be stale when it writes.  A bulk UPDATE ... WHERE is evaluated with the   *)
(* commit it belongs to: a request that reads between the two sees what it   *)
(* would have seen just before.                                             *)
(*                                                                          *)
(* Passwords are not kept: a client presents the right one or a wrong one.  *)
(* Access tokens are not kept either: the user of a device may send an       *)
(* authenticated request at any time.                                        *)
(***************************************************************************)
EXTENDS Naturals, Sequences

CONSTANTS
    Users, Devices, Calls,
    NoDevice,
    MaxTokens,        \* refresh tokens ever created (bound)
    MaxLetters,       \* verification and reset tokens ever mailed (bound)
    MaxRequests,      \* requests ever sent (bound)
    LockAfter         \* failed logins that lock an account (5 in the code)

ASSUME SessionsAssumption ==
    /\ NoDevice \notin Devices
    /\ MaxTokens \in Nat
    /\ MaxLetters \in Nat
    /\ MaxRequests \in Nat
    /\ LockAfter \in Nat \ {0}

VARIABLES
    account,      \* users and user_credentials: a record per user
    tokens,       \* refresh_tokens, in the order they were committed
    letters,      \* email_verification_tokens and password_reset_tokens
    cookie,       \* the refresh cookie of each device, 0 when it has none
    calls,        \* the requests in progress and what they read
    sent,         \* how many requests were sent
    condemned,    \* history: tokens that existed when they were revoked on purpose
    spent,        \* history: letters that existed when one of their kind was used
    lost          \* history: devices that missed the answer to a refresh

sessionVars == <<account, tokens, letters, cookie, calls, sent, condemned,
                 spent, lost>>

Kinds == {"verify", "reset"}
Locks == {"none", "held", "over"}

Accounts == [exists: BOOLEAN, verified: BOOLEAN, banned: BOOLEAN,
             failures: 0 .. LockAfter, lock: Locks]
\* The code looks at revoked_at and consumed_at first: a revoked token or a
\* consumed letter may be expired as well.  The branch is history: successors
\* follow each other on one, and the table does not hold it.
RefreshTokens == [user: Users, family: 1 .. MaxTokens, branch: 1 .. MaxTokens,
                  state: {"live", "expired", "revoked"}]
Letters == [user: Users, kind: Kinds, state: {"fresh", "expired", "consumed"}]

NewAccount == [exists |-> FALSE, verified |-> FALSE, banned |-> FALSE,
               failures |-> 0, lock |-> "none"]

Writing == {"register", "login", "fail", "rotate", "reuse", "refused", "expired",
            "logout", "logout_all", "verify", "reset", "change", "ban", "unban"}
Mailing == {"mail_verify", "mail_reset"}

\* The operations whose writes depend on the account as it was loaded.
WithAccount == {"login", "fail", "reset", "change", "ban", "unban"}

\* A request in progress: what it will commit, for whom, the token or letter
\* it was given, whether a token to rotate was revoked when it was read
\* (history), and the account as it loaded it.
Requests == [op: Writing \cup Mailing \cup {"idle"}, device: Devices \cup {NoDevice},
             user: Users, item: 0 .. (MaxTokens + MaxLetters), dead: BOOLEAN,
             loaded: Accounts]

SessionsTypeOK ==
    /\ account \in [Users -> Accounts]
    /\ tokens \in Seq(RefreshTokens) /\ Len(tokens) <= MaxTokens
    /\ letters \in Seq(Letters) /\ Len(letters) <= MaxLetters
    /\ cookie \in [Devices -> 0 .. MaxTokens]
    /\ calls \in [Calls -> Requests]
    /\ sent \in 0 .. MaxRequests
    /\ condemned \subseteq DOMAIN tokens
    /\ spent \subseteq DOMAIN letters
    /\ lost \subseteq Devices

-----------------------------------------------------------------------------
(* The repositories' writes, as functions of the table they change.         *)

NewToken(u, f, b) == [user |-> u, family |-> f, branch |-> b, state |-> "live"]

CreateToken(u, f) == Append(tokens, NewToken(u, f, f))

NewFamily == Len(tokens) + 1

OfUser(u) == {t \in DOMAIN tokens : tokens[t].user = u}
OfFamily(f) == {t \in DOMAIN tokens : tokens[t].family = f}

\* Revoking leaves an earlier revocation as it is.
Revoke(S) == [t \in DOMAIN tokens |->
                 [tokens[t] EXCEPT !.state = IF t \in S THEN "revoked" ELSE @]]
\* Mutant: only the newest token is revoked.
RevokeNewestOfUser(u) ==
    Revoke({t \in OfUser(u) : \A s \in OfUser(u) : s <= t})

RevokeAllForUser(u) == Revoke(OfUser(u))
RevokeFamily(f) == Revoke(OfFamily(f))

CreateLetter(u, k) == Append(letters, [user |-> u, kind |-> k, state |-> "fresh"])

OfKind(u, k) == {l \in DOMAIN letters : letters[l].user = u /\ letters[l].kind = k}

\* Mutant: only the newest letter is used up.
ConsumeNewest(S) == [l \in DOMAIN letters |->
    [letters[l] EXCEPT !.state = IF l \in S /\ \A m \in S : m <= l
                                 THEN "consumed" ELSE @]]

Consume(S) == [l \in DOMAIN letters |->
                  [letters[l] EXCEPT !.state = IF l \in S THEN "consumed" ELSE @]]
ConsumeVerificationTokens(u) == Consume(OfKind(u, "verify"))
ConsumeResetTokens(u) == Consume(OfKind(u, "reset"))

-----------------------------------------------------------------------------
(* What a request decides from what it reads; "none" changes nothing.       *)

Allowed(u) == account[u].exists /\ ~account[u].banned

DecideLogin(u, right) ==
    IF ~account[u].exists \/ account[u].lock = "held" \/ account[u].banned
    THEN "none"
    ELSE IF right THEN "login" ELSE "fail"

\* Mutant: revocation is not looked at.
DecideRefreshBlindly(t) ==
    IF ~Allowed(tokens[t].user) THEN "refused"
    ELSE IF tokens[t].state = "expired" THEN "expired" ELSE "rotate"

DecideRefresh(t) ==
    CASE tokens[t].state = "revoked" -> "reuse"
      [] tokens[t].state = "expired" -> "expired"
      [] tokens[t].state = "live" ->
            IF Allowed(tokens[t].user) THEN "rotate" ELSE "refused"

DecideLogout(t) == IF tokens[t].state = "revoked" THEN "none" ELSE "logout"

Usable(l, k) == letters[l].kind = k /\ letters[l].state = "fresh"

DecideResend(u) ==
    IF Allowed(u) /\ ~account[u].verified THEN "mail_verify" ELSE "none"

DecideResetRequest(u) == IF Allowed(u) THEN "mail_reset" ELSE "none"

-----------------------------------------------------------------------------
(* The first step of a request.                                             *)

Begin(c, op, d, u, i) ==
    /\ calls[c].op = "idle"
    /\ op # "none"
    /\ sent < MaxRequests
    /\ sent' = sent + 1
    /\ calls' = [calls EXCEPT ![c] = [op |-> op, device |-> d, user |-> u, item |-> i,
                     dead |-> op = "rotate" /\ tokens[i].state = "revoked",
                     loaded |-> IF op \in WithAccount THEN account[u] ELSE NewAccount]]
    /\ UNCHANGED <<account, tokens, letters, cookie, condemned, spent, lost>>

\* The e-mail or the name is taken, or nobody has it yet.
Register(c, d, u) ==
    /\ ~account[u].exists
    /\ Begin(c, "register", d, u, 0)

Login(c, d, u, right) == Begin(c, DecideLogin(u, right), d, u, 0)

Refresh(c, d) ==
    /\ cookie[d] # 0
    /\ Begin(c, DecideRefresh(cookie[d]), d, tokens[cookie[d]].user, cookie[d])

\* Without a token, or with a revoked one, only the cookie is cleared.
Logout(c, d) ==
    /\ cookie[d] # 0
    /\ Begin(c, DecideLogout(cookie[d]), d, tokens[cookie[d]].user, cookie[d])

LogoutUnknown(d) ==
    /\ cookie[d] # 0
    /\ DecideLogout(cookie[d]) = "none"
    /\ cookie' = [cookie EXCEPT ![d] = 0]
    /\ UNCHANGED <<account, tokens, letters, calls, sent, condemned, spent, lost>>

LogoutAll(c, d, u) == Allowed(u) /\ Begin(c, "logout_all", d, u, 0)

VerifyEmail(c, l) ==
    Usable(l, "verify") /\ Begin(c, "verify", NoDevice, letters[l].user, l)

ResendVerification(c, u) == Begin(c, DecideResend(u), NoDevice, u, 0)

RequestPasswordReset(c, u) == Begin(c, DecideResetRequest(u), NoDevice, u, 0)

ConfirmPasswordReset(c, l) ==
    Usable(l, "reset") /\ Begin(c, "reset", NoDevice, letters[l].user, l)

\* With a wrong current password nothing changes.
ChangePassword(c, d, u) == Allowed(u) /\ Begin(c, "change", d, u, 0)

Ban(c, u, banned) ==
    /\ account[u].exists
    /\ Begin(c, IF banned THEN "ban" ELSE "unban", NoDevice, u, 0)

-----------------------------------------------------------------------------
(* The second step: the request's writes, committed together.               *)

Me(c) == calls[c]
Finish(c) ==
    /\ calls' = [calls EXCEPT ![c] = [op |-> "idle", device |-> NoDevice,
                     user |-> Me(c).user, item |-> 0, dead |-> FALSE,
                     loaded |-> NewAccount]]
    /\ UNCHANGED sent

\* The ORM writes a column only when it differs from the value loaded.
Reset(c, a) ==
    [a EXCEPT !.failures = IF Me(c).loaded.failures = 0 THEN a.failures ELSE 0,
              !.lock = IF Me(c).loaded.lock = "none" THEN a.lock ELSE "none"]

\* Mutant: a device that has a cookie keeps it.
AnswerOnce(d, received) ==
    /\ cookie' = IF received /\ cookie[d] = 0
                 THEN [cookie EXCEPT ![d] = Len(tokens) + 1] ELSE cookie
    /\ lost' = lost

\* The device gets the newest token; when the answer to a refresh is lost it
\* keeps the old one.
Answer(d, received) ==
    /\ cookie' = IF received THEN [cookie EXCEPT ![d] = Len(tokens) + 1] ELSE cookie
    /\ lost' = IF received THEN lost \ {d} ELSE lost \cup {d}

\* The unique indexes refuse a second account: the transaction is rolled back.
CommitRegister(c) ==
    LET u == Me(c).user IN
    /\ Me(c).op = "register"
    /\ Finish(c)
    /\ \/ /\ account[u].exists
          /\ UNCHANGED <<account, tokens, letters, cookie, lost>>
       \/ /\ ~account[u].exists
          /\ Len(tokens) < MaxTokens /\ Len(letters) < MaxLetters
          /\ account' = [account EXCEPT ![u].exists = TRUE]
          /\ letters' = CreateLetter(u, "verify")
          /\ tokens' = CreateToken(u, NewFamily)
          /\ Answer(Me(c).device, TRUE)
    /\ UNCHANGED <<condemned, spent>>

CommitLogin(c) ==
    LET u == Me(c).user IN
    /\ Me(c).op = "login"
    /\ Len(tokens) < MaxTokens
    /\ account' = [account EXCEPT ![u] = Reset(c, @)]
    /\ tokens' = CreateToken(u, NewFamily)
    /\ Answer(Me(c).device, TRUE)
    /\ Finish(c)
    /\ UNCHANGED <<letters, condemned, spent>>

\* The count goes up from the value that was loaded.  (Above LockAfter it
\* makes no difference.)
CommitFailedLogin(c) ==
    LET n == Me(c).loaded.failures + 1 IN
    /\ Me(c).op = "fail"
    /\ account' = [account EXCEPT
          ![Me(c).user].failures = IF n > LockAfter THEN LockAfter ELSE n,
          ![Me(c).user].lock = IF n >= LockAfter THEN "held" ELSE @]
    /\ Finish(c)
    /\ UNCHANGED <<tokens, letters, cookie, condemned, spent, lost>>

\* History: a token that was revoked since the request read it has another
\* successor, or should have none; this one begins a branch of its own.
RevokedMeanwhile(c) == ~Me(c).dead /\ tokens[Me(c).item].state = "revoked"
SuccessorBranch(c) ==
    IF RevokedMeanwhile(c) THEN Len(tokens) + 1 ELSE tokens[Me(c).item].branch

\* The successor joins the family and the presented token is revoked, whatever
\* happened to it since it was read.
CommitRotate(c) ==
    LET t == Me(c).item IN
    /\ Me(c).op = "rotate"
    /\ Len(tokens) < MaxTokens
    /\ tokens' = Append(Revoke({t}),
                        NewToken(Me(c).user, tokens[t].family, SuccessorBranch(c)))
    /\ \E received \in BOOLEAN : Answer(Me(c).device, received)
    /\ Finish(c)
    /\ UNCHANGED <<account, letters, condemned, spent>>

\* A revoked token came back: the whole family is revoked.
CommitReuse(c) ==
    LET f == tokens[Me(c).item].family IN
    /\ Me(c).op = "reuse"
    /\ tokens' = RevokeFamily(f)
    /\ condemned' = condemned \cup OfFamily(f)
    /\ Finish(c)
    /\ UNCHANGED <<account, letters, cookie, spent, lost>>

\* A good token of an account that is not allowed: the same.
CommitRefused(c) ==
    LET f == tokens[Me(c).item].family IN
    /\ Me(c).op = "refused"
    /\ tokens' = RevokeFamily(f)
    /\ condemned' = condemned \cup OfFamily(f)
    /\ Finish(c)
    /\ UNCHANGED <<account, letters, cookie, spent, lost>>

CommitExpired(c) ==
    /\ Me(c).op = "expired"
    /\ tokens' = Revoke({Me(c).item})
    /\ condemned' = condemned \cup {Me(c).item}
    /\ Finish(c)
    /\ UNCHANGED <<account, letters, cookie, spent, lost>>

CommitLogout(c) ==
    /\ Me(c).op = "logout"
    /\ tokens' = Revoke({Me(c).item})
    /\ condemned' = condemned \cup {Me(c).item}
    /\ cookie' = [cookie EXCEPT ![Me(c).device] = 0]
    /\ Finish(c)
    /\ UNCHANGED <<account, letters, spent, lost>>

CommitLogoutAll(c) ==
    LET u == Me(c).user IN
    /\ Me(c).op = "logout_all"
    /\ tokens' = RevokeAllForUser(u)
    /\ condemned' = condemned \cup OfUser(u)
    /\ cookie' = [cookie EXCEPT ![Me(c).device] = 0]
    /\ Finish(c)
    /\ UNCHANGED <<account, letters, spent, lost>>

CommitVerifyEmail(c) ==
    LET u == Me(c).user IN
    /\ Me(c).op = "verify"
    /\ account' = [account EXCEPT ![u].verified = TRUE]
    /\ letters' = ConsumeVerificationTokens(u)
    /\ spent' = spent \cup OfKind(u, "verify")
    /\ Finish(c)
    /\ UNCHANGED <<tokens, cookie, condemned, lost>>

CommitVerificationLetter(c) ==
    /\ Me(c).op = "mail_verify"
    /\ Len(letters) < MaxLetters
    /\ letters' = CreateLetter(Me(c).user, "verify")
    /\ Finish(c)
    /\ UNCHANGED <<account, tokens, cookie, condemned, spent, lost>>

CommitResetLetter(c) ==
    /\ Me(c).op = "mail_reset"
    /\ Len(letters) < MaxLetters
    /\ letters' = CreateLetter(Me(c).user, "reset")
    /\ Finish(c)
    /\ UNCHANGED <<account, tokens, cookie, condemned, spent, lost>>

CommitPasswordReset(c) ==
    LET u == Me(c).user IN
    /\ Me(c).op = "reset"
    /\ account' = [account EXCEPT ![u] = Reset(c, @)]
    /\ letters' = ConsumeResetTokens(u)
    /\ tokens' = RevokeAllForUser(u)
    /\ spent' = spent \cup OfKind(u, "reset")
    /\ condemned' = condemned \cup OfUser(u)
    /\ Finish(c)
    /\ UNCHANGED <<cookie, lost>>

CommitPasswordChange(c) ==
    LET u == Me(c).user IN
    /\ Me(c).op = "change"
    /\ account' = [account EXCEPT ![u] = Reset(c, @)]
    /\ tokens' = RevokeAllForUser(u)
    /\ condemned' = condemned \cup OfUser(u)
    /\ cookie' = [cookie EXCEPT ![Me(c).device] = 0]
    /\ Finish(c)
    /\ UNCHANGED <<letters, spent, lost>>

\* is_banned is written only when it differs from the value loaded; the
\* sessions are revoked in any case.
CommitBan(c) ==
    LET u == Me(c).user
        banned == Me(c).op = "ban" IN
    /\ Me(c).op \in {"ban", "unban"}
    /\ account' = [account EXCEPT
          ![u].banned = IF Me(c).loaded.banned = banned THEN @ ELSE banned]
    /\ tokens' = IF banned THEN RevokeAllForUser(u) ELSE tokens
    /\ condemned' = IF banned THEN condemned \cup OfUser(u) ELSE condemned
    /\ Finish(c)
    /\ UNCHANGED <<letters, cookie, spent, lost>>

-----------------------------------------------------------------------------
(* Time passes.                                                             *)

LockRunsOut(u) ==
    /\ account[u].lock = "held"
    /\ account' = [account EXCEPT ![u].lock = "over"]
    /\ UNCHANGED <<tokens, letters, cookie, calls, sent, condemned, spent, lost>>

TokenExpires(t) ==
    /\ tokens[t].state = "live"
    /\ tokens' = [tokens EXCEPT ![t].state = "expired"]
    /\ UNCHANGED <<account, letters, cookie, calls, sent, condemned, spent, lost>>

LetterExpires(l) ==
    /\ letters[l].state = "fresh"
    /\ letters' = [letters EXCEPT ![l].state = "expired"]
    /\ UNCHANGED <<account, tokens, cookie, calls, sent, condemned, spent, lost>>

-----------------------------------------------------------------------------

SessionsInit ==
    /\ account = [u \in Users |-> NewAccount]
    /\ tokens = <<>>
    /\ letters = <<>>
    /\ cookie = [d \in Devices |-> 0]
    /\ \E u \in Users : calls = [c \in Calls |->
          [op |-> "idle", device |-> NoDevice, user |-> u, item |-> 0,
           dead |-> FALSE, loaded |-> NewAccount]]
    /\ sent = 0
    /\ condemned = {}
    /\ spent = {}
    /\ lost = {}

Begins(c) ==
    \/ \E d \in Devices : Refresh(c, d) \/ Logout(c, d)
    \/ \E d \in Devices, u \in Users :
          \/ Register(c, d, u)
          \/ \E right \in BOOLEAN : Login(c, d, u, right)
          \/ LogoutAll(c, d, u)
          \/ ChangePassword(c, d, u)
    \/ \E u \in Users :
          \/ ResendVerification(c, u)
          \/ RequestPasswordReset(c, u)
          \/ \E banned \in BOOLEAN : Ban(c, u, banned)
    \/ \E l \in DOMAIN letters : VerifyEmail(c, l) \/ ConfirmPasswordReset(c, l)

Commits(c) ==
    \/ CommitRegister(c) \/ CommitLogin(c) \/ CommitFailedLogin(c)
    \/ CommitRotate(c) \/ CommitReuse(c) \/ CommitRefused(c) \/ CommitExpired(c)
    \/ CommitLogout(c) \/ CommitLogoutAll(c)
    \/ CommitVerifyEmail(c) \/ CommitVerificationLetter(c)
    \/ CommitResetLetter(c) \/ CommitPasswordReset(c) \/ CommitPasswordChange(c)
    \/ CommitBan(c)

SessionsNext ==
    \/ \E c \in Calls : Begins(c) \/ Commits(c)
    \/ \E d \in Devices : LogoutUnknown(d)
    \/ \E u \in Users : LockRunsOut(u)
    \/ \E t \in DOMAIN tokens : TokenExpires(t)
    \/ \E l \in DOMAIN letters : LetterExpires(l)

SessionsSpec == SessionsInit /\ [][SessionsNext]_sessionVars

-----------------------------------------------------------------------------
\* However the requests interleave, a logout from everywhere, a new password, a
\* ban or a detected reuse leaves none of the tokens committed before it alive
\* (revoke_all_for_user and revoke_family update by condition, not by what the
\* request read).
RevocationReachesAll == \A t \in condemned : tokens[t].state = "revoked"

\* Using one verification or reset token uses up every token of its kind that
\* the user had been sent until then (consume_all_for_user).
SpentTogether == \A l \in spent : letters[l].state = "consumed"

\* Rotation leaves a session one live refresh token, also when refreshes race
\* logins, logouts, resets and bans: only a refresh that commits after the
\* token it had read as good was revoked adds another (auth_service.py:261
\* reads it without a lock), and that one again has one live token at a time.
OneLiveTokenPerBranch ==
    \A t1, t2 \in DOMAIN tokens :
        /\ tokens[t1].branch = tokens[t2].branch
        /\ tokens[t1].state # "revoked" /\ tokens[t2].state # "revoked"
        => t1 = t2

\* The token a device holds is only ever dead because it was revoked on
\* purpose: rotation itself never signs a device out, unless the answer with
\* the successor was lost on the way to it.
StaysSignedIn ==
    \A d \in Devices \ lost :
        cookie[d] # 0 /\ tokens[cookie[d]].state = "revoked"
            => cookie[d] \in condemned

=============================================================================
