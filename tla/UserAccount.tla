---------------------------- MODULE UserAccount ----------------------------
(***************************************************************************)
(* Accounts: signing up and in, the refresh token, the log-in lockout, and *)
(* the e-mail flows that verify, reset or change something (routes/auth.py,*)
(* routes/users.py, services/auth_service.py, repositories/user_repo.py).  *)
(*                                                                         *)
(* A request is a coroutine: each action is the code from one await on     *)
(* Redis, or on a commit, to the next, and other requests run in between.  *)
(* Database rows and Redis keys are not written in one transaction.        *)
(***************************************************************************)
EXTENDS TokenStore

CONSTANTS
    Requests,       \* concurrent requests
    Passwords,
    Ip,             \* the address all clients come from
    MaxFails,       \* _MAX_LOGIN_FAILS (10)
    DailyCap,       \* DAILY_CAP (5)
    Handlers        \* the routes an instance exercises

AllHandlers == {"signup", "login", "refresh", "logout", "verify", "resend",
                "password", "forgot", "reset", "change", "confirm", "cancel",
                "delete", "stop"}

FailKeys == Emails \union {Ip}

ASSUME AccountAssumption ==
    /\ IsFiniteSet(Requests)
    /\ Ip \notin Emails
    /\ None \notin Passwords
    /\ MaxFails \in Nat \ {0}
    /\ DailyCap \in Nat
    /\ Handlers \subseteq AllHandlers

VARIABLES
    users,      \* the rows of users
    fails,      \* login_fails:{email} and login_fails_ip:{ip}
    expiring,   \* the counters that have a TTL
    resends,    \* email_verify_daily:{user}:{today}
    req,        \* where each request is, and what it holds
    proved      \* history: the last address a mailed token came back from

accountVars == <<users, fails, expiring, resends>>
vars == <<storeVars, accountVars, req, proved>>

UserRow == [state : {"none", "live", "deleted"}, email : Emails \union {None},
            pending : Emails \union {None}, verified : BOOLEAN,
            password : Passwords \union {None}]
NoUser == [state |-> "none", email |-> None, pending |-> None,
           verified |-> FALSE, password |-> None]

Places == {"idle", "create", "checkIp", "password", "failEmail", "failIp",
           "clear", "load", "issue", "issueFirst", "mailVerify", "mailReset",
           "revoke", "dropRevoked", "forgetVerify", "markVerified", "count",
           "newPassword", "forgetReset", "setPassword", "issueChange",
           "setPending", "forgetChange", "setEmail", "dropChange",
           "clearPending"}
Local == [at : Places, user : Users \union {None},
          email : Emails \union {None}, tok : Tokens \union {None},
          pw : Passwords \union {None}]
Idle == [at |-> "idle", user |-> None, email |-> None, tok |-> None,
         pw |-> None]

Live(u) == users[u].state = "live"
Verified(u) == Live(u) /\ users[u].verified

\* get_by_email; the partial unique index allows one live row per address.
ByEmail(e) == {u \in Users : Live(u) /\ users[u].email = e}

At(r, place) == req[r].at = place
Begin(r, handler) == handler \in Handlers /\ At(r, "idle")
Goto(r, place) == req' = [req EXCEPT ![r].at = place]
Hold(r, place, u, e, t) ==
    req' = [req EXCEPT ![r] = [at |-> place, user |-> u, email |-> e,
                               tok |-> t, pw |-> @.pw]]
Return(r) == req' = [req EXCEPT ![r] = Idle]

SetUser(u, row) == users' = [users EXCEPT ![u] = row]
OnlyUsers == UNCHANGED <<storeVars, fails, expiring, resends, proved>>
OnlyStore == UNCHANGED <<accountVars, proved>>
OnlyReq == UNCHANGED <<storeVars, accountVars, proved>>

Held == {req[r].tok : r \in Requests} \ {None}

-----------------------------------------------------------------------------
(***************************************************************************)
(* Signing up, and in.                                                     *)
(***************************************************************************)
\* email_exists; the languages and the user name are left out.
Signup(r, e, pw) ==
    /\ Begin(r, "signup")
    /\ ByEmail(e) = {}
    /\ req' = [req EXCEPT ![r] = [Idle EXCEPT !.at = "create", !.email = e,
                                             !.pw = pw]]
    /\ OnlyReq

\* INSERT and commit; a rival's row makes the index refuse this one.
SignupCreate(r) ==
    /\ At(r, "create")
    /\ \/ /\ ByEmail(req[r].email) # {}
          /\ Return(r)
          /\ UNCHANGED users
       \/ /\ ByEmail(req[r].email) = {}
          /\ \E u \in Users :
                /\ users[u] = NoUser
                /\ SetUser(u, [NoUser EXCEPT !.state = "live",
                         !.email = req[r].email, !.password = req[r].pw])
                /\ Hold(r, "issueFirst", u, req[r].email, None)
    /\ OnlyUsers

\* The first refresh token follows the commit.
SignupIssue(r) ==
    /\ At(r, "issueFirst")
    /\ GenerateRefresh(req[r].user, req[r].email, Held)
    /\ Goto(r, "mailVerify")
    /\ OnlyStore

\* _send_verification_background, after the response.
MailVerification(r) ==
    /\ At(r, "mailVerify")
    /\ GenerateVerify(req[r].user, req[r].email, Held)
    /\ Return(r)
    /\ OnlyStore

\* Mutant: one more failure than the limit is let through.
OneMoreAllowed(k) == fails[k] <= MaxFails

\* _check_login_lockout, one GET per key.
Allowed(k) == fails[k] < MaxFails

Login(r, e, pw) ==
    /\ Begin(r, "login")
    /\ Allowed(e)
    /\ req' = [req EXCEPT ![r] = [Idle EXCEPT !.at = "checkIp", !.email = e,
                                             !.pw = pw]]
    /\ OnlyReq

LoginCheckIp(r) ==
    /\ At(r, "checkIp")
    /\ \/ Allowed(Ip) /\ Goto(r, "password")
       \/ ~ Allowed(Ip) /\ Return(r)
    /\ OnlyReq

\* A failure counts if there is such a user.
LoginPassword(r) ==
    /\ At(r, "password")
    /\ \/ ByEmail(req[r].email) = {} /\ Return(r)
       \/ \E u \in ByEmail(req[r].email) :
             Hold(r, IF users[u].password = req[r].pw THEN "clear" ELSE "failEmail",
                  u, req[r].email, None)
    /\ OnlyReq

\* Mutant: INCR without its EXPIRE.
CountsForEver(k) ==
    /\ fails' = [fails EXCEPT ![k] = @ + 1]
    /\ UNCHANGED expiring

\* _LUA_INCR_WITH_EXPIRE.
Counts(k) ==
    /\ fails' = [fails EXCEPT ![k] = @ + 1]
    /\ expiring' = IF fails[k] = 0 THEN expiring \union {k} ELSE expiring

RecordFail(r) ==
    /\ \/ At(r, "failEmail") /\ Counts(req[r].email) /\ Goto(r, "failIp")
       \/ At(r, "failIp") /\ Counts(Ip) /\ Return(r)
    /\ UNCHANGED <<storeVars, users, resends, proved>>

\* One DEL of both keys.
ClearFails(r) ==
    /\ At(r, "clear")
    /\ fails' = [fails EXCEPT ![req[r].email] = 0, ![Ip] = 0]
    /\ expiring' = expiring \ {req[r].email, Ip}
    /\ Goto(r, "issue")
    /\ UNCHANGED <<storeVars, users, resends, proved>>

IssueRefresh(r) ==
    /\ At(r, "issue")
    /\ GenerateRefresh(req[r].user, req[r].email, Held)
    /\ Return(r)
    /\ OnlyStore

-----------------------------------------------------------------------------
(***************************************************************************)
(* The refresh token.                                                      *)
(***************************************************************************)
Refresh(r, t) ==
    /\ Begin(r, "refresh")
    /\ Verifies("refresh", t)
    /\ Hold(r, "load", key[t].user, key[t].to, None)
    /\ OnlyReq

\* get_by_id: the user may be gone; then the token is revoked.
RefreshLoad(r) ==
    /\ At(r, "load")
    /\ Goto(r, IF Live(req[r].user) THEN "issue" ELSE "revoke")
    /\ OnlyReq

Logout(r, u) ==
    /\ Begin(r, "logout")
    /\ Live(u)
    /\ Hold(r, "revoke", u, None, None)
    /\ OnlyReq

RevokePointer(r) ==
    /\ At(r, "revoke")
    /\ \E t \in Tokens \union {None} :
          /\ TakePointer("refresh", req[r].user, t)
          /\ IF t = None THEN Return(r)
             ELSE Hold(r, "dropRevoked", req[r].user, None, t)
    /\ OnlyStore

RevokeToken(r) ==
    /\ At(r, "dropRevoked")
    /\ DropToken(req[r].tok)
    /\ Return(r)
    /\ OnlyStore

-----------------------------------------------------------------------------
(***************************************************************************)
(* Verifying the address.                                                  *)
(***************************************************************************)
VerifyEmail(r, t) ==
    /\ Begin(r, "verify")
    /\ Take("verify", t)
    /\ Hold(r, "forgetVerify", key[t].user, key[t].to, t)
    /\ OnlyStore

VerifyForget(r) ==
    /\ At(r, "forgetVerify")
    /\ DropPointer("verify", req[r].user)
    /\ Goto(r, "markVerified")
    /\ OnlyStore

\* An unknown user or a verified one is refused; the token is spent.
MarkVerified(r) ==
    /\ At(r, "markVerified")
    /\ \/ /\ Live(req[r].user) /\ ~ Verified(req[r].user)
          /\ SetUser(req[r].user, [users[req[r].user] EXCEPT !.verified = TRUE])
          /\ proved' = [proved EXCEPT ![req[r].user] = req[r].email]
       \/ /\ ~ Live(req[r].user) \/ Verified(req[r].user)
          /\ UNCHANGED <<users, proved>>
    /\ Return(r)
    /\ UNCHANGED <<storeVars, fails, expiring, resends>>

Resend(r, u) ==
    /\ Begin(r, "resend")
    /\ Live(u) /\ ~ Verified(u)
    /\ Hold(r, "count", u, users[u].email, None)
    /\ OnlyReq

\* INCR; its EXPIRE is left out, as the name of the counter holds the date.
\* Beyond the cap the model stops counting.
ResendCount(r) ==
    /\ At(r, "count")
    /\ resends' = [resends EXCEPT ![req[r].user] =
                      IF @ > DailyCap THEN @ ELSE @ + 1]
    /\ IF resends[req[r].user] < DailyCap THEN Goto(r, "mailVerify")
       ELSE Return(r)
    /\ UNCHANGED <<storeVars, users, fails, expiring, proved>>

-----------------------------------------------------------------------------
(***************************************************************************)
(* Passwords.                                                              *)
(***************************************************************************)
\* The client has proved the current password; the new one differs.
ChangePassword(r, u, pw) ==
    /\ Begin(r, "password")
    /\ Live(u) /\ users[u].password # pw
    /\ req' = [req EXCEPT ![r] = [Idle EXCEPT !.at = "newPassword", !.user = u,
                                             !.pw = pw]]
    /\ OnlyReq

NewPassword(r) ==
    /\ At(r, "newPassword")
    /\ SetUser(req[r].user, [users[req[r].user] EXCEPT !.password = req[r].pw])
    /\ Return(r)
    /\ OnlyUsers

ForgotPassword(r, e) ==
    /\ Begin(r, "forgot")
    /\ \E u \in ByEmail(e) : Hold(r, "mailReset", u, e, None)
    /\ OnlyReq

\* _send_password_reset_background.
MailReset(r) ==
    /\ At(r, "mailReset")
    /\ GenerateReset(req[r].user, req[r].email, Held)
    /\ Return(r)
    /\ OnlyStore

ResetPassword(r, t, pw) ==
    /\ Begin(r, "reset")
    /\ Take("reset", t)
    /\ req' = [req EXCEPT ![r] = [at |-> "forgetReset", user |-> key[t].user,
                                  email |-> key[t].to, tok |-> t, pw |-> pw]]
    /\ OnlyStore

ResetForget(r) ==
    /\ At(r, "forgetReset")
    /\ DropPointer("reset", req[r].user)
    /\ Goto(r, "setPassword")
    /\ OnlyStore

SetPassword(r) ==
    /\ At(r, "setPassword")
    /\ \/ /\ Live(req[r].user)
          /\ SetUser(req[r].user,
                     [users[req[r].user] EXCEPT !.password = req[r].pw])
       \/ ~ Live(req[r].user) /\ UNCHANGED users
    /\ Return(r)
    /\ OnlyUsers

-----------------------------------------------------------------------------
(***************************************************************************)
(* Changing the address.                                                   *)
(***************************************************************************)
RequestChange(r, u, e) ==
    /\ Begin(r, "change")
    /\ Verified(u)
    /\ users[u].email # e /\ ByEmail(e) = {}
    /\ Hold(r, "issueChange", u, e, None)
    /\ OnlyReq

\* The token is stored before pending_email is committed.
ChangeIssue(r) ==
    /\ At(r, "issueChange")
    /\ GenerateChange(req[r].user, req[r].email, Held)
    /\ Goto(r, "setPending")
    /\ OnlyStore

SetPending(r) ==
    /\ At(r, "setPending")
    /\ SetUser(req[r].user, [users[req[r].user] EXCEPT !.pending = req[r].email])
    /\ Return(r)
    /\ OnlyUsers

ConfirmChange(r, t) ==
    /\ Begin(r, "confirm")
    /\ Take("change", t)
    /\ Hold(r, "forgetChange", key[t].user, key[t].to, t)
    /\ OnlyStore

ConfirmForget(r) ==
    /\ At(r, "forgetChange")
    /\ DropPointer("change", req[r].user)
    /\ Goto(r, "setEmail")
    /\ OnlyStore

\* Mutants: the address is taken from the row, where a later request has put
\* another one, or none.
NewAddressOfRow(r) == users[req[r].user].pending
NewAddressPending(r) ==
    IF users[req[r].user].pending = None THEN req[r].email
    ELSE users[req[r].user].pending

\* The address in the token's value.
NewAddress(r) == req[r].email

\* The UPDATE is not conditional; the index refuses an address that a live
\* row has by now, and the token is spent.
SetEmail(r) ==
    LET u == req[r].user
        e == NewAddress(r)
    IN  /\ At(r, "setEmail")
        /\ \/ /\ Live(u) /\ ByEmail(e) \ {u} # {}
              /\ UNCHANGED <<users, proved>>
           \/ /\ ~ (Live(u) /\ ByEmail(e) \ {u} # {})
              /\ SetUser(u, [users[u] EXCEPT !.email = e, !.pending = None,
                                             !.verified = TRUE])
              /\ proved' = [proved EXCEPT ![u] = req[r].email]
        /\ Return(r)
        /\ UNCHANGED <<storeVars, fails, expiring, resends>>

CancelChange(r, u) ==
    /\ Begin(r, "cancel")
    /\ Live(u)
    /\ \E t \in Tokens \union {None} :
          /\ TakePointer("change", u, t)
          /\ Hold(r, IF t = None THEN "clearPending" ELSE "dropChange", u, None, t)
    /\ OnlyStore

CancelToken(r) ==
    /\ At(r, "dropChange")
    /\ DropToken(req[r].tok)
    /\ Goto(r, "clearPending")
    /\ OnlyStore

ClearPending(r) ==
    /\ At(r, "clearPending")
    /\ SetUser(req[r].user, [users[req[r].user] EXCEPT !.pending = None])
    /\ Return(r)
    /\ OnlyUsers

\* The tokens of a deleted user are left to their TTL.
DeleteAccount(r, u) ==
    /\ Begin(r, "delete")
    /\ Live(u)
    /\ SetUser(u, [users[u] EXCEPT !.state = "deleted"])
    /\ UNCHANGED req
    /\ OnlyUsers

-----------------------------------------------------------------------------
(***************************************************************************)
(* Time, and a restart of the server.                                      *)
(***************************************************************************)
TokenExpires(t) == Expire(t) /\ UNCHANGED <<accountVars, req, proved>>

CounterExpires(k) ==
    /\ k \in expiring
    /\ fails' = [fails EXCEPT ![k] = 0]
    /\ expiring' = expiring \ {k}
    /\ UNCHANGED <<storeVars, users, resends, req, proved>>

NewDay ==
    /\ resends' = [u \in Users |-> 0]
    /\ UNCHANGED <<storeVars, users, fails, expiring, req, proved>>

Stop ==
    /\ "stop" \in Handlers
    /\ req' = [r \in Requests |-> Idle]
    /\ OnlyReq

Init ==
    /\ InitStore
    /\ users = [u \in Users |-> NoUser]
    /\ fails = [k \in FailKeys |-> 0]
    /\ expiring = {}
    /\ resends = [u \in Users |-> 0]
    /\ req = [r \in Requests |-> Idle]
    /\ proved = [u \in Users |-> None]

Continue(r) ==
    \/ SignupCreate(r) \/ SignupIssue(r) \/ MailVerification(r)
    \/ LoginCheckIp(r) \/ LoginPassword(r) \/ RecordFail(r) \/ ClearFails(r)
    \/ IssueRefresh(r) \/ RefreshLoad(r) \/ RevokePointer(r) \/ RevokeToken(r)
    \/ VerifyForget(r) \/ MarkVerified(r) \/ ResendCount(r)
    \/ NewPassword(r) \/ MailReset(r) \/ ResetForget(r) \/ SetPassword(r)
    \/ ChangeIssue(r) \/ SetPending(r) \/ ConfirmForget(r) \/ SetEmail(r)
    \/ CancelToken(r) \/ ClearPending(r)

Start(r) ==
    \/ \E e \in Emails, pw \in Passwords : Signup(r, e, pw) \/ Login(r, e, pw)
    \/ \E t \in Tokens : Refresh(r, t) \/ VerifyEmail(r, t) \/ ConfirmChange(r, t)
    \/ \E t \in Tokens, pw \in Passwords : ResetPassword(r, t, pw)
    \/ \E u \in Users : Logout(r, u) \/ Resend(r, u) \/ CancelChange(r, u)
                         \/ DeleteAccount(r, u)
    \/ \E u \in Users, pw \in Passwords : ChangePassword(r, u, pw)
    \/ \E u \in Users, e \in Emails : RequestChange(r, u, e)
    \/ \E e \in Emails : ForgotPassword(r, e)

Next ==
    \/ \E r \in Requests : Start(r) \/ Continue(r)
    \/ \E t \in Tokens : TokenExpires(t)
    \/ \E k \in FailKeys : CounterExpires(k)
    \/ NewDay
    \/ Stop

Spec == Init /\ [][Next]_vars

\* Redis expires counters, and the event loop resumes requests.
FairSpec ==
    /\ Spec
    /\ \A k \in FailKeys : WF_vars(CounterExpires(k))
    /\ \A r \in Requests : WF_vars(Continue(r))

-----------------------------------------------------------------------------
(***************************************************************************)
(* Properties.                                                             *)
(***************************************************************************)
\* Types; a row once created keeps an address and a password, and a request
\* that has got as far as a user's row holds a user who has one.
AccountTypeOK ==
    /\ StoreTypeOK
    /\ users \in [Users -> UserRow]
    /\ fails \in [FailKeys -> Nat]
    /\ expiring \subseteq FailKeys
    /\ resends \in [Users -> 0..(DailyCap + 1)]
    /\ req \in [Requests -> Local]
    /\ proved \in [Users -> Emails \union {None}]
    /\ \A v \in Users : users[v].state # "none" =>
          users[v].email # None /\ users[v].password # None
    /\ \A r \in Requests : req[r].user # None => users[req[r].user].state # "none"

\* A verified account has proved its address: a token mailed to the address it
\* has now came back, whatever requests to change it overlapped.
AddressProved ==
    \A u \in Users : Verified(u) => proved[u] = users[u].email

Honours(r) == req[r].at \in {"forgetVerify", "markVerified", "forgetReset",
                             "setPassword", "forgetChange", "setEmail"}

\* A mailed token is honoured by one request, and is dead from then on.
TokenHasOneTaker ==
    \A r \in Requests : Honours(r) =>
        /\ req[r].tok \notin LiveTokens
        /\ \A s \in Requests : Honours(s) /\ req[s].tok = req[r].tok => s = r

\* A request that has taken the pointer is about to delete this token.
Doomed(t) ==
    \E r \in Requests : req[r].at \in {"dropRevoked", "dropChange"} /\ req[r].tok = t

\* A refresh token that works is the one its user's pointer names, or a logout
\* is about to delete it: there is none that logging out would not reach.
RefreshIsRevocable ==
    \A t \in LiveTokens : key[t].kind = "refresh" =>
        pointer["refresh"][key[t].user] = t \/ Doomed(t)

\* Attempts that overlap overshoot the limit by less than their number.
FailsBounded ==
    \A k \in FailKeys : fails[k] < MaxFails + Cardinality(Requests)

\* A lockout ends.
LockoutEnds == \A k \in FailKeys : ~ Allowed(k) ~> Allowed(k)
=============================================================================
