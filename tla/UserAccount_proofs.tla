------------------------- MODULE UserAccount_proofs -------------------------
(***************************************************************************)
(* Theorems about UserAccount and the token store, for any number of       *)
(* users, addresses, tokens and requests, and for any set of routes.       *)
(***************************************************************************)
EXTENDS UserAccount, FiniteSetTheorems, TLAPS

(***************************************************************************)
(* Types, what a request has at hand, and that a token has an owner.       *)
(***************************************************************************)
Hand(local) ==
    /\ local.at \notin {"idle", "create", "checkIp", "password"} =>
          local.user \in Users
    /\ local.at \in {"create", "checkIp", "password", "failEmail", "clear", "load",
                     "issue", "issueFirst", "mailVerify", "mailReset",
                     "forgetVerify", "markVerified", "count", "issueChange",
                     "setPending", "forgetChange", "setEmail"} =>
          local.email \in Emails
    /\ local.at \in {"create", "newPassword", "forgetReset", "setPassword"} =>
          local.pw \in Passwords

Created(u) == users[u].state # "none"

HandOK == \A r \in Requests : Hand(req[r])
UsersKnown == \A r \in Requests : req[r].user # None => Created(req[r].user)
TokensOwned == \A t \in LiveTokens : Created(key[t].user)

AccountInv == AccountTypeOK /\ HandOK /\ TokensOwned

LEMMA IdleType == Idle \in Local /\ Hand(Idle) /\ Idle.user = None
  BY DEF Idle, Local, Places, Hand

LEMMA InvInit == Init => AccountInv
  BY IdleType, AccountAssumption
  DEF Init, InitStore, AccountInv, AccountTypeOK, StoreTypeOK, HandOK, TokensOwned,
      UserRow, NoUser, LiveTokens

\* No row is ever lost: a row that was created stays.
RowsKept == \A v \in Users : Created(v) => Created(v)'

\* A step of one request has only its own record to look at.
LEMMA OneMoves ==
    ASSUME AccountInv, RowsKept, NEW r \in Requests,
           NEW local \in Local, Hand(local),
           local.user # None => users'[local.user].state # "none",
           req' = [req EXCEPT ![r] = local]
    PROVE  req' \in [Requests -> Local] /\ HandOK' /\ UsersKnown'
  <1>1. \A q \in Requests : req'[q] = IF q = r THEN local ELSE req[q]
    BY DEF AccountInv, AccountTypeOK
  <1>2. req' \in [Requests -> Local]
    BY DEF AccountInv, AccountTypeOK
  <1>3. ASSUME NEW q \in Requests, q # r, req[q].user # None
        PROVE  users'[req[q].user].state # "none"
    <2>1. req[q].user \in Users /\ users[req[q].user].state # "none"
      BY <1>3 DEF AccountInv, AccountTypeOK, Local
    <2> QED
      BY <2>1 DEF RowsKept, Created
  <1>4. UsersKnown'
    BY <1>1, <1>3 DEF UsersKnown, Created
  <1>5. HandOK'
    BY <1>1 DEF AccountInv, HandOK, Hand
  <1> QED
    BY <1>2, <1>4, <1>5

LEMMA GoesOn ==
    ASSUME AccountInv, RowsKept, NEW r \in Requests, NEW place \in Places,
           Hand([req[r] EXCEPT !.at = place]), Goto(r, place)
    PROVE  req' \in [Requests -> Local] /\ HandOK' /\ UsersKnown'
  <1> DEFINE new == [req[r] EXCEPT !.at = place]
  <1>1. new \in Local /\ new.user = req[r].user /\ req[r].user \in Users \union {None}
    BY DEF AccountInv, AccountTypeOK, Local
  <1>2. new.user # None => users'[new.user].state # "none"
    <2>1. new.user # None =>
            new.user \in Users /\ users[new.user].state # "none"
      BY <1>1 DEF AccountInv, AccountTypeOK
    <2> QED
      BY <2>1 DEF RowsKept, Created
  <1>3. req' = [req EXCEPT ![r] = new]
    BY DEF Goto
  <1> QED
    BY <1>1, <1>2, <1>3, OneMoves

LEMMA Holds ==
    ASSUME AccountInv, RowsKept, NEW r \in Requests, NEW place \in Places,
           NEW u \in Users, users'[u].state # "none", NEW e \in Emails \union {None},
           NEW t \in Tokens \union {None}, Hold(r, place, u, e, t),
           Hand([at |-> place, user |-> u, email |-> e, tok |-> t, pw |-> req[r].pw])
    PROVE  req' \in [Requests -> Local] /\ HandOK' /\ UsersKnown'
  <1> DEFINE new == [at |-> place, user |-> u, email |-> e, tok |-> t,
                     pw |-> req[r].pw]
  <1>1. new \in Local /\ new.user = u
    BY DEF AccountInv, AccountTypeOK, Local
  <1>2. req' = [req EXCEPT ![r] = new]
    BY DEF Hold
  <1> QED
    BY <1>1, <1>2, OneMoves

LEMMA Ends ==
    ASSUME AccountInv, RowsKept, NEW r \in Requests, Return(r)
    PROVE  req' \in [Requests -> Local] /\ HandOK' /\ UsersKnown'
  BY OneMoves, IdleType DEF Return

\* What a step must do besides: keep the types of the tables and of the store.
LEMMA InvFrom ==
    ASSUME AccountInv, RowsKept,
           StoreTypeOK', users' \in [Users -> UserRow],
           \A v \in Users : users'[v].state # "none" =>
               users'[v].email # None /\ users'[v].password # None,
           fails' \in [FailKeys -> Nat], expiring' \subseteq FailKeys,
           resends' \in [Users -> 0..(DailyCap + 1)],
           proved' \in [Users -> Emails \union {None}],
           req' \in [Requests -> Local], HandOK',
           UsersKnown',
           TokensOwned'
    PROVE  AccountInv'
  BY DEF AccountInv, AccountTypeOK, UsersKnown, Created

(***************************************************************************)
(* Requests that only read.                                                *)
(***************************************************************************)
LEMMA ReadsKeepInv ==
    ASSUME AccountInv, UNCHANGED <<storeVars, accountVars, proved>>,
           req' \in [Requests -> Local], HandOK',
           UsersKnown'
    PROVE  AccountInv'
  <1>1. RowsKept /\ StoreTypeOK' /\ TokensOwned'
    BY DEF AccountInv, AccountTypeOK, StoreTypeOK, TokensOwned, LiveTokens, RowsKept,
           Created, storeVars, accountVars
  <1> QED
    BY <1>1, InvFrom DEF AccountInv, AccountTypeOK, accountVars

Looks(r) ==
    \/ \E e \in Emails, pw \in Passwords : Signup(r, e, pw) \/ Login(r, e, pw)
    \/ LoginCheckIp(r) \/ LoginPassword(r) \/ RefreshLoad(r)
    \/ \E t \in Tokens : Refresh(r, t)
    \/ \E u \in Users : Logout(r, u) \/ Resend(r, u)
    \/ \E u \in Users, pw \in Passwords : ChangePassword(r, u, pw)
    \/ \E u \in Users, e \in Emails : RequestChange(r, u, e)
    \/ \E e \in Emails : ForgotPassword(r, e)

LEMMA LooksKeepInv ==
    ASSUME AccountInv, NEW r \in Requests, Looks(r)
    PROVE  AccountInv'
  <1>1. UNCHANGED <<storeVars, accountVars, proved>>
    BY DEF Looks, Signup, Login, LoginCheckIp, LoginPassword, RefreshLoad, Refresh,
           Logout, Resend, ChangePassword, RequestChange, ForgotPassword, OnlyReq
  <1>2. RowsKept
    BY <1>1 DEF RowsKept, Created, accountVars
  <1>3. /\ req[r] \in Local /\ Hand(req[r])
        /\ users' = users /\ users \in [Users -> UserRow]
        /\ key \in [Tokens -> Values \union {None}]
    BY <1>1 DEF AccountInv, AccountTypeOK, HandOK, StoreTypeOK, accountVars
  <1>4. SUFFICES req' \in [Requests -> Local] /\ HandOK' /\ UsersKnown'
    BY <1>1, ReadsKeepInv
  <1>5. ASSUME NEW u \in Users, Live(u)
        PROVE  /\ users'[u].state # "none"
               /\ users[u].email \in Emails
    BY <1>3, <1>5 DEF Live, AccountInv, AccountTypeOK, UserRow
  <1>6. ASSUME NEW e \in Emails, NEW pw \in Passwords, NEW at \in {"create", "checkIp"},
               req' = [req EXCEPT ![r] = [Idle EXCEPT !.at = at, !.email = e, !.pw = pw]]
        PROVE  req' \in [Requests -> Local] /\ HandOK' /\ UsersKnown'
    <2> DEFINE new == [Idle EXCEPT !.at = at, !.email = e, !.pw = pw]
    <2>1. new \in Local /\ Hand(new) /\ new.user = None
      BY DEF Idle, Local, Places, Hand
    <2> QED
      BY <1>2, <1>6, <2>1, OneMoves
  <1>7. ASSUME NEW e \in Emails, NEW pw \in Passwords,
               Signup(r, e, pw) \/ Login(r, e, pw)
        PROVE  req' \in [Requests -> Local] /\ HandOK' /\ UsersKnown'
    BY <1>6, <1>7 DEF Signup, Login
  <1>8. CASE LoginCheckIp(r)
    <2>1. CASE Return(r)
      BY <1>2, <2>1, Ends
    <2>2. CASE Goto(r, "password")
      <3>1. Hand([req[r] EXCEPT !.at = "password"])
        BY <1>3, <1>8 DEF LoginCheckIp, At, Hand, Local
      <3> QED
        BY <1>2, <2>2, <3>1, GoesOn DEF Places
    <2> QED
      BY <1>8, <2>1, <2>2 DEF LoginCheckIp
  <1>9. CASE LoginPassword(r)
    <2>1. req[r].email \in Emails
      BY <1>3, <1>9 DEF LoginPassword, At, Hand
    <2>2. ASSUME NEW u \in ByEmail(req[r].email), NEW place \in {"clear", "failEmail"},
                 Hold(r, place, u, req[r].email, None)
          PROVE  req' \in [Requests -> Local] /\ HandOK' /\ UsersKnown'
      <3>1. u \in Users /\ users'[u].state # "none"
        BY <1>5 DEF ByEmail
      <3>2. Hand([at |-> place, user |-> u, email |-> req[r].email, tok |-> None,
                  pw |-> req[r].pw])
        BY <2>1, <3>1 DEF Hand
      <3> QED
        BY <1>2, <2>1, <2>2, <3>1, <3>2, Holds DEF Places
    <2> QED
      BY <1>2, <1>9, <2>2, Ends DEF LoginPassword
  <1>10. CASE RefreshLoad(r)
    <2>1. ASSUME NEW place \in {"issue", "revoke"}
          PROVE  Hand([req[r] EXCEPT !.at = place])
      BY <1>3, <1>10 DEF RefreshLoad, At, Hand, Local
    <2> QED
      BY <1>2, <1>10, <2>1, GoesOn DEF RefreshLoad, Places
  <1>11. ASSUME NEW t \in Tokens, Refresh(r, t)
         PROVE  req' \in [Requests -> Local] /\ HandOK' /\ UsersKnown'
    <2>1. key[t] \in Values /\ t \in LiveTokens
      BY <1>3, <1>11 DEF Refresh, Verifies, LiveTokens
    <2>2. /\ key[t].user \in Users /\ key[t].to \in Emails
          /\ users'[key[t].user].state # "none"
      BY <1>3, <2>1 DEF Values, AccountInv, TokensOwned, Created
    <2>3. Hand([at |-> "load", user |-> key[t].user, email |-> key[t].to,
                tok |-> None, pw |-> req[r].pw])
      BY <2>2 DEF Hand
    <2> QED
      BY <1>2, <1>11, <2>2, <2>3, Holds DEF Refresh, Places
  <1>12. ASSUME NEW u \in Users, Live(u), NEW e \in Emails \union {None},
                NEW place \in {"revoke", "count", "mailReset", "issueChange"},
                place # "revoke" => e \in Emails, Hold(r, place, u, e, None)
         PROVE  req' \in [Requests -> Local] /\ HandOK' /\ UsersKnown'
    <2>1. Hand([at |-> place, user |-> u, email |-> e, tok |-> None, pw |-> req[r].pw])
      BY <1>12 DEF Hand
    <2> QED
      BY <1>2, <1>5, <1>12, <2>1, Holds DEF Places
  <1>13. ASSUME NEW u \in Users, Logout(r, u) \/ Resend(r, u)
         PROVE  req' \in [Requests -> Local] /\ HandOK' /\ UsersKnown'
    BY <1>5, <1>12, <1>13 DEF Logout, Resend
  <1>14. ASSUME NEW u \in Users, NEW pw \in Passwords, ChangePassword(r, u, pw)
         PROVE  req' \in [Requests -> Local] /\ HandOK' /\ UsersKnown'
    <2> DEFINE new == [Idle EXCEPT !.at = "newPassword", !.user = u, !.pw = pw]
    <2>1. new \in Local /\ Hand(new) /\ new.user = u
      BY DEF Idle, Local, Places, Hand
    <2>2. users'[u].state # "none"
      BY <1>5, <1>14 DEF ChangePassword
    <2> QED
      BY <1>2, <1>14, <2>1, <2>2, OneMoves DEF ChangePassword
  <1>15. ASSUME NEW u \in Users, NEW e \in Emails, RequestChange(r, u, e)
         PROVE  req' \in [Requests -> Local] /\ HandOK' /\ UsersKnown'
    BY <1>12, <1>15 DEF RequestChange, Verified
  <1>16. ASSUME NEW e \in Emails, ForgotPassword(r, e)
         PROVE  req' \in [Requests -> Local] /\ HandOK' /\ UsersKnown'
    BY <1>12, <1>16 DEF ForgotPassword, ByEmail
  <1> QED
    BY <1>7, <1>8, <1>9, <1>10, <1>11, <1>13, <1>14, <1>15, <1>16 DEF Looks

(***************************************************************************)
(* Steps of the store.                                                     *)
(***************************************************************************)
\* Only tokens of a created user come to life.
LEMMA StoreMoves ==
    ASSUME AccountInv, users' = users,
           \/ \E k \in AllKinds, u \in Users, e \in Emails, held \in SUBSET Tokens :
                 Created(u) /\ Issue(k, u, e, held)
           \/ \E k \in AllKinds, t \in Tokens : Take(k, t)
           \/ \E k \in AllKinds, u \in Users : DropPointer(k, u)
           \/ \E t \in Tokens \union {None} : DropToken(t)
           \/ \E t \in Tokens : Expire(t)
    PROVE  StoreTypeOK' /\ TokensOwned'
  <1>1. /\ key \in [Tokens -> Values \union {None}]
        /\ pointer \in [AllKinds -> [Users -> Tokens \union {None}]]
    BY DEF AccountInv, AccountTypeOK, StoreTypeOK
  <1>2. ASSUME NEW k \in AllKinds, NEW u \in Users, NEW e \in Emails, NEW t \in Tokens,
               Created(u), Generate(k, u, e, t)
        PROVE  StoreTypeOK' /\ TokensOwned'
    <2>1. [kind |-> k, user |-> u, to |-> e] \in Values
      BY DEF Values
    <2>2. key' \in [Tokens -> Values \union {None}]
      BY <1>1, <1>2, <2>1 DEF Generate
    <2>3. pointer' \in [AllKinds -> [Users -> Tokens \union {None}]]
      BY <1>1, <1>2 DEF Generate
    <2>4. \A s \in Tokens : \/ key'[s] = [kind |-> k, user |-> u, to |-> e]
                            \/ key'[s] \in {None, key[s]}
      BY <1>1, <1>2 DEF Generate
    <2>5. TokensOwned'
      BY <1>2, <2>4 DEF TokensOwned, LiveTokens, Created, AccountInv
    <2> QED
      BY <2>2, <2>3, <2>5 DEF StoreTypeOK
  <1>3. ASSUME key' \in [Tokens -> Values \union {None}],
               pointer' \in [AllKinds -> [Users -> Tokens \union {None}]],
               \A s \in Tokens : key'[s] \in {None, key[s]}
        PROVE  StoreTypeOK' /\ TokensOwned'
    BY <1>3 DEF StoreTypeOK, TokensOwned, LiveTokens, Created, AccountInv
  <1>4. CASE UNCHANGED storeVars
    BY <1>1, <1>3, <1>4 DEF storeVars
  <1>5. ASSUME NEW k \in AllKinds, NEW t \in Tokens, Take(k, t)
        PROVE  StoreTypeOK' /\ TokensOwned'
    BY <1>1, <1>3, <1>5 DEF Take
  <1>6. ASSUME NEW k \in AllKinds, NEW u \in Users, DropPointer(k, u)
        PROVE  StoreTypeOK' /\ TokensOwned'
    BY <1>1, <1>3, <1>6 DEF DropPointer
  <1>7. ASSUME NEW t \in Tokens \union {None}, DropToken(t)
        PROVE  StoreTypeOK' /\ TokensOwned'
    BY <1>1, <1>3, <1>7 DEF DropToken
  <1>8. ASSUME NEW t \in Tokens, Expire(t)
        PROVE  StoreTypeOK' /\ TokensOwned'
    BY <1>1, <1>3, <1>8 DEF Expire
  <1> QED
    BY <1>2, <1>4, <1>5, <1>6, <1>7, <1>8 DEF Issue

Stores(r) ==
    \/ SignupIssue(r) \/ MailVerification(r) \/ IssueRefresh(r) \/ MailReset(r)
    \/ ChangeIssue(r)
    \/ RevokePointer(r) \/ RevokeToken(r) \/ CancelToken(r)
    \/ VerifyForget(r) \/ ResetForget(r) \/ ConfirmForget(r)
    \/ \E t \in Tokens : VerifyEmail(r, t) \/ ConfirmChange(r, t)
    \/ \E t \in Tokens, pw \in Passwords : ResetPassword(r, t, pw)
    \/ \E u \in Users : CancelChange(r, u)

\* The requests, with what each does to the store.
Issues(r) ==
    /\ req[r].user \in Users /\ req[r].email \in Emails
    /\ \E k \in AllKinds : Issue(k, req[r].user, req[r].email, Held)

LEMMA StoresTouch ==
    ASSUME AccountInv, NEW r \in Requests, Stores(r)
    PROVE  /\ StoreTypeOK' /\ TokensOwned' /\ RowsKept
           /\ UNCHANGED <<accountVars, proved>>
  <1>1. UNCHANGED <<accountVars, proved>>
    BY DEF Stores, SignupIssue, MailVerification, IssueRefresh, MailReset, ChangeIssue,
           RevokePointer, RevokeToken, CancelToken, VerifyForget, ResetForget, OnlyStore,
           ConfirmForget, VerifyEmail, ConfirmChange, ResetPassword, CancelChange
  <1>2. RowsKept /\ users' = users
    BY <1>1 DEF RowsKept, Created, accountVars
  <1>3. /\ req[r] \in Local /\ Hand(req[r])
        /\ req[r].user # None => Created(req[r].user)
        /\ Held \in SUBSET Tokens /\ None \notin Users
    BY TokenAssumption
    DEF AccountInv, AccountTypeOK, HandOK, Created, Held, Local
  <1>4. CASE Issues(r)
    BY <1>2, <1>3, <1>4, StoreMoves, <1>1 DEF Issues
  <1>5. CASE SignupIssue(r) \/ MailVerification(r) \/ IssueRefresh(r) \/ MailReset(r)
             \/ ChangeIssue(r)
    <2>1. req[r].user \in Users /\ req[r].email \in Emails
      BY <1>3, <1>5 DEF SignupIssue, MailVerification, IssueRefresh, MailReset,
                        ChangeIssue, At, Hand
    <2>2. Issues(r)
      BY <1>5, <2>1 DEF SignupIssue, MailVerification, IssueRefresh, MailReset,
          ChangeIssue, GenerateRefresh, GenerateVerify, GenerateReset, GenerateChange,
          Issues, AllKinds
    <2> QED
      BY <1>4, <2>2
  <1>6. CASE RevokePointer(r)
    <2>1. req[r].user \in Users
      BY <1>3, <1>6 DEF RevokePointer, At, Hand
    <2> QED
      BY <1>1, <1>2, <1>6, <2>1, StoreMoves DEF RevokePointer, TakePointer, AllKinds
  <1>7. CASE RevokeToken(r) \/ CancelToken(r)
    BY <1>1, <1>2, <1>3, <1>7, StoreMoves DEF RevokeToken, CancelToken, Local
  <1>8. CASE VerifyForget(r) \/ ResetForget(r) \/ ConfirmForget(r)
    <2>1. req[r].user \in Users
      BY <1>3, <1>8 DEF VerifyForget, ResetForget, ConfirmForget, At, Hand
    <2> QED
      BY <1>1, <1>2, <1>8, <2>1, StoreMoves
      DEF VerifyForget, ResetForget, ConfirmForget, AllKinds
  <1>9. ASSUME NEW t \in Tokens, \/ VerifyEmail(r, t) \/ ConfirmChange(r, t)
                                 \/ \E pw \in Passwords : ResetPassword(r, t, pw)
        PROVE  StoreTypeOK' /\ TokensOwned'
    BY <1>2, <1>9, StoreMoves DEF VerifyEmail, ConfirmChange, ResetPassword, AllKinds
  <1>10. ASSUME NEW u \in Users, CancelChange(r, u)
         PROVE  StoreTypeOK' /\ TokensOwned'
    BY <1>2, <1>10, StoreMoves DEF CancelChange, TakePointer, AllKinds
  <1> QED
    BY <1>1, <1>2, <1>5, <1>6, <1>7, <1>8, <1>9, <1>10 DEF Stores

LEMMA StoresKeepInv ==
    ASSUME AccountInv, NEW r \in Requests, Stores(r)
    PROVE  AccountInv'
  <1>1. /\ StoreTypeOK' /\ TokensOwned' /\ RowsKept
        /\ UNCHANGED <<accountVars, proved>>
    BY StoresTouch
  <1>2. SUFFICES req' \in [Requests -> Local] /\ HandOK' /\ UsersKnown'
    BY <1>1, InvFrom DEF AccountInv, AccountTypeOK, accountVars
  <1>3. /\ req[r] \in Local /\ Hand(req[r])
        /\ users' = users
        /\ key \in [Tokens -> Values \union {None}]
    BY <1>1 DEF AccountInv, AccountTypeOK, HandOK, StoreTypeOK, accountVars
  <1>4. ASSUME Return(r)
        PROVE  req' \in [Requests -> Local] /\ HandOK' /\ UsersKnown'
    BY <1>1, <1>4, Ends
  <1>5. ASSUME NEW place \in {"mailVerify", "setPending", "markVerified", "setPassword",
                              "setEmail", "clearPending"},
               Goto(r, place), Hand([req[r] EXCEPT !.at = place])
        PROVE  req' \in [Requests -> Local] /\ HandOK' /\ UsersKnown'
    BY <1>1, <1>5, GoesOn DEF Places
  <1>6. CASE \/ MailVerification(r) \/ IssueRefresh(r) \/ MailReset(r) \/ RevokeToken(r)
    BY <1>4, <1>6 DEF MailVerification, IssueRefresh, MailReset, RevokeToken
  <1>7. CASE SignupIssue(r)
    <2>1. Hand([req[r] EXCEPT !.at = "mailVerify"])
      BY <1>3, <1>7 DEF SignupIssue, At, Hand, Local
    <2> QED
      BY <1>5, <1>7, <2>1 DEF SignupIssue
  <1>8. CASE ChangeIssue(r)
    <2>1. Hand([req[r] EXCEPT !.at = "setPending"])
      BY <1>3, <1>8 DEF ChangeIssue, At, Hand, Local
    <2> QED
      BY <1>5, <1>8, <2>1 DEF ChangeIssue
  <1>9. CASE VerifyForget(r)
    <2>1. Hand([req[r] EXCEPT !.at = "markVerified"])
      BY <1>3, <1>9 DEF VerifyForget, At, Hand, Local
    <2> QED
      BY <1>5, <1>9, <2>1 DEF VerifyForget
  <1>10. CASE ResetForget(r)
    <2>1. Hand([req[r] EXCEPT !.at = "setPassword"])
      BY <1>3, <1>10 DEF ResetForget, At, Hand, Local
    <2> QED
      BY <1>5, <1>10, <2>1 DEF ResetForget
  <1>11. CASE ConfirmForget(r)
    <2>1. Hand([req[r] EXCEPT !.at = "setEmail"])
      BY <1>3, <1>11 DEF ConfirmForget, At, Hand, Local
    <2> QED
      BY <1>5, <1>11, <2>1 DEF ConfirmForget
  <1>12. CASE CancelToken(r)
    <2>1. Hand([req[r] EXCEPT !.at = "clearPending"])
      BY <1>3, <1>12 DEF CancelToken, At, Hand, Local
    <2> QED
      BY <1>5, <1>12, <2>1 DEF CancelToken
  <1>13. CASE RevokePointer(r)
    <2>1. req[r].user \in Users /\ req[r].user \notin {None}
      BY <1>3, <1>13, TokenAssumption DEF RevokePointer, At, Hand
    <2>2. users'[req[r].user].state # "none"
      BY <1>3, <2>1 DEF AccountInv, AccountTypeOK
    <2>3. ASSUME NEW t \in Tokens \union {None}, Hold(r, "dropRevoked", req[r].user, None, t)
          PROVE  req' \in [Requests -> Local] /\ HandOK' /\ UsersKnown'
      <3>1. Hand([at |-> "dropRevoked", user |-> req[r].user, email |-> None,
                  tok |-> t, pw |-> req[r].pw])
        BY <2>1 DEF Hand
      <3> QED
        BY <1>1, <2>1, <2>2, <2>3, <3>1, Holds DEF Places
    <2> QED
      BY <1>4, <1>13, <2>3 DEF RevokePointer
  <1>14. ASSUME NEW t \in Tokens, VerifyEmail(r, t) \/ ConfirmChange(r, t)
         PROVE  req' \in [Requests -> Local] /\ HandOK' /\ UsersKnown'
    <2>1. key[t] \in Values /\ t \in LiveTokens
      BY <1>3, <1>14 DEF VerifyEmail, ConfirmChange, Take, Verifies, LiveTokens
    <2>2. /\ key[t].user \in Users /\ key[t].to \in Emails
          /\ users'[key[t].user].state # "none"
      BY <1>3, <2>1 DEF Values, AccountInv, TokensOwned, Created
    <2>3. ASSUME NEW place \in {"forgetVerify", "forgetChange"}
          PROVE  Hand([at |-> place, user |-> key[t].user, email |-> key[t].to,
                       tok |-> t, pw |-> req[r].pw])
      BY <2>2 DEF Hand
    <2> QED
      BY <1>1, <1>14, <2>2, <2>3, Holds DEF VerifyEmail, ConfirmChange, Places
  <1>15. ASSUME NEW t \in Tokens, NEW pw \in Passwords, ResetPassword(r, t, pw)
         PROVE  req' \in [Requests -> Local] /\ HandOK' /\ UsersKnown'
    <2> DEFINE new == [at |-> "forgetReset", user |-> key[t].user,
                       email |-> key[t].to, tok |-> t, pw |-> pw]
    <2>1. key[t] \in Values /\ t \in LiveTokens
      BY <1>3, <1>15 DEF ResetPassword, Take, Verifies, LiveTokens
    <2>2. /\ key[t].user \in Users /\ key[t].to \in Emails
          /\ users'[key[t].user].state # "none"
      BY <1>3, <2>1 DEF Values, AccountInv, TokensOwned, Created
    <2>3. new \in Local /\ Hand(new) /\ new.user = key[t].user
      BY <2>2 DEF Hand, Local, Places
    <2> QED
      BY <1>1, <1>15, <2>2, <2>3, OneMoves DEF ResetPassword
  <1>16. ASSUME NEW u \in Users, CancelChange(r, u)
         PROVE  req' \in [Requests -> Local] /\ HandOK' /\ UsersKnown'
    <2>1. users'[u].state # "none"
      BY <1>3, <1>16 DEF CancelChange, Live
    <2>2. PICK t \in Tokens \union {None} :
              Hold(r, IF t = None THEN "clearPending" ELSE "dropChange", u, None, t)
      BY <1>16 DEF CancelChange
    <2>3. ASSUME NEW place \in {"clearPending", "dropChange"}, Hold(r, place, u, None, t)
          PROVE  req' \in [Requests -> Local] /\ HandOK' /\ UsersKnown'
      <3>1. Hand([at |-> place, user |-> u, email |-> None, tok |-> t, pw |-> req[r].pw])
        BY <2>3 DEF Hand
      <3> QED
        BY <1>1, <2>1, <2>3, <3>1, Holds DEF Places
    <2> QED
      BY <2>2, <2>3
  <1> QED
    BY <1>6, <1>7, <1>8, <1>9, <1>10, <1>11, <1>12, <1>13, <1>14, <1>15, <1>16
    DEF Stores

(***************************************************************************)
(* Steps that write a row of users.                                        *)
(***************************************************************************)
Rows(r) ==
    \/ SignupCreate(r) \/ MarkVerified(r) \/ NewPassword(r) \/ SetPassword(r)
    \/ SetPending(r) \/ SetEmail(r) \/ ClearPending(r)
    \/ \E u \in Users : DeleteAccount(r, u)

LEMMA VerifiedRow ==
    ASSUME NEW old \in UserRow, NEW e \in Emails, NEW p \in Emails \union {None}
    PROVE  [old EXCEPT !.email = e, !.pending = p, !.verified = TRUE] \in UserRow
  <1>1. TRUE \in BOOLEAN
    OBVIOUS
  <1> QED
    BY <1>1 DEF UserRow

LEMMA MarkedRow ==
    ASSUME NEW old \in UserRow
    PROVE  [old EXCEPT !.verified = TRUE] \in UserRow
  <1>1. TRUE \in BOOLEAN
    OBVIOUS
  <1> QED
    BY <1>1 DEF UserRow

\* A row that is written is the one the request holds, or that of a deletion.
LEMMA RowWritten ==
    ASSUME AccountInv, NEW u \in Users, NEW row \in UserRow, SetUser(u, row),
           row.state # "none", row.email # None, row.password # None
    PROVE  /\ RowsKept /\ users' \in [Users -> UserRow] /\ users'[u] = row
           /\ \A v \in Users : v # u => users'[v] = users[v]
           /\ \A v \in Users : users'[v].state # "none" =>
                 users'[v].email # None /\ users'[v].password # None
  BY DEF AccountInv, AccountTypeOK, SetUser, RowsKept, Created

LEMMA OwnersKept ==
    ASSUME AccountInv, RowsKept, UNCHANGED storeVars
    PROVE  StoreTypeOK' /\ TokensOwned'
  <1>1. \A t \in LiveTokens : key[t].user \in Users
    BY DEF AccountInv, AccountTypeOK, StoreTypeOK, LiveTokens, Values
  <1> QED
    BY <1>1 DEF AccountInv, AccountTypeOK, StoreTypeOK, TokensOwned, LiveTokens,
                RowsKept, Created, storeVars

LEMMA RowsKeepInv ==
    ASSUME AccountInv, NEW r \in Requests, Rows(r)
    PROVE  AccountInv' /\ RowsKept
  <1>0. /\ UNCHANGED <<storeVars, fails, expiring, resends>>
    BY DEF Rows, SignupCreate, MarkVerified, NewPassword, SetPassword, SetPending,
           SetEmail, ClearPending, DeleteAccount, OnlyUsers
  <1>1. /\ users \in [Users -> UserRow] /\ req[r] \in Local /\ Hand(req[r])
        /\ req[r].user # None => users[req[r].user].state # "none"
        /\ proved \in [Users -> Emails \union {None}] /\ None \notin Users \union Emails
        /\ \A v \in Users : users[v].state # "none" =>
              users[v].email # None /\ users[v].password # None
        /\ req \in [Requests -> Local]
    BY TokenAssumption DEF AccountInv, AccountTypeOK, HandOK
  <1>2. SUFFICES /\ RowsKept /\ users' \in [Users -> UserRow]
                 /\ \A v \in Users : users'[v].state # "none" =>
                       users'[v].email # None /\ users'[v].password # None
                 /\ proved' \in [Users -> Emails \union {None}]
                 /\ req' \in [Requests -> Local] /\ HandOK' /\ UsersKnown'
    BY <1>0, OwnersKept, InvFrom DEF AccountInv, AccountTypeOK
  <1>3. UNCHANGED users => RowsKept
    BY DEF RowsKept, Created
  <1>4. ASSUME RowsKept, Return(r) \/ UNCHANGED req
        PROVE  req' \in [Requests -> Local] /\ HandOK' /\ UsersKnown'
    <2>1. CASE UNCHANGED req
      BY <1>1, <1>4, <2>1
      DEF AccountInv, HandOK, UsersKnown, Hand, RowsKept, Created, AccountTypeOK, Local
    <2> QED
      BY <1>4, <2>1, Ends
  <1>5. CASE SignupCreate(r)
    <2>1. /\ req[r].email \in Emails /\ req[r].pw \in Passwords /\ proved' = proved
          /\ None \notin Passwords
      BY <1>1, <1>5, AccountAssumption DEF SignupCreate, At, Hand, OnlyUsers
    <2>2. CASE Return(r) /\ UNCHANGED users
      BY <1>1, <1>3, <1>4, <2>1, <2>2
    <2>3. ASSUME NEW u \in Users,
                 SetUser(u, [NoUser EXCEPT !.state = "live", !.email = req[r].email,
                                           !.password = req[r].pw]),
                 Hold(r, "issueFirst", u, req[r].email, None)
          PROVE  <1>2!1
      <3> DEFINE row == [NoUser EXCEPT !.state = "live", !.email = req[r].email,
                                       !.password = req[r].pw]
      <3>1. /\ row \in UserRow /\ row.state = "live"
            /\ row.email # None /\ row.password # None
        BY <1>1, <2>1 DEF NoUser, UserRow
      <3>2. /\ RowsKept /\ users' \in [Users -> UserRow] /\ users'[u] = row
            /\ \A v \in Users : users'[v].state # "none" =>
                   users'[v].email # None /\ users'[v].password # None
        BY <2>3, <3>1, RowWritten
      <3>3. Hand([at |-> "issueFirst", user |-> u, email |-> req[r].email,
                  tok |-> None, pw |-> req[r].pw])
        BY <2>1 DEF Hand
      <3>4. users'[u].state # "none"
        BY <3>1, <3>2
      <3> HIDE DEF row
      <3>5. req' \in [Requests -> Local] /\ HandOK' /\ UsersKnown'
        BY <2>1, <2>3, <3>2, <3>3, <3>4, Holds DEF Places
      <3> QED
        BY <1>1, <2>1, <3>2, <3>5
    <2> QED
      BY <1>5, <2>2, <2>3 DEF SignupCreate
  <1>6. ASSUME NEW u \in Users, users[u].state # "none", NEW row \in UserRow,
               SetUser(u, row), row.state # "none",
               row.email # None, row.password # None,
               proved' \in [Users -> Emails \union {None}],
               Return(r) \/ UNCHANGED req
        PROVE  <1>2!1
    BY <1>4, <1>6, RowWritten
  <1>7. ASSUME UNCHANGED users, proved' \in [Users -> Emails \union {None}], Return(r)
        PROVE  <1>2!1
    BY <1>1, <1>3, <1>4, <1>7
  <1>8. CASE MarkVerified(r)
    <2>1. req[r].user \in Users /\ req[r].email \in Emails
      BY <1>1, <1>8 DEF MarkVerified, At, Hand
    <2>2. proved' \in [Users -> Emails \union {None}]
      BY <1>1, <1>8, <2>1 DEF MarkVerified
    <2> DEFINE row == [users[req[r].user] EXCEPT !.verified = TRUE]
    <2>3. /\ row \in UserRow /\ row.state # "none"
          /\ row.email # None /\ row.password # None
      <3>1. /\ users[req[r].user] \in UserRow /\ users[req[r].user].state # "none"
            /\ users[req[r].user].email # None /\ users[req[r].user].password # None
        BY <1>1, <2>1
      <3> QED
        BY <3>1, MarkedRow DEF UserRow
    <2>4. Return(r) /\ (SetUser(req[r].user, row) \/ UNCHANGED users)
      BY <1>8 DEF MarkVerified
    <2> HIDE DEF row
    <2> QED
      BY <1>1, <1>6, <1>7, <2>1, <2>2, <2>3, <2>4
  <1>9. CASE NewPassword(r) \/ SetPassword(r)
    <2>1. req[r].user \in Users /\ req[r].pw \in Passwords /\ proved' = proved
      BY <1>1, <1>9 DEF NewPassword, SetPassword, At, Hand, OnlyUsers
    <2> DEFINE row == [users[req[r].user] EXCEPT !.password = req[r].pw]
    <2>2. /\ row \in UserRow /\ row.state # "none"
          /\ row.email # None /\ row.password # None
      BY <1>1, <2>1, AccountAssumption DEF UserRow
    <2>3. Return(r) /\ (SetUser(req[r].user, row) \/ UNCHANGED users)
      BY <1>9 DEF NewPassword, SetPassword
    <2> HIDE DEF row
    <2> QED
      BY <1>1, <1>6, <1>7, <2>1, <2>2, <2>3
  <1>10. CASE SetPending(r) \/ ClearPending(r)
    <2>1. /\ req[r].user \in Users /\ proved' = proved
          /\ SetPending(r) => req[r].email \in Emails
      BY <1>1, <1>10 DEF SetPending, ClearPending, At, Hand, OnlyUsers
    <2>2. PICK e \in Emails \union {None} :
              SetUser(req[r].user, [users[req[r].user] EXCEPT !.pending = e])
      BY <1>10, <2>1 DEF SetPending, ClearPending
    <2> DEFINE row == [users[req[r].user] EXCEPT !.pending = e]
    <2>3. /\ row \in UserRow /\ row.state # "none"
          /\ row.email # None /\ row.password # None
      BY <1>1, <2>1 DEF UserRow
    <2>4. Return(r) /\ SetUser(req[r].user, row)
      BY <1>10, <2>2 DEF SetPending, ClearPending
    <2> HIDE DEF row
    <2> QED
      BY <1>1, <1>6, <2>1, <2>3, <2>4
  <1>11. CASE SetEmail(r)
    <2>1. req[r].user \in Users /\ req[r].email \in Emails
      BY <1>1, <1>11 DEF SetEmail, At, Hand
    <2>2. proved' \in [Users -> Emails \union {None}]
      BY <1>1, <1>11, <2>1 DEF SetEmail
    <2> DEFINE row == [users[req[r].user] EXCEPT !.email = req[r].email,
                                                 !.pending = None, !.verified = TRUE]
    <2>3. /\ row \in UserRow /\ row.state # "none"
          /\ row.email # None /\ row.password # None
      <3>1. /\ users[req[r].user] \in UserRow /\ users[req[r].user].state # "none"
            /\ users[req[r].user].password # None
        BY <1>1, <2>1
      <3>2. row.state = users[req[r].user].state /\ row.email = req[r].email
            /\ row.password = users[req[r].user].password
        BY <3>1 DEF UserRow
      <3> QED
        BY <1>1, <2>1, <3>1, <3>2, VerifiedRow
    <2>4. Return(r) /\ (SetUser(req[r].user, row) \/ UNCHANGED users)
      BY <1>11 DEF SetEmail, NewAddress
    <2> HIDE DEF row
    <2> QED
      BY <1>1, <1>6, <1>7, <2>1, <2>2, <2>3, <2>4
  <1>12. ASSUME NEW u \in Users, DeleteAccount(r, u)
         PROVE  <1>2!1
    <2> DEFINE row == [users[u] EXCEPT !.state = "deleted"]
    <2>1. users[u].state # "none" /\ proved' = proved
      BY <1>12 DEF DeleteAccount, Live, OnlyUsers
    <2>2. /\ row \in UserRow /\ row.state # "none"
          /\ row.email # None /\ row.password # None
      BY <1>1, <2>1 DEF UserRow
    <2>3. UNCHANGED req /\ SetUser(u, row)
      BY <1>12 DEF DeleteAccount
    <2> HIDE DEF row
    <2> QED
      BY <1>1, <1>6, <2>1, <2>2, <2>3
  <1> QED
    BY <1>5, <1>8, <1>9, <1>10, <1>11, <1>12 DEF Rows

(***************************************************************************)
(* Counters, time and restarts.                                            *)
(***************************************************************************)
LEMMA CountsKeepInv ==
    ASSUME AccountInv, NEW r \in Requests,
           RecordFail(r) \/ ClearFails(r) \/ ResendCount(r)
    PROVE  AccountInv'
  <1>1. UNCHANGED <<storeVars, users, proved>>
    BY DEF RecordFail, ClearFails, ResendCount
  <1>2. RowsKept
    BY <1>1 DEF RowsKept, Created
  <1>3. /\ req[r] \in Local /\ Hand(req[r])
        /\ fails \in [FailKeys -> Nat] /\ expiring \subseteq FailKeys
        /\ resends \in [Users -> 0..(DailyCap + 1)] /\ DailyCap \in Nat
    BY AccountAssumption DEF AccountInv, AccountTypeOK, HandOK
  <1>4. SUFFICES /\ fails' \in [FailKeys -> Nat] /\ expiring' \subseteq FailKeys
                 /\ resends' \in [Users -> 0..(DailyCap + 1)]
                 /\ req' \in [Requests -> Local] /\ HandOK' /\ UsersKnown'
    BY <1>1, <1>2, OwnersKept, InvFrom DEF AccountInv, AccountTypeOK
  <1>5. ASSUME NEW place \in {"failIp", "issue", "mailVerify"}, Goto(r, place),
               Hand([req[r] EXCEPT !.at = place])
        PROVE  req' \in [Requests -> Local] /\ HandOK' /\ UsersKnown'
    BY <1>2, <1>5, GoesOn DEF Places
  <1>6. CASE RecordFail(r)
    <2>1. PICK k \in FailKeys : Counts(k)
      BY <1>3, <1>6 DEF RecordFail, At, Hand, FailKeys
    <2>2. fails' \in [FailKeys -> Nat] /\ expiring' \subseteq FailKeys
      BY <1>3, <2>1 DEF Counts
    <2>3. CASE At(r, "failEmail") /\ Goto(r, "failIp")
      <3>1. Hand([req[r] EXCEPT !.at = "failIp"])
        BY <1>3, <2>3 DEF At, Hand, Local
      <3> QED
        BY <1>3, <1>5, <1>6, <2>2, <2>3, <3>1 DEF RecordFail
    <2> QED
      BY <1>2, <1>3, <1>6, <2>2, <2>3, Ends DEF RecordFail
  <1>7. CASE ClearFails(r)
    <2>1. fails' \in [FailKeys -> Nat] /\ expiring' \subseteq FailKeys
      BY <1>3, <1>7 DEF ClearFails
    <2>2. Hand([req[r] EXCEPT !.at = "issue"])
      BY <1>3, <1>7 DEF ClearFails, At, Hand, Local
    <2> QED
      BY <1>3, <1>5, <1>7, <2>1, <2>2 DEF ClearFails
  <1>8. CASE ResendCount(r)
    <2>1. resends' \in [Users -> 0..(DailyCap + 1)]
      <3>1. \A n \in 0..(DailyCap + 1) :
               (IF n > DailyCap THEN n ELSE n + 1) \in 0..(DailyCap + 1)
        BY <1>3
      <3> QED
        BY <1>3, <1>8, <3>1 DEF ResendCount
    <2>2. Hand([req[r] EXCEPT !.at = "mailVerify"])
      BY <1>3, <1>8 DEF ResendCount, At, Hand, Local
    <2> QED
      BY <1>2, <1>3, <1>5, <1>8, <2>1, <2>2, Ends DEF ResendCount
  <1> QED
    BY <1>6, <1>7, <1>8

Clock ==
    \/ \E t \in Tokens : TokenExpires(t)
    \/ \E k \in FailKeys : CounterExpires(k)
    \/ NewDay
    \/ Stop

LEMMA ClockKeepsInv ==
    ASSUME AccountInv, Clock
    PROVE  AccountInv' /\ UNCHANGED users
  <1>1. UNCHANGED <<users, proved>>
    BY DEF Clock, TokenExpires, CounterExpires, NewDay, Stop, OnlyReq, accountVars
  <1>2. RowsKept
    BY <1>1 DEF RowsKept, Created
  <1>3. StoreTypeOK' /\ TokensOwned'
    <2>1. ASSUME NEW t \in Tokens, TokenExpires(t)
          PROVE  StoreTypeOK' /\ TokensOwned'
      BY <1>1, <2>1, StoreMoves DEF TokenExpires
    <2>2. CASE UNCHANGED storeVars
      BY <1>2, <2>2, OwnersKept
    <2> QED
      BY <2>1, <2>2 DEF Clock, CounterExpires, NewDay, Stop, OnlyReq
  <1>4. req' \in [Requests -> Local] /\ HandOK' /\ UsersKnown'
    <2>1. CASE UNCHANGED req
      BY <1>1, <2>1 DEF AccountInv, AccountTypeOK, HandOK, UsersKnown, Hand, Created
    <2>2. CASE Stop
      BY <2>2, IdleType DEF Stop, HandOK, UsersKnown, Hand
    <2> QED
      BY <2>1, <2>2 DEF Clock, TokenExpires, CounterExpires, NewDay
  <1>5. /\ fails' \in [FailKeys -> Nat] /\ expiring' \subseteq FailKeys
        /\ resends' \in [Users -> 0..(DailyCap + 1)]
    BY AccountAssumption DEF Clock, TokenExpires, CounterExpires, NewDay, Stop, OnlyReq,
        accountVars, AccountInv, AccountTypeOK
  <1> QED
    BY <1>1, <1>2, <1>3, <1>4, <1>5, InvFrom DEF AccountInv, AccountTypeOK

LEMMA NextSplits ==
    ASSUME Next
    PROVE  \/ Clock
           \/ \E r \in Requests : \/ Looks(r) \/ Stores(r) \/ Rows(r)
                                  \/ RecordFail(r) \/ ClearFails(r) \/ ResendCount(r)
  BY DEF Next, Start, Continue, Clock, Looks, Stores, Rows

LEMMA InvStep == AccountInv /\ [Next]_vars => AccountInv'
  <1>1. ASSUME AccountInv, UNCHANGED vars
        PROVE  AccountInv'
    BY <1>1 DEF vars, storeVars, accountVars, AccountInv, AccountTypeOK, StoreTypeOK,
                HandOK, Hand, TokensOwned, LiveTokens, Created
  <1> QED
    BY <1>1, NextSplits, LooksKeepInv, StoresKeepInv, RowsKeepInv, CountsKeepInv,
       ClockKeepsInv

\* The users, the token keys, the counters and what each request holds have
\* their types; a created user keeps an address and a password, and a request
\* that holds a user holds one that was created.
THEOREM AccountTypeCorrect == Spec => []AccountTypeOK
  <1>1. AccountInv => AccountTypeOK
    BY DEF AccountInv
  <1> QED
    BY <1>1, InvInit, InvStep, PTL DEF Spec

(***************************************************************************)
(* A mailed token has one taker: GETDEL kills it, and a token that a       *)
(* request holds is not given out again.                                   *)
(***************************************************************************)
Counters(r) == RecordFail(r) \/ ClearFails(r) \/ ResendCount(r)

\* New tokens are in nobody's hands.
Fresh == \A t \in LiveTokens' : t \in LiveTokens \/ t \notin Held

\* What a request honours after a step, it has honoured before or just taken.
Honest(r) ==
    Honours(r)' => \/ Honours(r) /\ req'[r].tok = req[r].tok
                   \/ req'[r].tok \in LiveTokens /\ req'[r].tok \notin LiveTokens'

LEMMA TakerFrom ==
    ASSUME AccountInv, TokenHasOneTaker, Fresh, NEW r \in Requests, Honest(r),
           \A q \in Requests : q # r => req'[q] = req[q]
    PROVE  TokenHasOneTaker'
  <1>1. \A q \in Requests : Honours(q) => req[q].tok \notin LiveTokens'
    <2>1. ASSUME NEW q \in Requests, Honours(q), req[q].tok \in LiveTokens'
          PROVE  FALSE
      <3>1. req[q].tok \in Tokens /\ None \notin Tokens
        BY <2>1, TokenAssumption DEF LiveTokens
      <3>2. req[q].tok \in Held
        BY <3>1 DEF Held
      <3> QED
        BY <2>1, <3>2 DEF Fresh, TokenHasOneTaker
    <2> QED
      BY <2>1
  <1>2. \A q \in Requests : Honours(q)' /\ q # r =>
            Honours(q) /\ req'[q].tok = req[q].tok
    BY DEF Honours
  <1>3. \A q \in Requests : Honours(q)' => req'[q].tok \notin LiveTokens'
    BY <1>1, <1>2 DEF Honest
  <1>4. \A q, s \in Requests :
           Honours(q)' /\ Honours(s)' /\ req'[q].tok = req'[s].tok => q = s
    BY <1>1, <1>2 DEF Honest, TokenHasOneTaker
  <1> QED
    BY <1>3, <1>4 DEF TokenHasOneTaker

LEMMA GivesFresh ==
    ASSUME AccountInv, NEW r \in Requests, Issues(r)
    PROVE  Fresh
  <1>1. ASSUME NEW k \in AllKinds, Issue(k, req[r].user, req[r].email, Held)
        PROVE  Fresh
    <2>1. CASE UNCHANGED storeVars
      BY <2>1 DEF Fresh, LiveTokens, storeVars
    <2>2. ASSUME NEW t \in Tokens \ Held, Generate(k, req[r].user, req[r].email, t)
          PROVE  Fresh
      BY <2>2 DEF Fresh, LiveTokens, Generate
    <2> QED
      BY <1>1, <2>1, <2>2 DEF Issue
  <1> QED
    BY <1>1 DEF Issues

LEMMA TakerSteps ==
    ASSUME AccountInv, NEW r \in Requests,
           Looks(r) \/ Stores(r) \/ Rows(r) \/ Counters(r)
    PROVE  Fresh /\ Honest(r) /\ \A q \in Requests : q # r => req'[q] = req[q]
  <1>1. /\ req \in [Requests -> Local] /\ req[r] \in Local /\ Hand(req[r])
        /\ key \in [Tokens -> Values \union {None}]
    BY DEF AccountInv, AccountTypeOK, HandOK, StoreTypeOK
  <1>2. ASSUME key' = key
        PROVE  Fresh
    BY <1>2 DEF Fresh, LiveTokens
  <1>3. ASSUME NEW local, req' = [req EXCEPT ![r] = local],
               local.at \notin {"forgetVerify", "markVerified", "forgetReset",
                                "setPassword", "forgetChange", "setEmail"}
        PROVE  Honest(r) /\ \A q \in Requests : q # r => req'[q] = req[q]
    BY <1>1, <1>3 DEF Honest, Honours
  <1>4. ASSUME Return(r)
        PROVE  Honest(r) /\ \A q \in Requests : q # r => req'[q] = req[q]
    BY <1>3, <1>4 DEF Return, Idle
  <1>5. ASSUME NEW place, Goto(r, place),
               place \notin {"forgetVerify", "markVerified", "forgetReset",
                             "setPassword", "forgetChange", "setEmail"}
        PROVE  Honest(r) /\ \A q \in Requests : q # r => req'[q] = req[q]
    BY <1>1, <1>5 DEF Goto, Local, Honest, Honours
  <1>6. ASSUME NEW place, NEW u, NEW e, NEW t, Hold(r, place, u, e, t),
               place \notin {"forgetVerify", "markVerified", "forgetReset",
                             "setPassword", "forgetChange", "setEmail"}
        PROVE  Honest(r) /\ \A q \in Requests : q # r => req'[q] = req[q]
    BY <1>1, <1>6 DEF Hold, Honest, Honours
  <1>7. CASE Looks(r)
    <2>1. key' = key
      BY <1>7 DEF Looks, Signup, Login, LoginCheckIp, LoginPassword, RefreshLoad, OnlyReq,
          Refresh, Logout, Resend, ChangePassword, RequestChange, ForgotPassword, storeVars
    <2>2. ASSUME NEW e \in Emails, NEW pw \in Passwords, Signup(r, e, pw) \/ Login(r, e, pw)
          PROVE  Honest(r) /\ \A q \in Requests : q # r => req'[q] = req[q]
      <3>1. PICK place \in {"create", "checkIp"} :
               req' = [req EXCEPT ![r] = [Idle EXCEPT !.at = place, !.email = e, !.pw = pw]]
        BY <2>2 DEF Signup, Login
      <3>2. [Idle EXCEPT !.at = place, !.email = e, !.pw = pw].at = place
        BY DEF Idle
      <3> QED
        BY <1>3, <3>1, <3>2
    <2>3. CASE LoginCheckIp(r) \/ LoginPassword(r) \/ RefreshLoad(r)
      <3>1. CASE LoginCheckIp(r)
        BY <1>2, <1>4, <1>5, <2>1, <3>1 DEF LoginCheckIp
      <3>2. CASE LoginPassword(r)
        BY <1>2, <1>4, <1>6, <2>1, <3>2 DEF LoginPassword
      <3>3. CASE RefreshLoad(r)
        BY <1>2, <1>5, <2>1, <3>3 DEF RefreshLoad
      <3> QED
        BY <2>3, <3>1, <3>2, <3>3
    <2>4. ASSUME NEW t \in Tokens, Refresh(r, t)
          PROVE  Honest(r) /\ \A q \in Requests : q # r => req'[q] = req[q]
      BY <1>6, <2>4 DEF Refresh
    <2>5. ASSUME NEW u \in Users, \/ Logout(r, u) \/ Resend(r, u)
                                  \/ \E e \in Emails : RequestChange(r, u, e)
          PROVE  Honest(r) /\ \A q \in Requests : q # r => req'[q] = req[q]
      BY <1>6, <2>5 DEF Logout, Resend, RequestChange
    <2>6. ASSUME NEW u \in Users, NEW pw \in Passwords, ChangePassword(r, u, pw)
          PROVE  Honest(r) /\ \A q \in Requests : q # r => req'[q] = req[q]
      BY <1>1, <2>6 DEF ChangePassword, Idle, Honest, Honours
    <2>7. ASSUME NEW e \in Emails, ForgotPassword(r, e)
          PROVE  Honest(r) /\ \A q \in Requests : q # r => req'[q] = req[q]
      BY <1>6, <2>7 DEF ForgotPassword
    <2> QED
      BY <1>2, <1>7, <2>1, <2>2, <2>3, <2>4, <2>5, <2>6, <2>7 DEF Looks
  <1>8. CASE SignupIssue(r) \/ MailVerification(r) \/ IssueRefresh(r) \/ MailReset(r)
             \/ ChangeIssue(r)
    <2>1. req[r].user \in Users /\ req[r].email \in Emails
      BY <1>1, <1>8 DEF SignupIssue, MailVerification, IssueRefresh, MailReset,
                        ChangeIssue, At, Hand
    <2>2. Issues(r)
      BY <1>8, <2>1 DEF SignupIssue, MailVerification, IssueRefresh, MailReset,
          ChangeIssue, GenerateRefresh, GenerateVerify, GenerateReset, GenerateChange,
          Issues, AllKinds
    <2> QED
      BY <1>4, <1>5, <1>8, <2>2, GivesFresh
      DEF SignupIssue, MailVerification, IssueRefresh, MailReset, ChangeIssue
  <1>9. CASE RevokePointer(r) \/ RevokeToken(r) \/ CancelToken(r)
    <2>1. Fresh
      BY <1>2, <1>9 DEF RevokePointer, RevokeToken, CancelToken, TakePointer,
                        DropPointer, DropToken, Fresh, LiveTokens
    <2> QED
      BY <1>4, <1>5, <1>6, <1>9, <2>1 DEF RevokePointer, RevokeToken, CancelToken
  <1>10. CASE VerifyForget(r) \/ ResetForget(r) \/ ConfirmForget(r)
    <2>1. key' = key
      BY <1>10 DEF VerifyForget, ResetForget, ConfirmForget, DropPointer
    <2>2. Honours(r) /\ req'[r].tok = req[r].tok
      BY <1>1, <1>10
      DEF VerifyForget, ResetForget, ConfirmForget, At, Honours, Goto, Local
    <2> QED
      BY <1>1, <1>2, <1>10, <2>1, <2>2
      DEF VerifyForget, ResetForget, ConfirmForget, Goto, Honest
  <1>11. ASSUME NEW t \in Tokens, \/ VerifyEmail(r, t) \/ ConfirmChange(r, t)
                                  \/ \E pw \in Passwords : ResetPassword(r, t, pw)
         PROVE  Fresh /\ Honest(r) /\ \A q \in Requests : q # r => req'[q] = req[q]
    <2>1. PICK k \in AllKinds : Take(k, t)
      BY <1>11 DEF VerifyEmail, ConfirmChange, ResetPassword, AllKinds
    <2>2. t \in LiveTokens /\ t \notin LiveTokens' /\ Fresh
      BY <1>1, <2>1 DEF Take, Verifies, LiveTokens, Fresh
    <2>3. req'[r].tok = t /\ \A q \in Requests : q # r => req'[q] = req[q]
      BY <1>1, <1>11 DEF VerifyEmail, ConfirmChange, ResetPassword, Hold
    <2> QED
      BY <2>2, <2>3 DEF Honest
  <1>12. ASSUME NEW u \in Users, CancelChange(r, u)
         PROVE  Fresh /\ Honest(r) /\ \A q \in Requests : q # r => req'[q] = req[q]
    BY <1>2, <1>6, <1>12 DEF CancelChange, TakePointer, DropPointer
  <1>13. CASE Rows(r)
    <2>1. key' = key
      BY <1>13 DEF Rows, SignupCreate, MarkVerified, NewPassword, SetPassword, SetPending,
          SetEmail, ClearPending, DeleteAccount, OnlyUsers, storeVars
    <2>2. CASE SignupCreate(r)
      BY <1>2, <1>4, <1>6, <2>1, <2>2 DEF SignupCreate
    <2>3. CASE UNCHANGED req
      BY <1>1, <1>2, <2>1, <2>3 DEF Honest, Honours
    <2> QED
      BY <1>2, <1>4, <1>13, <2>1, <2>2, <2>3
      DEF Rows, MarkVerified, NewPassword, SetPassword, SetPending, SetEmail,
          ClearPending, DeleteAccount
  <1>14. CASE Counters(r)
    <2>1. key' = key
      BY <1>14 DEF Counters, RecordFail, ClearFails, ResendCount, storeVars
    <2> QED
      BY <1>2, <1>4, <1>5, <1>14, <2>1 DEF Counters, RecordFail, ClearFails, ResendCount
  <1> QED
    BY <1>7, <1>8, <1>9, <1>10, <1>11, <1>12, <1>13, <1>14 DEF Stores

\* Whatever overlaps, expires or stops, one request honours a mailed token.
THEOREM MailedTokenOnce == Spec => []TokenHasOneTaker
  <1>1. Init => TokenHasOneTaker
    BY DEF Init, Idle, TokenHasOneTaker, Honours
  <1>2. ASSUME AccountInv, TokenHasOneTaker, [Next]_vars
        PROVE  TokenHasOneTaker'
    <2>1. ASSUME NEW r \in Requests, Looks(r) \/ Stores(r) \/ Rows(r) \/ Counters(r)
          PROVE  TokenHasOneTaker'
      BY <1>2, <2>1, TakerSteps, TakerFrom
    <2>2. ASSUME LiveTokens' \subseteq LiveTokens,
                 UNCHANGED req \/ req' = [r \in Requests |-> Idle]
          PROVE  TokenHasOneTaker'
      BY <1>2, <2>2 DEF TokenHasOneTaker, Honours, Idle
    <2>3. CASE Clock
      <3>1. LiveTokens' \subseteq LiveTokens
        <4>1. CASE \E t \in Tokens : TokenExpires(t)
          <5>1. key \in [Tokens -> Values \union {None}]
            BY <1>2 DEF AccountInv, AccountTypeOK, StoreTypeOK
          <5> QED
            BY <4>1, <5>1 DEF TokenExpires, Expire, LiveTokens
        <4>2. CASE key' = key
          BY <4>2 DEF LiveTokens
        <4> QED
          BY <2>3, <4>1, <4>2
          DEF Clock, CounterExpires, NewDay, Stop, OnlyReq, storeVars
      <3>2. UNCHANGED req \/ req' = [r \in Requests |-> Idle]
        BY <2>3 DEF Clock, TokenExpires, CounterExpires, NewDay, Stop
      <3> QED
        BY <2>2, <3>1, <3>2
    <2>4. CASE UNCHANGED vars
      <3>1. LiveTokens' \subseteq LiveTokens /\ UNCHANGED req
        BY <2>4 DEF vars, storeVars, LiveTokens
      <3> QED
        BY <2>2, <3>1
    <2> QED
      BY <1>2, <2>1, <2>3, <2>4, NextSplits DEF Counters
  <1> QED
    BY <1>1, <1>2, InvInit, InvStep, PTL DEF Spec

(***************************************************************************)
(* A refresh token that works is the one its user's pointer names.  What   *)
(* takes the pointer goes on to delete the token, unless the process stops.*)
(***************************************************************************)
LEMMA RevocableKept ==
    ASSUME RefreshIsRevocable,
           \A t \in LiveTokens' : t \in LiveTokens /\ key'[t] = key[t],
           \A t \in LiveTokens' :
               /\ Doomed(t) => Doomed(t)'
               /\ key[t].kind = "refresh" /\ pointer["refresh"][key[t].user] = t =>
                     pointer'["refresh"][key[t].user] = t \/ Doomed(t)'
    PROVE  RefreshIsRevocable'
  BY DEF RefreshIsRevocable

LEMMA RevocableIssued ==
    ASSUME AccountInv, RefreshIsRevocable, NEW k \in AllKinds, NEW u \in Users,
           NEW e \in Emails, NEW t \in Tokens, Generate(k, u, e, t),
           \A s \in Tokens : Doomed(s) => Doomed(s)'
    PROVE  RefreshIsRevocable'
  <1>1. /\ key \in [Tokens -> Values \union {None}]
        /\ pointer \in [AllKinds -> [Users -> Tokens \union {None}]]
    BY DEF AccountInv, AccountTypeOK, StoreTypeOK
  <1>2. ASSUME NEW s \in LiveTokens', key'[s].kind = "refresh"
        PROVE  pointer'["refresh"][key'[s].user] = s \/ Doomed(s)'
    <2>1. s \in Tokens
      BY DEF LiveTokens
    <2>2. CASE s = t
      <3>1. key'[s] = [kind |-> k, user |-> u, to |-> e]
        BY <1>1, <2>1, <2>2 DEF Generate
      <3> QED
        BY <1>1, <1>2, <2>2, <3>1 DEF Generate
    <2>3. CASE s # t
      <3>1. key'[s] = key[s] /\ s \in LiveTokens /\ s # pointer[k][u]
        BY <1>1, <1>2, <2>1, <2>3 DEF Generate, LiveTokens
      <3>2. key[s].user \in Users
        BY <1>1, <3>1 DEF LiveTokens, Values
      <3>3. CASE Doomed(s)
        BY <2>1, <3>3
      <3>4. CASE pointer["refresh"][key[s].user] = s
        <4>1. k # "refresh" \/ key[s].user # u
          BY <3>1, <3>4
        <4> QED
          BY <1>1, <3>1, <3>2, <3>4, <4>1 DEF Generate, AllKinds
      <3> QED
        BY <1>2, <3>1, <3>3, <3>4 DEF RefreshIsRevocable
    <2> QED
      BY <2>2, <2>3
  <1> QED
    BY <1>2 DEF RefreshIsRevocable

\* A request that is not about to delete a token may go anywhere.
LEMMA DoomedStays ==
    ASSUME NEW r \in Requests, req[r].at \notin {"dropRevoked", "dropChange"},
           \A q \in Requests : q # r => req'[q] = req[q]
    PROVE  \A t \in Tokens : Doomed(t) => Doomed(t)'
  BY DEF Doomed

LEMMA RevocableStep ==
    ASSUME AccountInv, RefreshIsRevocable, NEW r \in Requests,
           Looks(r) \/ Stores(r) \/ Rows(r) \/ Counters(r)
    PROVE  RefreshIsRevocable'
  <1>1. /\ req \in [Requests -> Local] /\ req[r] \in Local /\ Hand(req[r])
        /\ key \in [Tokens -> Values \union {None}]
        /\ pointer \in [AllKinds -> [Users -> Tokens \union {None}]]
        /\ None \notin Tokens
    BY TokenAssumption DEF AccountInv, AccountTypeOK, HandOK, StoreTypeOK
  <1>2. \A q \in Requests : q # r => req'[q] = req[q]
    BY TakerSteps
  <1>3. ASSUME UNCHANGED storeVars, req[r].at \notin {"dropRevoked", "dropChange"}
        PROVE  RefreshIsRevocable'
    BY <1>2, <1>3, DoomedStays, RevocableKept DEF storeVars, LiveTokens
  <1>4. CASE Looks(r)
    <2>1. UNCHANGED storeVars
      BY <1>4 DEF Looks, Signup, Login, LoginCheckIp, LoginPassword, RefreshLoad, OnlyReq,
          Refresh, Logout, Resend, ChangePassword, RequestChange, ForgotPassword
    <2>2. req[r].at \notin {"dropRevoked", "dropChange"}
      BY <1>4 DEF Looks, Signup, Login, LoginCheckIp, LoginPassword, RefreshLoad, At,
          Refresh, Logout, Resend, ChangePassword, RequestChange, ForgotPassword, Begin
    <2> QED
      BY <1>3, <2>1, <2>2
  <1>5. CASE Rows(r)
    <2>1. UNCHANGED storeVars
      BY <1>5 DEF Rows, SignupCreate, MarkVerified, NewPassword, SetPassword, SetPending,
          SetEmail, ClearPending, DeleteAccount, OnlyUsers
    <2>2. req[r].at \notin {"dropRevoked", "dropChange"}
      BY <1>5 DEF Rows, SignupCreate, MarkVerified, NewPassword, SetPassword, SetPending,
          SetEmail, ClearPending, DeleteAccount, At, Begin
    <2> QED
      BY <1>3, <2>1, <2>2
  <1>6. CASE Counters(r)
    BY <1>3, <1>6 DEF Counters, RecordFail, ClearFails, ResendCount, At
  <1>7. CASE SignupIssue(r) \/ MailVerification(r) \/ IssueRefresh(r) \/ MailReset(r)
             \/ ChangeIssue(r)
    <2>1. req[r].user \in Users /\ req[r].email \in Emails
      BY <1>1, <1>7 DEF SignupIssue, MailVerification, IssueRefresh, MailReset,
                        ChangeIssue, At, Hand
    <2>2. /\ Issues(r)
          /\ req[r].at \notin {"dropRevoked", "dropChange"}
      BY <1>7, <2>1 DEF SignupIssue, MailVerification, IssueRefresh, MailReset, At,
          ChangeIssue, GenerateRefresh, GenerateVerify, GenerateReset, GenerateChange,
          Issues, AllKinds
    <2>3. \A s \in Tokens : Doomed(s) => Doomed(s)'
      BY <1>2, <2>2, DoomedStays
    <2>4. PICK k \in AllKinds : Issue(k, req[r].user, req[r].email, Held)
      BY <2>2 DEF Issues
    <2>5. CASE UNCHANGED storeVars
      BY <1>3, <2>2, <2>5
    <2>6. ASSUME NEW t \in Tokens, Generate(k, req[r].user, req[r].email, t)
          PROVE  RefreshIsRevocable'
      BY <2>1, <2>3, <2>6, RevocableIssued
    <2> QED
      BY <2>4, <2>5, <2>6 DEF Issue
  <1>8. CASE RevokePointer(r)
    <2>1. PICK t \in Tokens \union {None} :
             /\ TakePointer("refresh", req[r].user, t)
             /\ IF t = None THEN Return(r) ELSE Hold(r, "dropRevoked", req[r].user, None, t)
      BY <1>8 DEF RevokePointer
    <2>2. key' = key /\ LiveTokens' = LiveTokens
      BY <2>1 DEF TakePointer, DropPointer, LiveTokens
    <2>3. \A s \in Tokens : Doomed(s) => Doomed(s)'
      BY <1>2, <1>8, DoomedStays DEF RevokePointer, At
    <2>4. t # None => Doomed(t)'
      BY <1>1, <2>1 DEF Hold, Doomed
    <2>5. \A s \in LiveTokens : pointer["refresh"][key[s].user] = s =>
              pointer'["refresh"][key[s].user] = s \/ s = t
      BY <1>1, <2>1 DEF TakePointer, DropPointer, LiveTokens, Values, AllKinds
    <2> QED
      BY <1>1, <2>2, <2>3, <2>4, <2>5, RevocableKept DEF LiveTokens
  <1>9. CASE RevokeToken(r) \/ CancelToken(r)
    <2>1. /\ DropToken(req[r].tok) /\ pointer' = pointer
      BY <1>9 DEF RevokeToken, CancelToken, DropToken
    <2>2. \A s \in LiveTokens' : s # req[r].tok /\ s \in LiveTokens /\ key'[s] = key[s]
      BY <1>1, <2>1 DEF DropToken, LiveTokens
    <2>3. \A s \in Tokens : s # req[r].tok /\ Doomed(s) => Doomed(s)'
      BY <1>2 DEF Doomed
    <2> QED
      BY <2>1, <2>2, <2>3, RevocableKept DEF LiveTokens
  <1>10. ASSUME NEW k \in AllKinds \ {"refresh"}, NEW u \in Users, DropPointer(k, u),
                req[r].at \notin {"dropRevoked", "dropChange"}
         PROVE  RefreshIsRevocable'
    <2>1. key' = key /\ pointer'["refresh"] = pointer["refresh"]
      BY <1>1, <1>10 DEF DropPointer, AllKinds
    <2>2. \A s \in Tokens : Doomed(s) => Doomed(s)'
      BY <1>2, <1>10, DoomedStays
    <2> QED
      BY <2>1, <2>2, RevocableKept DEF LiveTokens
  <1>11. CASE VerifyForget(r) \/ ResetForget(r) \/ ConfirmForget(r)
    <2>1. req[r].user \in Users /\ req[r].at \notin {"dropRevoked", "dropChange"}
      BY <1>1, <1>11 DEF VerifyForget, ResetForget, ConfirmForget, At, Hand
    <2> QED
      BY <1>10, <1>11, <2>1 DEF VerifyForget, ResetForget, ConfirmForget, AllKinds
  <1>12. ASSUME NEW t \in Tokens, \/ VerifyEmail(r, t) \/ ConfirmChange(r, t)
                                  \/ \E pw \in Passwords : ResetPassword(r, t, pw)
         PROVE  RefreshIsRevocable'
    <2>1. PICK k \in AllKinds : Take(k, t)
      BY <1>12 DEF VerifyEmail, ConfirmChange, ResetPassword, AllKinds
    <2>2. req[r].at \notin {"dropRevoked", "dropChange"}
      BY <1>12 DEF VerifyEmail, ConfirmChange, ResetPassword, Begin, At
    <2>3. \A s \in LiveTokens' : s \in LiveTokens /\ key'[s] = key[s]
      BY <1>1, <2>1 DEF Take, LiveTokens
    <2> QED
      BY <1>2, <2>1, <2>2, <2>3, DoomedStays, RevocableKept DEF Take, LiveTokens
  <1>13. ASSUME NEW u \in Users, CancelChange(r, u)
         PROVE  RefreshIsRevocable'
    BY <1>10, <1>13 DEF CancelChange, TakePointer, Begin, At, AllKinds
  <1> QED
    BY <1>4, <1>5, <1>6, <1>7, <1>8, <1>9, <1>11, <1>12, <1>13 DEF Stores

LEMMA RevocableClock ==
    ASSUME AccountInv, RefreshIsRevocable, Clock, "stop" \notin Handlers
    PROVE  RefreshIsRevocable'
  <1>1. req' = req
    BY DEF Clock, TokenExpires, CounterExpires, NewDay, Stop
  <1>2. \A t \in Tokens : Doomed(t) => Doomed(t)'
    BY <1>1 DEF Doomed
  <1>3. ASSUME NEW t \in Tokens, TokenExpires(t)
        PROVE  RefreshIsRevocable'
    <2>1. /\ key \in [Tokens -> Values \union {None}]
          /\ pointer \in [AllKinds -> [Users -> Tokens \union {None}]]
      BY DEF AccountInv, AccountTypeOK, StoreTypeOK
    <2>2. \A s \in LiveTokens' : s # t /\ s \in LiveTokens /\ key'[s] = key[s]
      BY <1>3, <2>1 DEF TokenExpires, Expire, LiveTokens
    <2>3. \A s \in LiveTokens' : pointer["refresh"][key[s].user] = s =>
              pointer'["refresh"][key[s].user] = s
      BY <1>3, <2>1, <2>2 DEF TokenExpires, Expire, LiveTokens, AllKinds, Values
    <2> QED
      BY <1>2, <2>2, <2>3, RevocableKept DEF LiveTokens
  <1>4. CASE UNCHANGED storeVars
    BY <1>2, <1>4, RevocableKept DEF storeVars, LiveTokens
  <1> QED
    BY <1>3, <1>4 DEF Clock, CounterExpires, NewDay, Stop

\* While the process lives, logging out reaches every refresh token that works.
THEOREM RefreshRevocable ==
    ASSUME "stop" \notin Handlers
    PROVE  Spec => []RefreshIsRevocable
  <1>1. Init => RefreshIsRevocable
    BY DEF Init, InitStore, RefreshIsRevocable, LiveTokens
  <1>2. AccountInv /\ RefreshIsRevocable /\ [Next]_vars => RefreshIsRevocable'
    <2>1. ASSUME RefreshIsRevocable, UNCHANGED vars
          PROVE  RefreshIsRevocable'
      BY <2>1, RevocableKept DEF vars, storeVars, LiveTokens, Doomed
    <2> QED
      BY <2>1, NextSplits, RevocableStep, RevocableClock DEF Counters
  <1> QED
    BY <1>1, <1>2, InvInit, InvStep, PTL DEF Spec

(***************************************************************************)
(* An address is proved by the token mailed to it.  Until it is verified,  *)
(* an account keeps the address it was created with, so a verification     *)
(* token is for the address the row still has; a changed address is the    *)
(* one in the token that changes it.                                       *)
(***************************************************************************)
Unverified(u) == ~ users[u].verified

TokensMatch ==
    \A t \in LiveTokens :
        key[t].kind = "verify" /\ Unverified(key[t].user) =>
            key[t].to = users[key[t].user].email

Verifying(local) == local.at \in {"issueFirst", "mailVerify", "count",
                                  "forgetVerify", "markVerified"}
RequestsMatch ==
    \A r \in Requests : Verifying(req[r]) /\ Unverified(req[r].user) =>
        req[r].email = users[req[r].user].email

AddressInv == AddressProved /\ TokensMatch /\ RequestsMatch

\* An address is fixed while it is not verified.
Settled ==
    \A v \in Users : Created(v) /\ ~ users'[v].verified =>
        Unverified(v) /\ users'[v].email = users[v].email

\* What a step of one request must show of its own record.
MatchesNow(r) ==
    Verifying(req[r])' /\ ~ users'[req'[r].user].verified =>
        req'[r].email = users'[req'[r].user].email

LEMMA MatchFrom ==
    ASSUME AccountInv, AddressInv, Settled, NEW r \in Requests, MatchesNow(r),
           \A q \in Requests : q # r => req'[q] = req[q]
    PROVE  RequestsMatch'
  <1>1. ASSUME NEW q \in Requests, q # r, Verifying(req[q]),
               ~ users'[req[q].user].verified
        PROVE  req[q].email = users'[req[q].user].email
    <2>1. req[q].user \in Users
      BY <1>1 DEF AccountInv, HandOK, Hand, Verifying
    <2>2. Created(req[q].user)
      BY <2>1, TokenAssumption DEF AccountInv, AccountTypeOK, Created
    <2>3. Unverified(req[q].user) /\ users'[req[q].user].email = users[req[q].user].email
      BY <1>1, <2>1, <2>2 DEF Settled
    <2> QED
      BY <1>1, <2>3 DEF AddressInv, RequestsMatch
  <1> QED
    BY <1>1 DEF RequestsMatch, MatchesNow, Verifying, Unverified

LEMMA TokensFrom ==
    ASSUME AccountInv, AddressInv, Settled,
           \A t \in LiveTokens' :
               \/ t \in LiveTokens /\ key'[t] = key[t]
               \/ key'[t].kind # "verify"
               \/ /\ ~ users'[key'[t].user].verified =>
                        key'[t].to = users'[key'[t].user].email
    PROVE  TokensMatch'
  <1>1. ASSUME NEW t \in LiveTokens, ~ users'[key[t].user].verified,
               key[t].kind = "verify"
        PROVE  key[t].to = users'[key[t].user].email
    <2>1. key[t].user \in Users /\ Created(key[t].user)
      BY DEF AccountInv, AccountTypeOK, StoreTypeOK, TokensOwned, LiveTokens, Values
    <2>2. Unverified(key[t].user) /\ users'[key[t].user].email = users[key[t].user].email
      BY <1>1, <2>1 DEF Settled
    <2> QED
      BY <1>1, <2>2 DEF AddressInv, TokensMatch
  <1> QED
    BY <1>1 DEF TokensMatch, Unverified

LEMMA SameUsersSettled ==
    ASSUME users' = users
    PROVE  Settled /\ (AddressProved /\ proved' = proved => AddressProved')
  BY DEF Settled, Unverified, AddressProved, Verified, Live

LEMMA AddressLooks ==
    ASSUME AccountInv, AddressInv, NEW r \in Requests, Looks(r) \/ Counters(r)
    PROVE  AddressInv'
  <1>1. UNCHANGED <<storeVars, users, proved>>
    BY DEF Counters, RecordFail, ClearFails, ResendCount,
           Looks, Signup, Login, LoginCheckIp, LoginPassword, RefreshLoad, Refresh, Logout,
           Resend, ChangePassword, RequestChange, ForgotPassword, OnlyReq, accountVars
  <1>2. /\ req \in [Requests -> Local] /\ req[r] \in Local
        /\ Settled /\ AddressProved'
    BY <1>1, SameUsersSettled DEF AccountInv, AccountTypeOK, AddressInv
  <1>3. TokensMatch'
    BY <1>1, <1>2, TokensFrom DEF storeVars, LiveTokens
  <1>4. SUFFICES MatchesNow(r)
    BY <1>2, <1>3, TakerSteps, MatchFrom DEF AddressInv
  <1>5. ASSUME ~ Verifying(req'[r])
        PROVE  MatchesNow(r)
    BY <1>5 DEF MatchesNow, Verifying
  <1>6. ASSUME NEW u \in Users, Resend(r, u)
        PROVE  MatchesNow(r)
    <2>1. req'[r].user = u /\ req'[r].email = users[u].email
      BY <1>2, <1>6 DEF Resend, Hold
    <2> QED
      BY <1>1, <2>1 DEF MatchesNow
  <1>7. CASE ResendCount(r)
    <2>1. CASE Return(r)
      BY <1>2, <1>5, <2>1 DEF Return, Idle, Verifying
    <2>2. CASE Goto(r, "mailVerify")
      <3>1. /\ req'[r].user = req[r].user /\ req'[r].email = req[r].email
            /\ Verifying(req[r])
        BY <1>2, <1>7, <2>2 DEF Goto, Local, ResendCount, At, Verifying
      <3> QED
        BY <1>1, <3>1 DEF MatchesNow, AddressInv, RequestsMatch, Unverified
    <2> QED
      BY <1>7, <2>1, <2>2 DEF ResendCount
  <1>8. ASSUME NEW place, Goto(r, place), ~ Verifying([req[r] EXCEPT !.at = place])
        PROVE  MatchesNow(r)
    BY <1>2, <1>5, <1>8 DEF Goto
  <1>9. ASSUME NEW place \in {"clear", "failEmail", "load", "revoke", "mailReset",
                              "issueChange"},
               NEW u, NEW e, NEW t, Hold(r, place, u, e, t)
        PROVE  MatchesNow(r)
    BY <1>2, <1>5, <1>9 DEF Hold, Verifying
  <1>10. ASSUME Return(r)
         PROVE  MatchesNow(r)
    BY <1>2, <1>5, <1>10 DEF Return, Idle, Verifying
  <1>11. CASE LoginCheckIp(r) \/ LoginPassword(r) \/ RefreshLoad(r)
    <2>1. ASSUME NEW place \in {"password", "issue", "revoke"}
          PROVE  ~ Verifying([req[r] EXCEPT !.at = place])
      BY <1>2 DEF Verifying, Local
    <2> QED
      BY <1>8, <1>9, <1>10, <1>11, <2>1 DEF LoginCheckIp, LoginPassword, RefreshLoad
  <1>12. CASE RecordFail(r) \/ ClearFails(r)
    <2>1. ASSUME NEW place \in {"failIp", "issue"}
          PROVE  ~ Verifying([req[r] EXCEPT !.at = place])
      BY <1>2 DEF Verifying, Local
    <2> QED
      BY <1>8, <1>10, <1>12, <2>1 DEF RecordFail, ClearFails
  <1>13. ASSUME NEW e \in Emails, NEW pw \in Passwords, Signup(r, e, pw) \/ Login(r, e, pw)
         PROVE  MatchesNow(r)
    BY <1>2, <1>5, <1>13 DEF Signup, Login, Idle, Verifying
  <1>14. ASSUME NEW u \in Users, NEW pw \in Passwords, ChangePassword(r, u, pw)
         PROVE  MatchesNow(r)
    BY <1>2, <1>5, <1>14 DEF ChangePassword, Idle, Verifying
  <1>15. ASSUME \/ \E t \in Tokens : Refresh(r, t)
                \/ \E u \in Users : Logout(r, u)
                \/ \E u \in Users, e \in Emails : RequestChange(r, u, e)
                \/ \E e \in Emails : ForgotPassword(r, e)
         PROVE  MatchesNow(r)
    BY <1>9, <1>15 DEF Refresh, Logout, RequestChange, ForgotPassword
  <1> QED
    BY <1>6, <1>7, <1>11, <1>12, <1>13, <1>14, <1>15 DEF Looks, Counters

LEMMA AddressStores ==
    ASSUME AccountInv, AddressInv, NEW r \in Requests, Stores(r)
    PROVE  AddressInv'
  <1>1. UNCHANGED <<users, proved>>
    BY StoresTouch DEF accountVars
  <1>2. /\ req \in [Requests -> Local] /\ req[r] \in Local /\ Hand(req[r])
        /\ key \in [Tokens -> Values \union {None}]
        /\ Settled /\ AddressProved'
    BY <1>1, SameUsersSettled
    DEF AccountInv, AccountTypeOK, HandOK, StoreTypeOK, AddressInv
  <1>3. ASSUME ~ Verifying(req'[r])
        PROVE  MatchesNow(r)
    BY <1>3 DEF MatchesNow, Verifying
  <1>4. ASSUME NEW place, Goto(r, place), Verifying(req[r])
        PROVE  MatchesNow(r)
    <2>1. req'[r].user = req[r].user /\ req'[r].email = req[r].email
      BY <1>2, <1>4 DEF Goto, Local
    <2> QED
      BY <1>1, <1>4, <2>1 DEF MatchesNow, AddressInv, RequestsMatch, Unverified
  <1>5. ASSUME NEW place \in {"setPending", "setPassword", "setEmail", "clearPending"},
               Goto(r, place)
        PROVE  MatchesNow(r)
    BY <1>2, <1>3, <1>5 DEF Goto, Local, Verifying
  <1>6. ASSUME Return(r)
        PROVE  MatchesNow(r)
    BY <1>2, <1>3, <1>6 DEF Return, Idle, Verifying
  <1>7. SUFFICES TokensMatch' /\ MatchesNow(r)
    BY <1>2, TakerSteps, MatchFrom DEF AddressInv
  <1>8. ASSUME \A t \in LiveTokens' : t \in LiveTokens /\ key'[t] = key[t]
        PROVE  TokensMatch'
    BY <1>2, <1>8, TokensFrom
  <1>9. ASSUME NEW k \in AllKinds, NEW u, NEW e, Issue(k, u, e, Held),
               k = "verify" => (Unverified(u) => e = users[u].email)
        PROVE  TokensMatch'
    <2>1. CASE UNCHANGED storeVars
      BY <1>8, <2>1 DEF storeVars, LiveTokens
    <2>2. ASSUME NEW t \in Tokens, Generate(k, u, e, t)
          PROVE  TokensMatch'
      <3>1. key'[t] = [kind |-> k, user |-> u, to |-> e]
        BY <2>2 DEF Generate
      <3>2. \A s \in LiveTokens' : s # t => s \in LiveTokens /\ key'[s] = key[s]
        BY <2>2 DEF Generate, LiveTokens
      <3>3. \/ key'[t].kind # "verify"
            \/ ~ users'[key'[t].user].verified => key'[t].to = users'[key'[t].user].email
        BY <1>1, <1>9, <3>1 DEF Unverified
      <3> QED
        BY <1>2, <3>2, <3>3, TokensFrom
    <2> QED
      BY <1>9, <2>1, <2>2 DEF Issue
  <1>10. CASE MailVerification(r)
    <2>1. Unverified(req[r].user) => req[r].email = users[req[r].user].email
      BY <1>10 DEF MailVerification, At, Verifying, AddressInv, RequestsMatch
    <2> QED
      BY <1>6, <1>9, <1>10, <2>1 DEF MailVerification, GenerateVerify, AllKinds
  <1>11. CASE SignupIssue(r)
    BY <1>4, <1>9, <1>11
    DEF SignupIssue, GenerateRefresh, AllKinds, At, Verifying
  <1>12. CASE IssueRefresh(r) \/ MailReset(r) \/ ChangeIssue(r)
    BY <1>5, <1>6, <1>9, <1>12
    DEF IssueRefresh, MailReset, ChangeIssue, GenerateRefresh, GenerateReset,
        GenerateChange, AllKinds
  <1>13. CASE RevokePointer(r)
    <2>1. key' = key
      BY <1>13 DEF RevokePointer, TakePointer, DropPointer
    <2>2. MatchesNow(r)
      BY <1>2, <1>3, <1>6, <1>13 DEF RevokePointer, Hold, Verifying
    <2> QED
      BY <1>8, <2>1, <2>2 DEF LiveTokens
  <1>14. CASE RevokeToken(r) \/ CancelToken(r)
    <2>1. \A t \in LiveTokens' : t \in LiveTokens /\ key'[t] = key[t]
      BY <1>14 DEF RevokeToken, CancelToken, DropToken, LiveTokens
    <2> QED
      BY <1>5, <1>6, <1>8, <1>14, <2>1 DEF RevokeToken, CancelToken
  <1>15. CASE VerifyForget(r) \/ ResetForget(r) \/ ConfirmForget(r)
    <2>1. key' = key
      BY <1>15 DEF VerifyForget, ResetForget, ConfirmForget, DropPointer
    <2>2. MatchesNow(r)
      BY <1>4, <1>5, <1>15 DEF VerifyForget, ResetForget, ConfirmForget, At, Verifying
    <2> QED
      BY <1>8, <2>1, <2>2 DEF LiveTokens
  <1>16. ASSUME NEW t \in Tokens, \/ VerifyEmail(r, t) \/ ConfirmChange(r, t)
                                  \/ \E pw \in Passwords : ResetPassword(r, t, pw)
         PROVE  TokensMatch' /\ MatchesNow(r)
    <2>1. \A s \in LiveTokens' : s \in LiveTokens /\ key'[s] = key[s]
      BY <1>2, <1>16 DEF VerifyEmail, ConfirmChange, ResetPassword, Take, LiveTokens
    <2>2. CASE VerifyEmail(r, t)
      <3>1. req'[r].user = key[t].user /\ req'[r].email = key[t].to
        BY <1>2, <2>2 DEF VerifyEmail, Hold
      <3>2. t \in LiveTokens /\ key[t].kind = "verify"
        BY <2>2 DEF VerifyEmail, Take, Verifies, LiveTokens
      <3>3. MatchesNow(r)
        BY <1>1, <3>1, <3>2 DEF MatchesNow, AddressInv, TokensMatch, Unverified
      <3> QED
        BY <1>8, <2>1, <3>3
    <2>3. CASE ConfirmChange(r, t) \/ \E pw \in Passwords : ResetPassword(r, t, pw)
      <3>1. req'[r].at \in {"forgetChange", "forgetReset"}
        BY <1>2, <2>3 DEF ConfirmChange, ResetPassword, Hold
      <3> QED
        BY <1>3, <1>8, <2>1, <3>1 DEF Verifying
    <2> QED
      BY <1>16, <2>2, <2>3
  <1>17. ASSUME NEW u \in Users, CancelChange(r, u)
         PROVE  TokensMatch' /\ MatchesNow(r)
    <2>1. key' = key
      BY <1>17 DEF CancelChange, TakePointer, DropPointer
    <2>2. req'[r].at \in {"clearPending", "dropChange"}
      BY <1>2, <1>17 DEF CancelChange, Hold
    <2> QED
      BY <1>3, <1>8, <2>1, <2>2 DEF Verifying, LiveTokens
  <1> QED
    BY <1>10, <1>11, <1>12, <1>13, <1>14, <1>15, <1>16, <1>17 DEF Stores

LEMMA AddressRows ==
    ASSUME AccountInv, AddressInv, NEW r \in Requests, Rows(r)
    PROVE  AddressInv'
  <1>0. UNCHANGED storeVars
    BY DEF Rows, SignupCreate, MarkVerified, NewPassword, SetPassword, SetPending,
           SetEmail, ClearPending, DeleteAccount, OnlyUsers
  <1>1. /\ req \in [Requests -> Local] /\ req[r] \in Local /\ Hand(req[r])
        /\ users \in [Users -> UserRow]
        /\ \A q \in Requests : q # r => req'[q] = req[q]
        /\ proved \in [Users -> Emails \union {None}]
    BY TakerSteps DEF AccountInv, AccountTypeOK, HandOK
  <1>2. ASSUME Settled, AddressProved', MatchesNow(r)
        PROVE  AddressInv'
    <2>1. TokensMatch'
      BY <1>0, <1>2, TokensFrom DEF storeVars, LiveTokens
    <2> QED
      BY <1>1, <1>2, <2>1, MatchFrom DEF AddressInv
  <1>3. ASSUME Return(r)
        PROVE  MatchesNow(r)
    <2>1. req'[r] = Idle
      BY <1>1, <1>3 DEF Return
    <2> QED
      BY <2>1 DEF MatchesNow, Verifying, Idle
  <1>4. ASSUME UNCHANGED users, proved' = proved, Return(r)
        PROVE  AddressInv'
    BY <1>2, <1>3, <1>4, SameUsersSettled DEF AddressInv
  <1>5. ASSUME NEW u \in Users, NEW row, SetUser(u, row), Return(r) \/ UNCHANGED req,
               Created(u), row.verified => users[u].verified,
               ~ row.verified => ~ users[u].verified,
               row.email = users[u].email, proved' = proved,
               row.state = "live" => Live(u)
        PROVE  AddressInv'
    <2>1. users'[u] = row /\ \A v \in Users : v # u => users'[v] = users[v]
      BY <1>1, <1>5 DEF SetUser
    <2>2. Settled
      BY <1>5, <2>1 DEF Settled, Unverified
    <2>3. AddressProved'
      BY <1>5, <2>1 DEF AddressProved, AddressInv, Verified, Live
    <2>4. CASE UNCHANGED req
      <3>1. ASSUME Verifying(req[r]), ~ users'[req[r].user].verified
            PROVE  req[r].email = users'[req[r].user].email
        <4>1. req[r].user \in Users /\ Created(req[r].user)
          BY <1>1, <3>1, TokenAssumption
          DEF Hand, Verifying, AccountInv, AccountTypeOK, Created
        <4> QED
          BY <2>2, <3>1, <4>1 DEF Settled, AddressInv, RequestsMatch
      <3> QED
        BY <1>2, <2>2, <2>3, <2>4, <3>1 DEF MatchesNow, Verifying
    <2> QED
      BY <1>2, <1>3, <1>5, <2>2, <2>3, <2>4
  <1>6. ASSUME req[r].user \in Users
        PROVE  Created(req[r].user)
    BY <1>6, TokenAssumption DEF AccountInv, AccountTypeOK, Created
  <1>7. CASE SignupCreate(r)
    <2>1. proved' = proved
      BY <1>7 DEF SignupCreate, OnlyUsers
    <2>2. CASE Return(r) /\ UNCHANGED users
      BY <1>4, <2>1, <2>2
    <2>3. ASSUME NEW u \in Users, users[u] = NoUser,
                 SetUser(u, [NoUser EXCEPT !.state = "live", !.email = req[r].email,
                                           !.password = req[r].pw]),
                 Hold(r, "issueFirst", u, req[r].email, None)
          PROVE  AddressInv'
      <3>1. /\ users'[u].email = req[r].email /\ users'[u].verified = FALSE
            /\ \A v \in Users : v # u => users'[v] = users[v]
        BY <1>1, <2>3 DEF SetUser, NoUser
      <3>2. ~ Created(u)
        BY <2>3 DEF Created, NoUser
      <3>3. Settled
        BY <3>1, <3>2 DEF Settled, Unverified
      <3>4. AddressProved'
        BY <2>1, <3>1 DEF AddressProved, AddressInv, Verified, Live
      <3>5. req'[r].user = u /\ req'[r].email = req[r].email
        BY <1>1, <2>3 DEF Hold
      <3> QED
        BY <1>2, <3>1, <3>3, <3>4, <3>5 DEF MatchesNow
    <2> QED
      BY <1>7, <2>2, <2>3 DEF SignupCreate
  <1>8. ASSUME NEW u \in Users, users'[u].verified, proved'[u] = users'[u].email,
               \A v \in Users : v # u => users'[v] = users[v] /\ proved'[v] = proved[v],
               Return(r)
        PROVE  AddressInv'
    <2>1. Settled
      BY <1>8 DEF Settled, Unverified
    <2>2. AddressProved'
      BY <1>8 DEF AddressProved, AddressInv, Verified, Live
    <2> QED
      BY <1>2, <1>3, <1>8, <2>1, <2>2
  <1>9. CASE MarkVerified(r)
    <2>1. req[r].user \in Users
      BY <1>1, <1>9 DEF MarkVerified, At, Hand
    <2>2. CASE UNCHANGED <<users, proved>>
      BY <1>4, <1>9, <2>2 DEF MarkVerified
    <2>3. CASE /\ Live(req[r].user) /\ ~ Verified(req[r].user)
               /\ SetUser(req[r].user, [users[req[r].user] EXCEPT !.verified = TRUE])
               /\ proved' = [proved EXCEPT ![req[r].user] = req[r].email]
      <3>1. req[r].email = users[req[r].user].email
        BY <1>9, <2>3 DEF MarkVerified, At, Verifying, AddressInv, RequestsMatch,
                          Unverified, Verified
      <3>2. users[req[r].user] \in UserRow
        BY <1>1, <2>1
      <3>3. /\ users'[req[r].user] = [users[req[r].user] EXCEPT !.verified = TRUE]
            /\ proved'[req[r].user] = req[r].email
            /\ \A v \in Users : v # req[r].user =>
                  users'[v] = users[v] /\ proved'[v] = proved[v]
        BY <1>1, <2>1, <2>3 DEF SetUser
      <3>4. users'[req[r].user].verified /\ users'[req[r].user].email = req[r].email
        BY <3>1, <3>2, <3>3 DEF UserRow
      <3> QED
        BY <1>8, <1>9, <2>1, <3>3, <3>4 DEF MarkVerified
    <2> QED
      BY <1>9, <2>2, <2>3 DEF MarkVerified
  <1>10. CASE SetEmail(r)
    <2>1. req[r].user \in Users
      BY <1>1, <1>10 DEF SetEmail, At, Hand
    <2>2. CASE UNCHANGED <<users, proved>>
      BY <1>4, <1>10, <2>2 DEF SetEmail
    <2>3. CASE /\ SetUser(req[r].user,
                          [users[req[r].user] EXCEPT !.email = req[r].email,
                                       !.pending = None, !.verified = TRUE])
               /\ proved' = [proved EXCEPT ![req[r].user] = req[r].email]
      <3>1. users[req[r].user] \in UserRow
        BY <1>1, <2>1
      <3>2. /\ users'[req[r].user] = [users[req[r].user] EXCEPT !.email = req[r].email,
                                                    !.pending = None, !.verified = TRUE]
            /\ proved'[req[r].user] = req[r].email
            /\ \A v \in Users : v # req[r].user =>
                  users'[v] = users[v] /\ proved'[v] = proved[v]
        BY <1>1, <2>1, <2>3 DEF SetUser
      <3>3. users'[req[r].user].verified /\ users'[req[r].user].email = req[r].email
        BY <3>1, <3>2 DEF UserRow
      <3> QED
        BY <1>8, <1>10, <2>1, <3>2, <3>3 DEF SetEmail
    <2> QED
      BY <1>10, <2>2, <2>3 DEF SetEmail, NewAddress
  <1>11. CASE NewPassword(r) \/ SetPassword(r) \/ SetPending(r) \/ ClearPending(r)
    <2>1. /\ req[r].user \in Users /\ proved' = proved /\ Return(r)
      BY <1>1, <1>11 DEF NewPassword, SetPassword, SetPending, ClearPending, At, Hand,
                         OnlyUsers
    <2>2. users[req[r].user] \in UserRow
      BY <1>1, <2>1
    <2>3. CASE NewPassword(r) \/ SetPassword(r)
      <3> DEFINE row == [users[req[r].user] EXCEPT !.password = req[r].pw]
      <3>1. /\ row.verified = users[req[r].user].verified
            /\ row.email = users[req[r].user].email
            /\ row.state = users[req[r].user].state
        BY <2>2 DEF UserRow
      <3>2. SetUser(req[r].user, row) \/ UNCHANGED users
        BY <2>3 DEF NewPassword, SetPassword
      <3> HIDE DEF row
      <3> QED
        BY <1>4, <1>5, <1>6, <2>1, <3>1, <3>2 DEF Live
    <2>4. CASE SetPending(r) \/ ClearPending(r)
      <3>1. PICK e : SetUser(req[r].user, [users[req[r].user] EXCEPT !.pending = e])
        BY <2>4 DEF SetPending, ClearPending
      <3> DEFINE row == [users[req[r].user] EXCEPT !.pending = e]
      <3>2. /\ row.verified = users[req[r].user].verified
            /\ row.email = users[req[r].user].email
            /\ row.state = users[req[r].user].state
        BY <2>2 DEF UserRow
      <3>3. SetUser(req[r].user, row)
        BY <3>1
      <3> HIDE DEF row
      <3> QED
        BY <1>5, <1>6, <2>1, <3>2, <3>3 DEF Live
    <2> QED
      BY <1>11, <2>3, <2>4
  <1>12. ASSUME NEW u \in Users, DeleteAccount(r, u)
         PROVE  AddressInv'
    <2> DEFINE row == [users[u] EXCEPT !.state = "deleted"]
    <2>1. users[u] \in UserRow /\ Created(u)
      BY <1>1, <1>12 DEF DeleteAccount, Live, Created
    <2>2. /\ row.verified = users[u].verified /\ row.email = users[u].email
          /\ row.state = "deleted"
      BY <2>1 DEF UserRow
    <2>3. SetUser(u, row) /\ UNCHANGED req /\ proved' = proved
      BY <1>12 DEF DeleteAccount, OnlyUsers
    <2> HIDE DEF row
    <2> QED
      BY <1>5, <2>1, <2>2, <2>3
  <1> QED
    BY <1>7, <1>9, <1>10, <1>11, <1>12 DEF Rows

LEMMA AddressClock ==
    ASSUME AccountInv, AddressInv, Clock
    PROVE  AddressInv'
  <1>1. UNCHANGED <<users, proved>>
    BY DEF Clock, TokenExpires, CounterExpires, NewDay, Stop, OnlyReq, accountVars
  <1>2. Settled /\ AddressProved'
    BY <1>1, SameUsersSettled DEF AddressInv
  <1>3. \A t \in LiveTokens' : t \in LiveTokens /\ key'[t] = key[t]
    <2>1. CASE \E t \in Tokens : TokenExpires(t)
      <3>1. key \in [Tokens -> Values \union {None}]
        BY DEF AccountInv, AccountTypeOK, StoreTypeOK
      <3> QED
        BY <2>1, <3>1 DEF TokenExpires, Expire, LiveTokens
    <2>2. CASE key' = key
      BY <2>2 DEF LiveTokens
    <2> QED
      BY <2>1, <2>2 DEF Clock, CounterExpires, NewDay, Stop, OnlyReq, storeVars
  <1>4. TokensMatch'
    BY <1>2, <1>3, TokensFrom
  <1>5. RequestsMatch'
    <2>1. CASE UNCHANGED req
      BY <1>1, <2>1 DEF AddressInv, RequestsMatch, Verifying, Unverified
    <2>2. CASE req' = [r \in Requests |-> Idle]
      BY <2>2 DEF RequestsMatch, Verifying, Idle
    <2> QED
      BY <2>1, <2>2 DEF Clock, TokenExpires, CounterExpires, NewDay, Stop
  <1> QED
    BY <1>2, <1>4, <1>5 DEF AddressInv

\* A verified account has the address that a mailed token came back from.
THEOREM AddressesProved == Spec => []AddressProved
  <1>1. Init => AddressInv
    BY DEF Init, InitStore, AddressInv, AddressProved, Verified, Live, NoUser,
           TokensMatch, LiveTokens, RequestsMatch, Verifying, Idle
  <1>2. ASSUME AddressInv, UNCHANGED vars
        PROVE  AddressInv'
    BY <1>2 DEF vars, storeVars, accountVars, AddressInv, AddressProved, Verified, Live,
                TokensMatch, LiveTokens, RequestsMatch, Verifying, Unverified
  <1>3. AccountInv /\ AddressInv /\ [Next]_vars => AddressInv'
    BY <1>2, NextSplits, AddressLooks, AddressStores, AddressRows, AddressClock
    DEF Counters
  <1>4. AddressInv => AddressProved
    BY DEF AddressInv
  <1> QED
    BY <1>1, <1>3, <1>4, InvInit, InvStep, PTL DEF Spec

(***************************************************************************)
(* The lockout.  A request that has passed the check of a counter and may  *)
(* still increment it is "trying"; the check is passed below the limit, so *)
(* that the counter and those who are trying stay together below the limit *)
(* plus the number of requests.                                            *)
(***************************************************************************)
TriesEmail == {"checkIp", "password", "failEmail"}
TriesIp == {"password", "failEmail", "failIp"}

Trying(k) ==
    {r \in Requests : IF k = Ip THEN req[r].at \in TriesIp
                      ELSE req[r].at \in TriesEmail /\ req[r].email = k}

Room(k) == fails[k] + Cardinality(Trying(k)) < MaxFails + Cardinality(Requests)
FailRoom == \A k \in FailKeys : Room(k)

LEMMA TryingSize ==
    ASSUME NEW k
    PROVE  /\ IsFiniteSet(Trying(k)) /\ IsFiniteSet(Trying(k)')
           /\ Cardinality(Trying(k)) \in Nat /\ Cardinality(Trying(k)') \in Nat
           /\ Cardinality(Requests) \in Nat
           /\ Cardinality(Trying(k)) <= Cardinality(Requests)
           /\ Cardinality(Trying(k)') <= Cardinality(Requests)
  <1>1. Trying(k) \in SUBSET Requests /\ Trying(k)' \in SUBSET Requests
    BY DEF Trying
  <1>2. IsFiniteSet(Requests)
    BY AccountAssumption
  <1> QED
    BY <1>1, <1>2, FS_Subset, FS_CardinalityType

\* The ways a step may treat a counter: it is below the limit after the step,
\* or nobody new tries, and whoever has incremented it tries no longer.
LEMMA RoomFrom ==
    ASSUME AccountInv, NEW k \in FailKeys, Room(k),
           \/ fails'[k] \in Nat /\ fails'[k] < MaxFails
           \/ fails'[k] = fails[k] /\ Trying(k)' \subseteq Trying(k)
           \/ /\ fails'[k] = fails[k] + 1
              /\ \E r \in Trying(k) : Trying(k)' \subseteq Trying(k) \ {r}
    PROVE  Room(k)'
  <1> DEFINE now == Cardinality(Trying(k))
             then == Cardinality(Trying(k)')
             all == Cardinality(Requests)
  <1>1. /\ now \in Nat /\ then \in Nat /\ all \in Nat
        /\ now <= all /\ then <= all
        /\ IsFiniteSet(Trying(k))
    BY TryingSize
  <1>2. fails[k] \in Nat /\ MaxFails \in Nat
    BY AccountAssumption DEF AccountInv, AccountTypeOK
  <1>3. Room(k)' <=> fails'[k] + then < MaxFails + all
    BY DEF Room
  <1>4. fails[k] + now < MaxFails + all
    BY DEF Room
  <1>5. CASE fails'[k] \in Nat /\ fails'[k] < MaxFails
    <2> HIDE DEF now, then, all
    <2> QED
      BY <1>1, <1>2, <1>3, <1>5
  <1>6. CASE fails'[k] = fails[k] /\ Trying(k)' \subseteq Trying(k)
    <2>1. then <= now
      BY <1>1, <1>6, FS_Subset
    <2> HIDE DEF now, then, all
    <2> QED
      BY <1>1, <1>2, <1>3, <1>4, <1>6, <2>1
  <1>7. ASSUME NEW r \in Trying(k), fails'[k] = fails[k] + 1,
               Trying(k)' \subseteq Trying(k) \ {r}
        PROVE  Room(k)'
    <2>1. /\ IsFiniteSet(Trying(k) \ {r})
          /\ Cardinality(Trying(k) \ {r}) = now - 1
      BY <1>1, FS_RemoveElement
    <2>2. then <= now - 1
      BY <1>7, <2>1, FS_Subset
    <2> HIDE DEF now, then, all
    <2> QED
      BY <1>1, <1>2, <1>3, <1>4, <1>7, <2>2
  <1> QED
    BY <1>5, <1>6, <1>7

\* A request that leaves the counters alone, and does not begin to try.
LEMMA RoomAlone ==
    ASSUME AccountInv, FailRoom, NEW r \in Requests,
           \A q \in Requests : q # r => req'[q] = req[q],
           \/ req'[r].at \notin TriesEmail \union TriesIp
           \/ req'[r] = req[r]
           \/ /\ req[r].at \in TriesEmail /\ req'[r].at \in TriesEmail
              /\ req[r].at \in TriesIp /\ req'[r].at \in TriesIp
              /\ req'[r].email = req[r].email,
           UNCHANGED fails
    PROVE  FailRoom'
  <1>1. \A k \in FailKeys : Trying(k)' \subseteq Trying(k)
    BY DEF Trying
  <1> QED
    BY <1>1, RoomFrom DEF FailRoom

LEMMA RoomLooks ==
    ASSUME AccountInv, FailRoom, NEW r \in Requests, Looks(r)
    PROVE  FailRoom'
  <1>1. /\ req \in [Requests -> Local] /\ req[r] \in Local /\ Hand(req[r])
        /\ \A q \in Requests : q # r => req'[q] = req[q]
    BY TakerSteps DEF AccountInv, AccountTypeOK, HandOK
  <1>2. UNCHANGED fails
    BY DEF Looks, Signup, Login, LoginCheckIp, LoginPassword, RefreshLoad, Refresh,
           Logout, Resend, ChangePassword, RequestChange, ForgotPassword, OnlyReq,
           accountVars
  <1>3. ASSUME req'[r].at \notin TriesEmail \union TriesIp
        PROVE  FailRoom'
    BY <1>1, <1>2, <1>3, RoomAlone
  <1>4. CASE Return(r)
    <2>1. req'[r].at = "idle"
      BY <1>1, <1>4 DEF Return, Idle
    <2> QED
      BY <1>3, <2>1 DEF TriesEmail, TriesIp
  <1>5. ASSUME NEW place, NEW u, NEW e, NEW t, Hold(r, place, u, e, t),
               place \notin TriesEmail \union TriesIp
        PROVE  FailRoom'
    <2>1. req'[r].at = place
      BY <1>1, <1>5 DEF Hold
    <2> QED
      BY <1>3, <1>5, <2>1
  <1>6. ASSUME NEW e \in Emails, NEW pw \in Passwords, Signup(r, e, pw)
        PROVE  FailRoom'
    <2>1. req'[r].at = "create"
      BY <1>1, <1>6 DEF Signup, Idle
    <2> QED
      BY <1>3, <2>1 DEF TriesEmail, TriesIp
  \* The check of the counter of the address ...
  <1>7. ASSUME NEW e \in Emails, NEW pw \in Passwords, Login(r, e, pw)
        PROVE  FailRoom'
    <2>1. req'[r].at = "checkIp" /\ req'[r].email = e /\ fails[e] < MaxFails
      BY <1>1, <1>7 DEF Login, Idle, Allowed
    <2>2. \A k \in FailKeys \ {e} : Trying(k)' \subseteq Trying(k)
      BY <1>1, <2>1 DEF Trying, TriesIp
    <2>3. fails[e] \in Nat
      BY DEF AccountInv, AccountTypeOK, FailKeys
    <2> QED
      BY <1>2, <2>1, <2>2, <2>3, RoomFrom DEF FailRoom
  \* ... and of the one of the client.
  <1>8. CASE LoginCheckIp(r)
    <2>1. CASE Allowed(Ip) /\ Goto(r, "password")
      <3>1. /\ req'[r].at = "password" /\ req'[r].email = req[r].email
            /\ req[r].at = "checkIp" /\ fails[Ip] < MaxFails
        BY <1>1, <1>8, <2>1 DEF LoginCheckIp, Goto, At, Allowed, Local
      <3>2. \A k \in FailKeys \ {Ip} : Trying(k)' \subseteq Trying(k)
        BY <1>1, <3>1 DEF Trying, TriesEmail
      <3>3. fails[Ip] \in Nat
        BY DEF AccountInv, AccountTypeOK, FailKeys
      <3> QED
        BY <1>2, <3>1, <3>2, <3>3, RoomFrom DEF FailRoom
    <2> QED
      BY <1>4, <1>8, <2>1 DEF LoginCheckIp
  <1>9. CASE LoginPassword(r)
    <2>1. CASE Return(r)
      BY <1>4, <2>1
    <2>2. ASSUME NEW u \in Users, Hold(r, "clear", u, req[r].email, None)
          PROVE  FailRoom'
      BY <1>5, <2>2 DEF TriesEmail, TriesIp
    <2>3. ASSUME NEW u \in Users, Hold(r, "failEmail", u, req[r].email, None)
          PROVE  FailRoom'
      <3>1. /\ req[r].at = "password"
            /\ req'[r].at = "failEmail" /\ req'[r].email = req[r].email
        BY <1>1, <1>9, <2>3 DEF LoginPassword, At, Hold
      <3> QED
        BY <1>1, <1>2, <3>1, RoomAlone DEF TriesEmail, TriesIp
    <2> QED
      BY <1>9, <2>1, <2>2, <2>3 DEF LoginPassword, ByEmail
  <1>10. CASE RefreshLoad(r)
    <2>1. req'[r].at \in {"issue", "revoke"}
      BY <1>1, <1>10 DEF RefreshLoad, Goto, Local
    <2> QED
      BY <1>3, <2>1 DEF TriesEmail, TriesIp
  <1>11. ASSUME NEW t \in Tokens, Refresh(r, t)
         PROVE  FailRoom'
    BY <1>5, <1>11 DEF Refresh, TriesEmail, TriesIp
  <1>12. ASSUME NEW u \in Users, \/ Logout(r, u) \/ Resend(r, u)
                                 \/ \E e \in Emails : RequestChange(r, u, e)
         PROVE  FailRoom'
    BY <1>5, <1>12 DEF Logout, Resend, RequestChange, TriesEmail, TriesIp
  <1>13. ASSUME NEW u \in Users, NEW pw \in Passwords, ChangePassword(r, u, pw)
         PROVE  FailRoom'
    <2>1. req'[r].at = "newPassword"
      BY <1>1, <1>13 DEF ChangePassword, Idle
    <2> QED
      BY <1>3, <2>1 DEF TriesEmail, TriesIp
  <1>14. ASSUME NEW e \in Emails, ForgotPassword(r, e)
         PROVE  FailRoom'
    BY <1>5, <1>14 DEF ForgotPassword, TriesEmail, TriesIp
  <1> QED
    BY <1>6, <1>7, <1>8, <1>9, <1>10, <1>11, <1>12, <1>13, <1>14 DEF Looks

LEMMA RoomStores ==
    ASSUME AccountInv, FailRoom, NEW r \in Requests, Stores(r)
    PROVE  FailRoom'
  <1>1. /\ req \in [Requests -> Local] /\ req[r] \in Local
        /\ \A q \in Requests : q # r => req'[q] = req[q]
    BY TakerSteps DEF AccountInv, AccountTypeOK, HandOK
  <1>2. UNCHANGED fails
    BY StoresTouch DEF accountVars
  <1>3. ASSUME Return(r)
        PROVE  req'[r].at = "idle"
    BY <1>1, <1>3 DEF Return, Idle
  <1>4. ASSUME NEW place, Goto(r, place)
        PROVE  req'[r].at = place
    BY <1>1, <1>4 DEF Goto, Local
  <1>5. ASSUME NEW place, NEW u, NEW e, NEW t, Hold(r, place, u, e, t)
        PROVE  req'[r].at = place
    BY <1>1, <1>5 DEF Hold
  <1>6. CASE SignupIssue(r) \/ MailVerification(r) \/ IssueRefresh(r) \/ MailReset(r)
             \/ ChangeIssue(r)
    <2>1. req'[r].at \in {"idle", "mailVerify", "setPending"}
      BY <1>3, <1>4, <1>6
      DEF SignupIssue, MailVerification, IssueRefresh, MailReset, ChangeIssue
    <2> QED
      BY <1>1, <1>2, <2>1, RoomAlone DEF TriesEmail, TriesIp
  <1>7. CASE RevokePointer(r) \/ RevokeToken(r) \/ CancelToken(r)
             \/ \E u \in Users : CancelChange(r, u)
    <2>1. req'[r].at \in {"idle", "dropRevoked", "dropChange", "clearPending"}
      BY <1>3, <1>4, <1>5, <1>7 DEF RevokePointer, RevokeToken, CancelToken, CancelChange
    <2> QED
      BY <1>1, <1>2, <2>1, RoomAlone DEF TriesEmail, TriesIp
  <1>8. CASE VerifyForget(r) \/ ResetForget(r) \/ ConfirmForget(r)
    <2>1. req'[r].at \in {"markVerified", "setPassword", "setEmail"}
      BY <1>4, <1>8 DEF VerifyForget, ResetForget, ConfirmForget
    <2> QED
      BY <1>1, <1>2, <2>1, RoomAlone DEF TriesEmail, TriesIp
  <1>9. ASSUME NEW t \in Tokens, \/ VerifyEmail(r, t) \/ ConfirmChange(r, t)
                                 \/ \E pw \in Passwords : ResetPassword(r, t, pw)
        PROVE  FailRoom'
    <2>1. req'[r].at \in {"forgetVerify", "forgetChange", "forgetReset"}
      BY <1>1, <1>5, <1>9 DEF VerifyEmail, ConfirmChange, ResetPassword
    <2> QED
      BY <1>1, <1>2, <2>1, RoomAlone DEF TriesEmail, TriesIp
  <1> QED
    BY <1>6, <1>7, <1>8, <1>9 DEF Stores

LEMMA RoomRows ==
    ASSUME AccountInv, FailRoom, NEW r \in Requests, Rows(r)
    PROVE  FailRoom'
  <1>1. /\ req \in [Requests -> Local]
        /\ \A q \in Requests : q # r => req'[q] = req[q]
    BY TakerSteps DEF AccountInv, AccountTypeOK
  <1>2. UNCHANGED fails
    BY DEF Rows, SignupCreate, MarkVerified, NewPassword, SetPassword, SetPending,
           SetEmail, ClearPending, DeleteAccount, OnlyUsers
  <1>3. \/ Return(r) \/ UNCHANGED req
        \/ \E u \in Users : Hold(r, "issueFirst", u, req[r].email, None)
    BY DEF Rows, SignupCreate, MarkVerified, NewPassword, SetPassword, SetPending,
           SetEmail, ClearPending, DeleteAccount
  <1>4. req'[r].at \in {"idle", "issueFirst"} \/ req'[r] = req[r]
    BY <1>1, <1>3 DEF Return, Idle, Hold
  <1> QED
    BY <1>1, <1>2, <1>4, RoomAlone DEF TriesEmail, TriesIp

LEMMA RoomCounts ==
    ASSUME AccountInv, FailRoom, NEW r \in Requests, Counters(r)
    PROVE  FailRoom'
  <1>1. /\ req \in [Requests -> Local] /\ req[r] \in Local /\ Hand(req[r])
        /\ \A q \in Requests : q # r => req'[q] = req[q]
        /\ fails \in [FailKeys -> Nat]
    BY TakerSteps DEF AccountInv, AccountTypeOK, HandOK
  <1>2. CASE At(r, "failEmail") /\ Counts(req[r].email) /\ Goto(r, "failIp")
    <2>1. PICK e \in Emails : req[r].at = "failEmail" /\ req[r].email = e
      BY <1>1, <1>2 DEF At, Hand
    <2>2. e \in FailKeys /\ e # Ip
      BY AccountAssumption DEF FailKeys
    <2>3. /\ fails'[e] = fails[e] + 1
          /\ \A k \in FailKeys \ {e} : fails'[k] = fails[k]
      BY <1>1, <1>2, <2>2, <2>1 DEF Counts
    <2>4. req'[r].at = "failIp" /\ req'[r].email = e
      BY <1>1, <1>2, <2>1 DEF Goto, Local
    <2>5. r \in Trying(e) /\ Trying(e)' \subseteq Trying(e) \ {r}
      BY <1>1, <2>2, <2>1, <2>4 DEF Trying, TriesEmail
    <2>6. \A k \in FailKeys \ {e} : Trying(k)' \subseteq Trying(k)
      BY <1>1, <2>1, <2>4 DEF Trying, TriesEmail, TriesIp
    <2> QED
      BY <2>2, <2>3, <2>5, <2>6, RoomFrom DEF FailRoom
  <1>3. CASE At(r, "failIp") /\ Counts(Ip) /\ Return(r)
    <2>1. req[r].at = "failIp" /\ Ip \in FailKeys
      BY <1>3 DEF At, FailKeys
    <2>2. /\ fails'[Ip] = fails[Ip] + 1
          /\ \A k \in FailKeys \ {Ip} : fails'[k] = fails[k]
      BY <1>1, <1>3, <2>1 DEF Counts
    <2>3. req'[r].at = "idle"
      BY <1>1, <1>3 DEF Return, Idle
    <2>4. r \in Trying(Ip) /\ Trying(Ip)' \subseteq Trying(Ip) \ {r}
      BY <1>1, <2>1, <2>3 DEF Trying, TriesIp
    <2>5. \A k \in FailKeys \ {Ip} : Trying(k)' \subseteq Trying(k)
      BY <1>1, <2>3 DEF Trying, TriesEmail
    <2> QED
      BY <2>1, <2>2, <2>4, <2>5, RoomFrom DEF FailRoom
  <1>4. CASE ClearFails(r)
    <2>1. req'[r].at = "issue"
      BY <1>1, <1>4 DEF ClearFails, Goto, Local
    <2>2. \A k \in FailKeys : Trying(k)' \subseteq Trying(k)
      BY <1>1, <2>1 DEF Trying, TriesEmail, TriesIp
    <2>3. \A k \in FailKeys : fails'[k] \in {0, fails[k]}
      BY <1>1, <1>4 DEF ClearFails
    <2>4. 0 < MaxFails /\ 0 \in Nat
      BY AccountAssumption
    <2> QED
      BY <2>2, <2>3, <2>4, RoomFrom DEF FailRoom
  <1>5. CASE ResendCount(r)
    <2>1. req'[r].at \in {"mailVerify", "idle"}
      BY <1>1, <1>5 DEF ResendCount, Goto, Return, Idle, Local
    <2>2. UNCHANGED fails
      BY <1>5 DEF ResendCount
    <2> QED
      BY <1>1, <2>1, <2>2, RoomAlone DEF TriesEmail, TriesIp
  <1> QED
    BY <1>2, <1>3, <1>4, <1>5 DEF Counters, RecordFail

LEMMA RoomClock ==
    ASSUME AccountInv, FailRoom, Clock
    PROVE  FailRoom'
  <1>1. \A k \in FailKeys : Trying(k)' \subseteq Trying(k)
    <2>1. CASE UNCHANGED req
      BY <2>1 DEF Trying
    <2>2. CASE req' = [r \in Requests |-> Idle]
      BY <2>2 DEF Trying, TriesEmail, TriesIp, Idle
    <2> QED
      BY <2>1, <2>2 DEF Clock, TokenExpires, CounterExpires, NewDay, Stop
  <1>2. \A k \in FailKeys : fails'[k] \in {0, fails[k]}
    BY DEF Clock, TokenExpires, CounterExpires, NewDay, Stop, OnlyReq, accountVars,
           AccountInv, AccountTypeOK
  <1>3. 0 < MaxFails /\ 0 \in Nat
    BY AccountAssumption
  <1> QED
    BY <1>1, <1>2, <1>3, RoomFrom DEF FailRoom

\* However many log-ins are between their check and their count, and whatever
\* resets the counters meanwhile, a counter is never as far above the limit as
\* there are requests (_check_login_lockout, _record_login_fail).
THEOREM FailuresBounded == Spec => []FailsBounded
  <1>1. Init => FailRoom
    <2> SUFFICES ASSUME Init, NEW k \in FailKeys
                 PROVE  Room(k)
      BY DEF FailRoom
    <2>1. fails[k] = 0 /\ Trying(k) = {}
      BY DEF Init, Trying, TriesEmail, TriesIp, Idle
    <2>2. Cardinality({}) = 0
      BY FS_EmptySet
    <2>3. Cardinality(Requests) \in Nat /\ MaxFails \in Nat \ {0}
      BY AccountAssumption, FS_CardinalityType
    <2> QED
      BY <2>1, <2>2, <2>3 DEF Room
  <1>2. ASSUME AccountInv, FailRoom, UNCHANGED vars
        PROVE  FailRoom'
    <2>1. \A k \in FailKeys : Trying(k)' = Trying(k)
      BY <1>2 DEF vars, Trying
    <2> QED
      BY <1>2, <2>1 DEF vars, accountVars, FailRoom, Room
  <1>3. AccountInv /\ FailRoom /\ [Next]_vars => FailRoom'
    BY <1>2, NextSplits, RoomLooks, RoomStores, RoomRows, RoomCounts, RoomClock
    DEF Counters
  <1>4. AccountInv /\ FailRoom => FailsBounded
    <2> SUFFICES ASSUME AccountInv, FailRoom, NEW k \in FailKeys
                 PROVE  fails[k] < MaxFails + Cardinality(Requests)
      BY DEF FailsBounded
    <2> DEFINE n == Cardinality(Trying(k))
               all == Cardinality(Requests)
    <2>1. n \in Nat /\ all \in Nat
      BY TryingSize
    <2>2. fails[k] \in Nat /\ MaxFails \in Nat
      BY AccountAssumption DEF AccountInv, AccountTypeOK
    <2>3. fails[k] + n < MaxFails + all
      BY DEF FailRoom, Room
    <2> HIDE DEF n, all
    <2>4. fails[k] < MaxFails + all
      BY <2>1, <2>2, <2>3
    <2> QED
      BY <2>4 DEF all
  <1> QED
    BY <1>1, <1>3, <1>4, InvInit, InvStep, PTL DEF Spec
=============================================================================
