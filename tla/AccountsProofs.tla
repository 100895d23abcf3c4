--------------------------- MODULE AccountsProofs --------------------------
(***************************************************************************)
(* Theorems about accounts, codes and sessions for every number of users,  *)
(* codes, sessions, concurrent requests and faults.                        *)
(***************************************************************************)
EXTENDS Accounts, TLAPS

(***************************************************************************)
(* The inductive invariant.                                                *)
(***************************************************************************)

\* Expired or not, an account has one unconsumed code per purpose.
OneUnconsumed ==
    \A t1, t2 \in Rows :
        /\ ~Free(t1) /\ ~token[t1].consumed
        /\ ~Free(t2) /\ ~token[t2].consumed
        /\ token[t1].user = token[t2].user
        /\ token[t1].purpose = token[t2].purpose
        => t1 = t2

\* Only a row that exists and is consumed by now has been accepted, once.
RedeemedIsConsumed ==
    \A t \in Rows : /\ redeemed[t] <= 1
                    /\ redeemed[t] > 0 => ~Free(t) /\ token[t].consumed

\* The row was made for this user and purpose, and its code was accepted.
RedeemedFor(t, u, purpose) ==
    /\ t \in Rows /\ u \in Users
    /\ token[t].user = u /\ token[t].purpose = purpose
    /\ redeemed[t] > 0

\* A request that mails a code has one; a request that verifies or resets holds
\* a code accepted for just that.
HoldsItsCode ==
    \A r \in Requests :
        /\ req[r].at = "mail" => req[r].row \in Rows
        /\ req[r].at = "verify" =>
            RedeemedFor(req[r].row, req[r].user, "verify_email")
        /\ req[r].at \in {"revoke", "password"} =>
            /\ RedeemedFor(req[r].row, req[r].user, "reset_password")
            /\ chosen[req[r].row] = req[r].password

\* The sessions a reset has found are its user's.
SeenAreOwn ==
    \A r \in Requests : req[r].at \in {"revoke", "password"} =>
        \A s \in req[r].seen : session[s].user = req[r].user

\* Most conjuncts lean on the others; together they are inductive.
IInv ==
    /\ TypeOK
    /\ OneUnconsumed
    /\ RedeemedIsConsumed
    /\ HoldsItsCode
    /\ SeenAreOwn
    /\ VerifiedByCode
    /\ PasswordByReset
    /\ SeenSessionsEnd

\* Before the first request there is nothing.
LEMMA InitHolds == Init => IInv
<1> SUFFICES ASSUME Init PROVE IInv
    OBVIOUS
<1> USE AccountsAssumption DEF Init
<1>1. TypeOK
    BY DEF TypeOK, Account, NoAccount, Token, NoToken, Session, NoSession,
           Request, Idle, Stages
<1>2. OneUnconsumed /\ RedeemedIsConsumed
    BY DEF OneUnconsumed, RedeemedIsConsumed, Free, NoToken
<1>3. HoldsItsCode /\ SeenAreOwn /\ SeenSessionsEnd
    BY DEF HoldsItsCode, SeenAreOwn, SeenSessionsEnd, Idle
<1>4. VerifiedByCode /\ PasswordByReset
    BY DEF VerifiedByCode, PasswordByReset, NoAccount
<1> QED BY <1>1, <1>2, <1>3, <1>4 DEF IInv

(***************************************************************************)
(* Types.                                                                  *)
(***************************************************************************)

\* The slots keep their type when a request starts, moves on or ends.
LEMMA SlotsTyped ==
    ASSUME TypeOK, NEW r \in Requests,
           \/ Finish(r)
           \/ \E stage \in Stages : GoTo(r, stage)
           \/ \E job \in Request : Start(r, job)
    PROVE  req' \in [Requests -> Request]
BY DEF TypeOK, Finish, GoTo, Start, Idle, Request, Stages

\* What a request for a code starts with.
LEMMA AskingTyped ==
    ASSUME NEW u \in Users, NEW purpose \in Purposes
    PROVE  /\ Asking(u, purpose) \in Request
           /\ Asking(u, purpose).at = "invalidate"
BY DEF Asking, Request, Idle, Stages

\* What a statement writes into a row of users, codes or sessions is one.
LEMMA RowsWritten ==
    /\ \A a \in Account : [a EXCEPT !.verified = TRUE] \in Account
    /\ \A a \in Account, pw \in Passwords \cup {NULL} :
            [a EXCEPT !.password = pw] \in Account
    /\ \A a \in Account, b \in BOOLEAN : [a EXCEPT !.suspended = b] \in Account
    /\ \A t \in Token : [t EXCEPT !.consumed = TRUE] \in Token
    /\ \A s \in Session : [s EXCEPT !.revoked = TRUE] \in Session
<1>1. \A a \in Account : [a EXCEPT !.verified = TRUE] \in Account
    BY DEF Account
<1>2. \A a \in Account, pw \in Passwords \cup {NULL} :
            [a EXCEPT !.password = pw] \in Account
    BY DEF Account
<1>3. \A t \in Token : [t EXCEPT !.consumed = TRUE] \in Token
    BY DEF Token
<1>4. \A s \in Session : [s EXCEPT !.revoked = TRUE] \in Session
    BY DEF Session
<1>5. \A a \in Account, b \in BOOLEAN : [a EXCEPT !.suspended = b] \in Account
    BY DEF Account
<1> QED BY <1>1, <1>2, <1>3, <1>4, <1>5

\* Asking for a code, up to its mail, keeps the types.
LEMMA AskingKeepsTypes ==
    ASSUME TypeOK, HoldsItsCode, NEW r \in Requests,
           \/ \E u \in Users, pw \in Passwords : Register(r, u, pw)
           \/ \E u \in Users :
                ResendVerification(r, u) \/ ForgotPassword(r, u)
           \/ Invalidate(r) \/ CreateToken(r) \/ Mail(r)
    PROVE  TypeOK'
<1>1. CASE \E u \in Users, pw \in Passwords : Register(r, u, pw)
    <2>1. PICK u \in Users, pw \in Passwords : Register(r, u, pw)
        BY <1>1
    <2>2. req' \in [Requests -> Request]
        BY <2>1, SlotsTyped, AskingTyped DEF Register, Purposes
    <2>3. account' \in [Users -> Account]
        BY <2>1 DEF Register, TypeOK, Account, NoAccount
    <2> QED BY <2>1, <2>2, <2>3 DEF Register, history, TypeOK
<1>2. CASE \E u \in Users : ResendVerification(r, u) \/ ForgotPassword(r, u)
    <2>0. PICK u \in Users : ResendVerification(r, u) \/ ForgotPassword(r, u)
        BY <1>2
    <2>1. req' \in [Requests -> Request]
        BY <2>0, SlotsTyped, AskingTyped
        DEF ResendVerification, ForgotPassword, Purposes
    <2> QED BY <2>0, <2>1 DEF ResendVerification, ForgotPassword, rowVars,
                              history, TypeOK
<1>3. CASE Invalidate(r)
    <2>1. req' \in [Requests -> Request]
        BY <1>3, SlotsTyped DEF Invalidate, Stages
    <2>2. token' \in [Rows -> Token]
        BY <1>3, RowsWritten DEF Invalidate, InvalidateActive, TypeOK
    <2> QED BY <1>3, <2>1, <2>2 DEF Invalidate, history, TypeOK
<1>4. CASE CreateToken(r)
    <2>1. CASE Finish(r) /\ UNCHANGED token
        BY <1>4, <2>1, SlotsTyped DEF CreateToken, history, TypeOK
    <2>2. CASE \E t \in Rows, c \in Codes :
            /\ token' = [token EXCEPT ![t] =
                    [user |-> req[r].user, purpose |-> req[r].purpose,
                     code |-> c, consumed |-> FALSE]]
            /\ Start(r, [req[r] EXCEPT !.at = "mail", !.row = t])
        <3>1. PICK t \in Rows, c \in Codes :
                /\ token' = [token EXCEPT ![t] =
                        [user |-> req[r].user, purpose |-> req[r].purpose,
                         code |-> c, consumed |-> FALSE]]
                /\ Start(r, [req[r] EXCEPT !.at = "mail", !.row = t])
            BY <2>2
        <3>2. req[r] \in Request
            BY DEF TypeOK
        <3>3. [req[r] EXCEPT !.at = "mail", !.row = t] \in Request
            BY <3>2 DEF Request, Stages
        <3>4. req' \in [Requests -> Request]
            BY <3>1, <3>3, SlotsTyped
        <3>5. [user |-> req[r].user, purpose |-> req[r].purpose,
               code |-> c, consumed |-> FALSE] \in Token
            BY <3>2 DEF Request, Token
        <3>6. token' \in [Rows -> Token]
            BY <3>1, <3>5 DEF TypeOK
        <3> QED BY <1>4, <3>4, <3>6 DEF CreateToken, history, TypeOK
    <2> QED BY <1>4, <2>1, <2>2 DEF CreateToken
<1>5. CASE Mail(r)
    <2>1. req[r].row \in Rows
        BY <1>5 DEF Mail, HoldsItsCode
    <2> QED BY <1>5, <2>1, SlotsTyped DEF Mail, rowVars, history, TypeOK
<1> QED BY <1>1, <1>2, <1>3, <1>4, <1>5

\* So does redeeming one and what follows.
LEMMA RedeemingKeepsTypes ==
    ASSUME TypeOK, NEW r \in Requests, NEW u \in Users,
           \/ \E code \in Codes : VerifyEmail(r, u, code)
           \/ \E code \in Codes, pw \in Passwords :
                ResetPassword(r, u, code, pw)
           \/ MarkEmailVerified(r) \/ RevokeAllForUser(r) \/ UpdatePassword(r)
    PROVE  TypeOK'
<1>1. CASE \E code \in Codes : VerifyEmail(r, u, code)
    <2>1. PICK code \in Codes, t \in Rows :
            /\ Matches(t, u, "verify_email", code)
            /\ token' = [token EXCEPT ![t].consumed = TRUE]
            /\ redeemed' = [redeemed EXCEPT ![t] = @ + 1]
            /\ Start(r, [Idle EXCEPT !.at = "verify", !.user = token[t].user,
                                     !.row = t])
            /\ UNCHANGED <<account, session, expired, mailed, chosen, faults>>
        BY <1>1 DEF VerifyEmail
    <2>2. [Idle EXCEPT !.at = "verify", !.user = token[t].user, !.row = t]
            \in Request
        BY <2>1 DEF Matches, Idle, Request, Stages
    <2>3. req' \in [Requests -> Request]
        BY <2>1, <2>2, SlotsTyped
    <2>4. token' \in [Rows -> Token]
        BY <2>1 DEF TypeOK, Token
    <2> QED BY <2>1, <2>3, <2>4 DEF TypeOK
<1>2. CASE \E code \in Codes, pw \in Passwords : ResetPassword(r, u, code, pw)
    <2>1. PICK code \in Codes, pw \in Passwords, t \in Rows :
            /\ Matches(t, u, "reset_password", code)
            /\ token' = [token EXCEPT ![t].consumed = TRUE]
            /\ redeemed' = [redeemed EXCEPT ![t] = @ + 1]
            /\ chosen' = [chosen EXCEPT ![t] = pw]
            /\ Start(r, [Idle EXCEPT !.at = "revoke", !.user = token[t].user,
                 !.row = t, !.password = pw,
                 !.seen = {s \in Sessions : Live(s) /\ session[s].user = u}])
            /\ UNCHANGED <<account, session, expired, mailed, faults>>
        BY <1>2 DEF ResetPassword
    <2>2. [Idle EXCEPT !.at = "revoke", !.user = token[t].user, !.row = t,
              !.password = pw,
              !.seen = {s \in Sessions : Live(s) /\ session[s].user = u}]
            \in Request
        BY <2>1 DEF Matches, Idle, Request, Stages
    <2>3. req' \in [Requests -> Request]
        BY <2>1, <2>2, SlotsTyped
    <2>4. token' \in [Rows -> Token]
        BY <2>1 DEF TypeOK, Token
    <2> QED BY <2>1, <2>3, <2>4 DEF TypeOK
<1>3. CASE MarkEmailVerified(r)
    <2>1. req' \in [Requests -> Request]
        BY <1>3, SlotsTyped DEF MarkEmailVerified
    <2>2. account' \in [Users -> Account]
        <3>1. account' = [account EXCEPT ![req[r].user] =
                            [account[req[r].user] EXCEPT !.verified = TRUE]]
            BY <1>3 DEF MarkEmailVerified
        <3> QED BY <3>1, RowsWritten DEF TypeOK
    <2> QED BY <1>3, <2>1, <2>2 DEF MarkEmailVerified, history, TypeOK
<1>4. CASE RevokeAllForUser(r)
    <2>1. req' \in [Requests -> Request]
        BY <1>4, SlotsTyped DEF RevokeAllForUser, Stages
    <2>2. session' \in [Sessions -> Session]
        BY <1>4, RowsWritten DEF RevokeAllForUser, TypeOK
    <2> QED BY <1>4, <2>1, <2>2 DEF RevokeAllForUser, history, TypeOK
<1>5. CASE UpdatePassword(r)
    <2>1. req' \in [Requests -> Request]
        BY <1>5, SlotsTyped DEF UpdatePassword
    <2>2. req[r].password \in Passwords \cup {NULL}
        BY DEF TypeOK, Request
    <2>3. account' \in [Users -> Account]
        <3>1. account' = [account EXCEPT ![req[r].user] =
                    [account[req[r].user] EXCEPT !.password = req[r].password]]
            BY <1>5 DEF UpdatePassword
        <3> QED BY <2>2, <3>1, RowsWritten DEF TypeOK
    <2> QED BY <1>5, <2>1, <2>3 DEF UpdatePassword, history, TypeOK
<1> QED BY <1>1, <1>2, <1>3, <1>4, <1>5

\* Sessions, the clock, the administrator and failures keep the types, too.
LEMMA OthersKeepTypes ==
    ASSUME TypeOK,
           \/ \E r \in Requests, u \in Users :
                GoogleLogin(r, u) \/ \E pw \in Passwords : Login(r, u, pw)
           \/ \E r \in Requests : OpenSession(r) \/ RequestDies(r)
           \/ \E s \in Sessions : Logout(s)
           \/ \E t \in Rows : CodeExpires(t)
           \/ \E u \in Users : UpdateStatus(u)
    PROVE  TypeOK'
<1>1. CASE \E r \in Requests, u \in Users, pw \in Passwords : Login(r, u, pw)
    <2>1. PICK r \in Requests, u \in Users, pw \in Passwords : Login(r, u, pw)
        BY <1>1
    <2>2. [Idle EXCEPT !.at = "session", !.user = u, !.password = pw]
            \in Request
        BY DEF Idle, Request, Stages
    <2> QED BY <2>1, <2>2, SlotsTyped DEF Login, rowVars, history, TypeOK
<1>2. CASE \E r \in Requests, u \in Users : GoogleLogin(r, u)
    <2>1. PICK r \in Requests, u \in Users : GoogleLogin(r, u)
        BY <1>2
    <2>2. [Idle EXCEPT !.at = "session", !.user = u] \in Request
        BY DEF Idle, Request, Stages
    <2>3. req' \in [Requests -> Request]
        BY <2>1, <2>2, SlotsTyped DEF GoogleLogin
    <2>4. account' \in [Users -> Account]
        BY <2>1 DEF GoogleLogin, TypeOK, Account, NoAccount
    <2> QED BY <2>1, <2>3, <2>4 DEF GoogleLogin, history, TypeOK
<1>3. CASE \E r \in Requests : OpenSession(r)
    <2>1. PICK r \in Requests : OpenSession(r)
        BY <1>3
    <2>2. req' \in [Requests -> Request]
        BY <2>1, SlotsTyped DEF OpenSession
    <2>3. [user |-> req[r].user, under |-> req[r].password, revoked |-> FALSE]
            \in Session
        BY DEF TypeOK, Request, Session
    <2>4. session' \in [Sessions -> Session]
        BY <2>1, <2>3 DEF OpenSession, TypeOK
    <2> QED BY <2>1, <2>2, <2>4 DEF OpenSession, history, TypeOK
<1>4. CASE \E r \in Requests : RequestDies(r)
    <2>1. PICK r \in Requests : RequestDies(r)
        BY <1>4
    <2>2. faults' \in 0..MaxFaults
        BY <2>1, AccountsAssumption DEF RequestDies, Fault, TypeOK
    <2> QED BY <2>1, <2>2, SlotsTyped DEF RequestDies, rowVars, history,
                                          TypeOK
<1>5. CASE \E s \in Sessions : Logout(s)
    <2>1. PICK s \in Sessions : Logout(s)
        BY <1>5
    <2>2. session' = [session EXCEPT ![s] = [session[s] EXCEPT !.revoked = TRUE]]
        BY <2>1 DEF Logout
    <2>3. session' \in [Sessions -> Session]
        BY <2>2, RowsWritten DEF TypeOK
    <2> QED BY <2>1, <2>3 DEF Logout, history, TypeOK
<1>6. CASE \E t \in Rows : CodeExpires(t)
    BY <1>6 DEF CodeExpires, rowVars, history, TypeOK
<1>7. CASE \E u \in Users : UpdateStatus(u)
    <2>1. PICK u \in Users : UpdateStatus(u)
        BY <1>7
    <2>2. PICK b \in BOOLEAN :
            account' = [account EXCEPT ![u] = [account[u] EXCEPT !.suspended = b]]
        BY <2>1, Zenon DEF UpdateStatus
    <2>3. [account[u] EXCEPT !.suspended = b] \in Account
        BY RowsWritten DEF TypeOK
    <2>4. account' \in [Users -> Account]
        BY <2>2, <2>3 DEF TypeOK
    <2> QED BY <2>1, <2>4 DEF UpdateStatus, history, TypeOK
<1> QED BY <1>1, <1>2, <1>3, <1>4, <1>5, <1>6, <1>7

(***************************************************************************)
(* Codes.                                                                  *)
(***************************************************************************)

\* What a step leaves of a row that exists: whose it is, what for, and, once
\* accepted, that it was and the password sent with it.
RowsPersist ==
    \A t \in Rows : ~Free(t) =>
        /\ token'[t].user = token[t].user
        /\ token'[t].purpose = token[t].purpose
        /\ redeemed[t] > 0 => redeemed'[t] > 0 /\ chosen'[t] = chosen[t]

\* Invalidating consumes more rows and leaves the rest of them alone.
LEMMA InvalidateStep ==
    ASSUME IInv, NEW r \in Requests, Invalidate(r)
    PROVE  OneUnconsumed' /\ RedeemedIsConsumed' /\ RowsPersist
<1>1. \A t \in Rows : /\ token'[t].user = token[t].user
                      /\ token'[t].purpose = token[t].purpose
                      /\ token[t].consumed => token'[t].consumed
    BY DEF Invalidate, InvalidateActive, IInv, TypeOK, Token
<1>2. UNCHANGED <<redeemed, chosen>>
    BY DEF Invalidate, history
<1>3. OneUnconsumed'
    BY <1>1 DEF IInv, OneUnconsumed, Free
<1>4. RedeemedIsConsumed'
    BY <1>1, <1>2 DEF IInv, RedeemedIsConsumed, Free
<1>5. RowsPersist
    BY <1>1, <1>2 DEF RowsPersist, IInv, TypeOK
<1> QED BY <1>3, <1>4, <1>5

\* The unique index lets a code in only where no unconsumed one is.
LEMMA CreateTokenStep ==
    ASSUME IInv, NEW r \in Requests, CreateToken(r)
    PROVE  OneUnconsumed' /\ RedeemedIsConsumed' /\ RowsPersist
<1>1. UNCHANGED <<redeemed, chosen>>
    BY DEF CreateToken, history
<1>2. CASE UNCHANGED token
    BY <1>1, <1>2 DEF IInv, TypeOK, OneUnconsumed, RedeemedIsConsumed,
                      RowsPersist, Free
<1>3. CASE ~ UNCHANGED token
    <2>1. PICK t \in Rows, c \in Codes :
            /\ Unoccupied(req[r].user, req[r].purpose)
            /\ Free(t)
            /\ token' = [token EXCEPT ![t] =
                    [user |-> req[r].user, purpose |-> req[r].purpose,
                     code |-> c, consumed |-> FALSE]]
        BY <1>3 DEF CreateToken
    <2>2. /\ token'[t].user = req[r].user
          /\ token'[t].purpose = req[r].purpose
          /\ \A x \in Rows : x # t => token'[x] = token[x]
        BY <2>1 DEF IInv, TypeOK
    <2>3. OneUnconsumed'
        BY <2>1, <2>2 DEF IInv, OneUnconsumed, Free, Unoccupied
    <2>4. redeemed[t] = 0
        BY <2>1 DEF IInv, TypeOK, RedeemedIsConsumed
    <2>5. RedeemedIsConsumed'
        BY <1>1, <2>2, <2>4 DEF IInv, RedeemedIsConsumed, Free
    <2>6. RowsPersist
        BY <1>1, <2>1, <2>2 DEF RowsPersist, IInv, TypeOK
    <2> QED BY <2>3, <2>5, <2>6
<1> QED BY <1>2, <1>3

\* Redeeming consumes a row that nobody has redeemed.
LEMMA ConsumeStep ==
    ASSUME IInv, NEW t \in Rows, Usable(t),
           token' = [token EXCEPT ![t].consumed = TRUE],
           redeemed' = [redeemed EXCEPT ![t] = @ + 1],
           \A x \in Rows : x # t => chosen'[x] = chosen[x]
    PROVE  /\ OneUnconsumed' /\ RedeemedIsConsumed' /\ RowsPersist
           /\ redeemed'[t] = 1
           /\ token'[t].user = token[t].user
           /\ token'[t].purpose = token[t].purpose
<1>1. /\ token'[t].user = token[t].user
      /\ token'[t].purpose = token[t].purpose
      /\ token'[t].consumed
      /\ \A x \in Rows : x # t => token'[x] = token[x]
    BY DEF IInv, TypeOK, Token
<1>2. redeemed[t] = 0
    BY DEF IInv, TypeOK, RedeemedIsConsumed, Usable
<1>3. /\ redeemed'[t] = 1
      /\ \A x \in Rows : x # t => redeemed'[x] = redeemed[x]
    BY <1>2 DEF IInv, TypeOK
<1>4. OneUnconsumed'
    BY <1>1 DEF IInv, OneUnconsumed, Free
<1>5. RedeemedIsConsumed'
    BY <1>1, <1>3 DEF IInv, RedeemedIsConsumed, Free, Usable
<1>6. RowsPersist
    BY <1>1, <1>2, <1>3 DEF RowsPersist, IInv, TypeOK
<1> QED BY <1>1, <1>3, <1>4, <1>5, <1>6

\* A step that touches no code keeps what is said of codes.
LEMMA CodesKept ==
    ASSUME IInv, UNCHANGED <<token, redeemed, chosen>>
    PROVE  OneUnconsumed' /\ RedeemedIsConsumed' /\ RowsPersist
BY DEF IInv, TypeOK, OneUnconsumed, RedeemedIsConsumed, RowsPersist, Free

\* An accepted code stays accepted, for the same user, purpose and password.
LEMMA AcceptedPersists ==
    ASSUME IInv, RowsPersist, NEW t, NEW u, NEW purpose,
           RedeemedFor(t, u, purpose)
    PROVE  RedeemedFor(t, u, purpose)' /\ chosen'[t] = chosen[t]
<1>1. ~Free(t)
    BY DEF RedeemedFor, IInv, RedeemedIsConsumed
<1>2. /\ token'[t].user = u /\ token'[t].purpose = purpose
      /\ redeemed'[t] > 0 /\ chosen'[t] = chosen[t]
    BY <1>1 DEF RowsPersist, RedeemedFor
<1> QED BY <1>2 DEF RedeemedFor

(***************************************************************************)
(* Slots, sessions and accounts.                                           *)
(***************************************************************************)

\* What a step leaves of a session: whose it is, and that it is over.
SessionsPersist ==
    \A s \in Sessions : ~Unopened(s) =>
        /\ session'[s].user = session[s].user
        /\ session[s].revoked => session'[s].revoked

\* An account is verified, or gets another password, by an accepted code only.
AccountsPersist ==
    \A u \in Users :
        /\ account'[u].made = "password" /\ account'[u].verified =>
            \/ account[u].made = "password" /\ account[u].verified
            \/ \E t \in Rows : RedeemedFor(t, u, "verify_email")
        /\ account'[u].password # account'[u].first =>
            \/ /\ account[u].password # account[u].first
               /\ account'[u].password = account[u].password
            \/ \E t \in Rows : /\ RedeemedFor(t, u, "reset_password")
                               /\ chosen[t] = account'[u].password

\* Stages at which a request holds a row that the invariant speaks of.
Holding == {"mail", "verify", "revoke", "password"}

\* At most one slot moves, to a stage at which it holds nothing.
LetsGo(r) ==
    /\ \A x \in Requests : x # r => req'[x] = req[x]
    /\ req'[r] = req[r] \/ req'[r].at \notin Holding

\* The two properties of accounts follow from what persists.
LEMMA AccountsKept ==
    ASSUME IInv, RowsPersist, AccountsPersist
    PROVE  VerifiedByCode' /\ PasswordByReset'
<1>1. VerifiedByCode'
    <2> SUFFICES ASSUME NEW u \in Users, account'[u].made = "password",
                        account'[u].verified
                 PROVE  \E t \in Rows : RedeemedFor(t, u, "verify_email")'
        BY DEF VerifiedByCode, RedeemedFor
    <2>1. PICK t \in Rows : RedeemedFor(t, u, "verify_email")
        BY DEF AccountsPersist, IInv, VerifiedByCode, RedeemedFor
    <2> QED BY <2>1, AcceptedPersists
<1>2. PasswordByReset'
    <2> SUFFICES ASSUME NEW u \in Users,
                        account'[u].password # account'[u].first
                 PROVE  \E t \in Rows :
                            /\ RedeemedFor(t, u, "reset_password")'
                            /\ chosen'[t] = account'[u].password
        BY DEF PasswordByReset, RedeemedFor
    <2>1. PICK t \in Rows : /\ RedeemedFor(t, u, "reset_password")
                            /\ chosen[t] = account'[u].password
        BY DEF AccountsPersist, IInv, PasswordByReset, RedeemedFor
    <2> QED BY <2>1, AcceptedPersists
<1> QED BY <1>1, <1>2

\* A slot that does not move keeps what it holds.
LEMMA SlotStays ==
    ASSUME IInv, RowsPersist, SessionsPersist,
           NEW r \in Requests, req'[r] = req[r]
    PROVE  /\ req'[r].at = "mail" => req'[r].row \in Rows
           /\ req'[r].at = "verify" =>
                RedeemedFor(req[r].row, req[r].user, "verify_email")'
           /\ req'[r].at \in {"revoke", "password"} =>
                /\ RedeemedFor(req[r].row, req[r].user, "reset_password")'
                /\ chosen'[req[r].row] = req[r].password
                /\ \A s \in req[r].seen : session'[s].user = req[r].user
           /\ req'[r].at = "password" =>
                \A s \in req[r].seen : session'[s].revoked
<1>1. CASE req[r].at \in {"mail", "verify"}
    BY <1>1, AcceptedPersists DEF IInv, HoldsItsCode
<1>2. CASE req[r].at \in {"revoke", "password"}
    <2>1. /\ RedeemedFor(req[r].row, req[r].user, "reset_password")
          /\ chosen[req[r].row] = req[r].password
        BY <1>2 DEF IInv, HoldsItsCode
    <2>2. \A s \in req[r].seen : s \in Sessions /\ ~Unopened(s)
        BY <1>2, <2>1, AccountsAssumption
        DEF IInv, TypeOK, Request, SeenAreOwn, Unopened, RedeemedFor
    <2>3. \A s \in req[r].seen : session'[s].user = req[r].user
        BY <1>2, <2>2 DEF SessionsPersist, IInv, SeenAreOwn
    <2>4. req[r].at = "password" => \A s \in req[r].seen : session'[s].revoked
        BY <2>2 DEF SessionsPersist, IInv, SeenSessionsEnd
    <2> QED BY <1>2, <2>1, <2>3, <2>4, AcceptedPersists
<1> QED BY <1>1, <1>2

\* What the three invariants say of one slot.
SlotFine(r) ==
    /\ req[r].at = "mail" => req[r].row \in Rows
    /\ req[r].at = "verify" =>
        RedeemedFor(req[r].row, req[r].user, "verify_email")
    /\ req[r].at \in {"revoke", "password"} =>
        /\ RedeemedFor(req[r].row, req[r].user, "reset_password")
        /\ chosen[req[r].row] = req[r].password
        /\ \A s \in req[r].seen : session[s].user = req[r].user
    /\ req[r].at = "password" => \A s \in req[r].seen : session[s].revoked

\* If one slot is fine after the step and the others stay, all are fine.
LEMMA SlotsKept ==
    ASSUME IInv, RowsPersist, SessionsPersist, NEW r \in Requests,
           \A x \in Requests : x # r => req'[x] = req[x],
           SlotFine(r)'
    PROVE  HoldsItsCode' /\ SeenAreOwn' /\ SeenSessionsEnd'
<1>1. \A x \in Requests : SlotFine(x)'
    <2> SUFFICES ASSUME NEW x \in Requests, x # r PROVE SlotFine(x)'
        OBVIOUS
    <2>1. req'[x] = req[x]
        OBVIOUS
    <2> QED BY <2>1, SlotStays DEF SlotFine
<1> QED BY <1>1 DEF SlotFine, HoldsItsCode, SeenAreOwn, SeenSessionsEnd

\* A step that lets at most one slot go, for a stage at which it holds nothing.
LEMMA PlainStep ==
    ASSUME IInv, TypeOK', OneUnconsumed' /\ RedeemedIsConsumed', RowsPersist,
           SessionsPersist, AccountsPersist, NEW r \in Requests, LetsGo(r)
    PROVE  IInv'
<1>1. SlotFine(r)'
    <2>1. CASE req'[r] = req[r]
        BY <2>1, SlotStays DEF SlotFine
    <2>2. CASE req'[r].at \notin Holding
        BY <2>2 DEF SlotFine, Holding
    <2> QED BY <2>1, <2>2 DEF LetsGo
<1>2. HoldsItsCode' /\ SeenAreOwn' /\ SeenSessionsEnd'
    BY <1>1, SlotsKept DEF LetsGo
<1>3. VerifiedByCode' /\ PasswordByReset'
    BY AccountsKept
<1> QED BY <1>2, <1>3 DEF IInv

(***************************************************************************)
(* The steps.                                                              *)
(***************************************************************************)

\* Nobody's account, or nobody's session, changes.
LEMMA AccountsAlone == UNCHANGED account => AccountsPersist
BY DEF AccountsPersist

LEMMA SessionsAlone == UNCHANGED session => SessionsPersist
BY DEF SessionsPersist

\* Asking for a code.
LEMMA AskingStep ==
    ASSUME IInv, NEW r \in Requests,
           \/ \E u \in Users, pw \in Passwords : Register(r, u, pw)
           \/ \E u \in Users :
                ResendVerification(r, u) \/ ForgotPassword(r, u)
           \/ Invalidate(r) \/ CreateToken(r) \/ Mail(r)
    PROVE  IInv'
<1>1. TypeOK'
    BY AskingKeepsTypes DEF IInv
<1>2. CASE \E u \in Users, pw \in Passwords : Register(r, u, pw)
    <2>1. PICK u \in Users, pw \in Passwords : Register(r, u, pw)
        BY <1>2
    <2>2. LetsGo(r)
        BY <2>1, AskingTyped DEF Register, Start, LetsGo, Holding, IInv,
                                 TypeOK, Purposes
    <2>3. AccountsPersist
        BY <2>1 DEF Register, AccountsPersist, NoAccount, IInv, TypeOK
    <2>4. SessionsPersist
        BY <2>1, SessionsAlone DEF Register
    <2> QED BY <1>1, <2>1, <2>2, <2>3, <2>4, CodesKept, PlainStep
            DEF Register, history
<1>3. CASE \E u \in Users : ResendVerification(r, u) \/ ForgotPassword(r, u)
    <2>0. PICK u \in Users : ResendVerification(r, u) \/ ForgotPassword(r, u)
        BY <1>3
    <2>1. LetsGo(r)
        BY <2>0, AskingTyped DEF ResendVerification, ForgotPassword, Start,
                                 LetsGo, Holding, IInv, TypeOK, Purposes
    <2> QED BY <1>1, <2>0, <2>1, CodesKept, AccountsAlone, SessionsAlone,
               PlainStep
            DEF ResendVerification, ForgotPassword, rowVars, history
<1>4. CASE Invalidate(r)
    <2>1. LetsGo(r)
        BY <1>4 DEF Invalidate, GoTo, LetsGo, Holding, IInv, TypeOK, Request
    <2> QED BY <1>1, <1>4, <2>1, InvalidateStep, AccountsAlone, SessionsAlone,
               PlainStep
            DEF Invalidate
<1>5. CASE CreateToken(r)
    <2>1. RowsPersist /\ OneUnconsumed' /\ RedeemedIsConsumed'
        BY <1>5, CreateTokenStep
    <2>2. AccountsPersist /\ SessionsPersist
        BY <1>5, AccountsAlone, SessionsAlone DEF CreateToken
    <2>3. \A x \in Requests : x # r => req'[x] = req[x]
        BY <1>5 DEF CreateToken, Start, Finish, IInv, TypeOK
    <2>4. SlotFine(r)'
        <3>1. CASE req'[r] = Idle
            BY <3>1 DEF SlotFine, Idle
        <3>2. CASE req'[r] # Idle
            <4>1. PICK t \in Rows :
                    req' = [req EXCEPT ![r] =
                                [req[r] EXCEPT !.at = "mail", !.row = t]]
                BY <1>5, <3>2 DEF CreateToken, Start, Finish, IInv, TypeOK
            <4>2. req'[r].at = "mail" /\ req'[r].row = t
                BY <4>1 DEF IInv, TypeOK, Request
            <4> QED BY <4>2 DEF SlotFine
        <3> QED BY <3>1, <3>2
    <2> QED BY <1>1, <2>1, <2>2, <2>3, <2>4, SlotsKept, AccountsKept DEF IInv
<1>6. CASE Mail(r)
    <2>1. LetsGo(r)
        BY <1>6 DEF Mail, Finish, Idle, LetsGo, Holding, IInv, TypeOK
    <2> QED BY <1>1, <1>6, <2>1, CodesKept, AccountsAlone, SessionsAlone,
               PlainStep
            DEF Mail, rowVars, history
<1> QED BY <1>2, <1>3, <1>4, <1>5, <1>6

\* Redeeming a code: accepted, it is the slot's, for its user and purpose.
LEMMA RedeemStep ==
    ASSUME IInv, NEW r \in Requests, NEW u \in Users, NEW code \in Codes,
           \/ VerifyEmail(r, u, code)
           \/ \E pw \in Passwords : ResetPassword(r, u, code, pw)
    PROVE  IInv'
<1>1. TypeOK'
    BY RedeemingKeepsTypes DEF IInv
<1>2. CASE VerifyEmail(r, u, code)
    <2>1. PICK t \in Rows :
            /\ Matches(t, u, "verify_email", code)
            /\ token' = [token EXCEPT ![t].consumed = TRUE]
            /\ redeemed' = [redeemed EXCEPT ![t] = @ + 1]
            /\ Start(r, [Idle EXCEPT !.at = "verify", !.user = token[t].user,
                                     !.row = t])
            /\ UNCHANGED <<account, session, expired, mailed, chosen, faults>>
        BY <1>2 DEF VerifyEmail
    <2>2. /\ OneUnconsumed' /\ RedeemedIsConsumed' /\ RowsPersist
          /\ redeemed'[t] = 1 /\ token'[t].user = u
          /\ token'[t].purpose = "verify_email"
        BY <2>1, ConsumeStep DEF Matches
    <2>3. /\ req'[r].at = "verify" /\ req'[r].user = u /\ req'[r].row = t
          /\ \A x \in Requests : x # r => req'[x] = req[x]
        BY <2>1 DEF Start, Idle, Matches, IInv, TypeOK
    <2>4. SlotFine(r)'
        BY <2>2, <2>3 DEF SlotFine, RedeemedFor
    <2>5. AccountsPersist /\ SessionsPersist
        BY <2>1, AccountsAlone, SessionsAlone
    <2> QED BY <1>1, <2>2, <2>3, <2>4, <2>5, SlotsKept, AccountsKept DEF IInv
<1>3. CASE \E pw \in Passwords : ResetPassword(r, u, code, pw)
    <2>1. PICK pw \in Passwords, t \in Rows :
            /\ Matches(t, u, "reset_password", code)
            /\ token' = [token EXCEPT ![t].consumed = TRUE]
            /\ redeemed' = [redeemed EXCEPT ![t] = @ + 1]
            /\ chosen' = [chosen EXCEPT ![t] = pw]
            /\ Start(r, [Idle EXCEPT !.at = "revoke", !.user = token[t].user,
                 !.row = t, !.password = pw,
                 !.seen = {s \in Sessions : Live(s) /\ session[s].user = u}])
            /\ UNCHANGED <<account, session, expired, mailed, faults>>
        BY <1>3 DEF ResetPassword
    <2>2. chosen'[t] = pw /\ \A x \in Rows : x # t => chosen'[x] = chosen[x]
        BY <2>1 DEF IInv, TypeOK
    <2>3. /\ OneUnconsumed' /\ RedeemedIsConsumed' /\ RowsPersist
          /\ redeemed'[t] = 1 /\ token'[t].user = u
          /\ token'[t].purpose = "reset_password"
        BY <2>1, <2>2, ConsumeStep DEF Matches
    <2>4. /\ req'[r].at = "revoke" /\ req'[r].user = u /\ req'[r].row = t
          /\ req'[r].password = pw
          /\ req'[r].seen = {s \in Sessions : Live(s) /\ session[s].user = u}
          /\ \A x \in Requests : x # r => req'[x] = req[x]
        BY <2>1 DEF Start, Idle, Matches, IInv, TypeOK
    <2>5. SlotFine(r)'
        BY <2>1, <2>2, <2>3, <2>4 DEF SlotFine, RedeemedFor
    <2>6. AccountsPersist /\ SessionsPersist
        BY <2>1, AccountsAlone, SessionsAlone
    <2> QED BY <1>1, <2>3, <2>4, <2>5, <2>6, SlotsKept, AccountsKept DEF IInv
<1> QED BY <1>2, <1>3

\* What follows: the address is verified, or the sessions end and the password
\* changes.
LEMMA CarryOutStep ==
    ASSUME IInv, NEW r \in Requests,
           \/ MarkEmailVerified(r) \/ RevokeAllForUser(r) \/ UpdatePassword(r)
    PROVE  IInv'
<1>1. CASE MarkEmailVerified(r)
    <2>1. RedeemedFor(req[r].row, req[r].user, "verify_email")
        BY <1>1 DEF MarkEmailVerified, IInv, HoldsItsCode
    <2>2. LetsGo(r)
        BY <1>1 DEF MarkEmailVerified, Finish, Idle, LetsGo, Holding, IInv,
                    TypeOK
    <2>3. /\ \A u \in Users : u # req[r].user => account'[u] = account[u]
          /\ account'[req[r].user].password = account[req[r].user].password
          /\ account'[req[r].user].first = account[req[r].user].first
        BY <1>1, <2>1 DEF MarkEmailVerified, RedeemedFor, IInv, TypeOK,
                          Account
    <2>4. AccountsPersist
        BY <2>1, <2>3 DEF AccountsPersist, RedeemedFor
    <2>5. PICK u \in Users : RedeemedFor(req[r].row, u, "verify_email")
        BY <2>1 DEF RedeemedFor
    <2>6. TypeOK'
        BY <1>1, <2>5, RedeemingKeepsTypes DEF IInv
    <2> QED BY <1>1, <2>2, <2>4, <2>6, CodesKept, SessionsAlone, PlainStep
            DEF MarkEmailVerified, history
<1>2. CASE RevokeAllForUser(r)
    <2>1. /\ RedeemedFor(req[r].row, req[r].user, "reset_password")
          /\ chosen[req[r].row] = req[r].password
          /\ \A s \in req[r].seen : session[s].user = req[r].user
        BY <1>2 DEF RevokeAllForUser, IInv, HoldsItsCode, SeenAreOwn
    <2>2. TypeOK'
        BY <1>2, <2>1, RedeemingKeepsTypes DEF RedeemedFor, IInv
    <2>3. \A s \in Sessions :
            /\ session'[s].user = session[s].user
            /\ session[s].revoked => session'[s].revoked
            /\ session[s].user = req[r].user => session'[s].revoked
        BY <1>2 DEF RevokeAllForUser, Revocable, IInv, TypeOK, Session
    <2>4. /\ req'[r] = [req[r] EXCEPT !.at = "password"]
          /\ \A x \in Requests : x # r => req'[x] = req[x]
        BY <1>2 DEF RevokeAllForUser, GoTo, IInv, TypeOK, Request
    <2>5. /\ req'[r].at = "password" /\ req'[r].user = req[r].user
          /\ req'[r].row = req[r].row /\ req'[r].password = req[r].password
          /\ req'[r].seen = req[r].seen /\ req[r].seen \subseteq Sessions
        BY <2>4 DEF IInv, TypeOK, Request
    <2>6. OneUnconsumed' /\ RedeemedIsConsumed' /\ RowsPersist
        BY <1>2, CodesKept DEF RevokeAllForUser, history
    <2>7. SlotFine(r)'
        <3>1. \A s \in req'[r].seen :
                session'[s].user = req'[r].user /\ session'[s].revoked
            BY <2>1, <2>3, <2>5
        <3>2. /\ RedeemedFor(req[r].row, req[r].user, "reset_password")'
              /\ chosen'[req'[r].row] = req'[r].password
            BY <2>1, <2>5, <2>6, AcceptedPersists
        <3> QED BY <2>5, <3>1, <3>2 DEF SlotFine
    <2>8. AccountsPersist /\ SessionsPersist
        BY <1>2, <2>3, AccountsAlone DEF RevokeAllForUser, SessionsPersist
    <2> QED BY <2>2, <2>4, <2>6, <2>7, <2>8, SlotsKept, AccountsKept DEF IInv
<1>3. CASE UpdatePassword(r)
    <2>1. /\ RedeemedFor(req[r].row, req[r].user, "reset_password")
          /\ chosen[req[r].row] = req[r].password
        BY <1>3 DEF UpdatePassword, IInv, HoldsItsCode
    <2>2. TypeOK'
        BY <1>3, <2>1, RedeemingKeepsTypes DEF RedeemedFor, IInv
    <2>3. LetsGo(r)
        BY <1>3 DEF UpdatePassword, Finish, Idle, LetsGo, Holding, IInv, TypeOK
    <2>4. /\ \A u \in Users : u # req[r].user => account'[u] = account[u]
          /\ account'[req[r].user].made = account[req[r].user].made
          /\ account'[req[r].user].verified = account[req[r].user].verified
          /\ account'[req[r].user].password = req[r].password
        BY <1>3, <2>1 DEF UpdatePassword, RedeemedFor, IInv, TypeOK, Account
    <2>5. AccountsPersist
        BY <2>1, <2>4 DEF AccountsPersist, RedeemedFor
    <2> QED BY <1>3, <2>2, <2>3, <2>5, CodesKept, SessionsAlone, PlainStep
            DEF UpdatePassword, history
<1> QED BY <1>1, <1>2, <1>3

\* Logging in, with a password or with Google.
LEMMA LoginStep ==
    ASSUME IInv, NEW r \in Requests, NEW u \in Users,
           GoogleLogin(r, u) \/ \E pw \in Passwords : Login(r, u, pw)
    PROVE  IInv'
<1>1. TypeOK'
    BY OthersKeepTypes DEF IInv
<1>2. LetsGo(r)
    <2>1. CASE GoogleLogin(r, u)
        BY <2>1 DEF GoogleLogin, Start, Idle, LetsGo, Holding, IInv, TypeOK
    <2>2. CASE \E pw \in Passwords : Login(r, u, pw)
        <3>1. PICK pw \in Passwords : Login(r, u, pw)
            BY <2>2
        <3>2. /\ \A x \in Requests : x # r => req'[x] = req[x]
              /\ req'[r] = [Idle EXCEPT !.at = "session", !.user = u,
                                        !.password = pw]
            BY <3>1 DEF Login, Start, IInv, TypeOK
        <3>3. req'[r].at = "session"
            BY <3>2 DEF Idle
        <3> QED BY <3>2, <3>3 DEF LetsGo, Holding
    <2> QED BY <2>1, <2>2
<1>3. OneUnconsumed' /\ RedeemedIsConsumed' /\ RowsPersist
    BY CodesKept DEF GoogleLogin, Login, rowVars, history
<1>4. AccountsPersist
    <2>1. CASE GoogleLogin(r, u)
        BY <2>1 DEF GoogleLogin, AccountsPersist, NoAccount, IInv, TypeOK
    <2>2. CASE ~GoogleLogin(r, u)
        BY <2>2, AccountsAlone DEF Login, rowVars
    <2> QED BY <2>1, <2>2
<1>5. SessionsPersist
    BY SessionsAlone DEF GoogleLogin, Login, rowVars
<1> QED BY <1>1, <1>2, <1>3, <1>4, <1>5, PlainStep

\* Opening the session, or dying at any stage.
LEMMA EndStep ==
    ASSUME IInv, NEW r \in Requests, OpenSession(r) \/ RequestDies(r)
    PROVE  IInv'
<1>1. TypeOK'
    BY OthersKeepTypes DEF IInv
<1>2. LetsGo(r)
    BY DEF OpenSession, RequestDies, Finish, Idle, LetsGo, Holding, IInv,
           TypeOK
<1>3. OneUnconsumed' /\ RedeemedIsConsumed' /\ RowsPersist
    BY CodesKept DEF OpenSession, RequestDies, rowVars, history
<1>4. AccountsPersist
    BY AccountsAlone DEF OpenSession, RequestDies, rowVars
<1>5. SessionsPersist
    BY DEF OpenSession, RequestDies, rowVars, SessionsPersist, IInv, TypeOK
<1> QED BY <1>1, <1>2, <1>3, <1>4, <1>5, PlainStep

\* A step that moves no slot.
LEMMA IdleStep ==
    ASSUME IInv, TypeOK', OneUnconsumed' /\ RedeemedIsConsumed', RowsPersist,
           SessionsPersist, AccountsPersist, UNCHANGED req
    PROVE  IInv'
<1>1. \A r \in Requests : SlotFine(r)'
    BY SlotStays DEF SlotFine
<1>2. HoldsItsCode' /\ SeenAreOwn' /\ SeenSessionsEnd'
    BY <1>1 DEF SlotFine, HoldsItsCode, SeenAreOwn, SeenSessionsEnd
<1> QED BY <1>2, AccountsKept DEF IInv

\* Logging out, the clock and the administrator.
LEMMA OtherStep ==
    ASSUME IInv,
           \/ \E s \in Sessions : Logout(s)
           \/ \E t \in Rows : CodeExpires(t)
           \/ \E u \in Users : UpdateStatus(u)
    PROVE  IInv'
<1>1. TypeOK'
    BY OthersKeepTypes DEF IInv
<1>2. UNCHANGED req
    BY DEF Logout, CodeExpires, UpdateStatus
<1>3. OneUnconsumed' /\ RedeemedIsConsumed' /\ RowsPersist
    BY CodesKept DEF Logout, CodeExpires, UpdateStatus, rowVars, history
<1>4. SessionsPersist
    BY DEF Logout, CodeExpires, UpdateStatus, rowVars, SessionsPersist, IInv,
           TypeOK, Session
<1>5. AccountsPersist
    BY DEF Logout, CodeExpires, UpdateStatus, rowVars, AccountsPersist, IInv,
           TypeOK, Account
<1> QED BY <1>1, <1>2, <1>3, <1>4, <1>5, IdleStep

\* Every step, and stuttering, keeps the invariant.
LEMMA StepHolds == IInv /\ [Next]_vars => IInv'
<1> SUFFICES ASSUME IInv, [Next]_vars PROVE IInv'
    OBVIOUS
<1>1. CASE \E r \in Requests : Serve(r) \/ RequestDies(r)
    <2>1. PICK r \in Requests : Serve(r) \/ RequestDies(r)
        BY <1>1
    <2>2. CASE Invalidate(r) \/ CreateToken(r) \/ Mail(r)
        BY <2>2, AskingStep
    <2> QED BY <2>1, <2>2, CarryOutStep, EndStep DEF Serve
<1>2. CASE \E r \in Requests, u \in Users : Accept(r, u)
    BY <1>2, AskingStep, RedeemStep, LoginStep DEF Accept
<1>3. CASE \/ \E s \in Sessions : Logout(s)
           \/ \E t \in Rows : CodeExpires(t)
           \/ \E u \in Users : UpdateStatus(u)
    BY <1>3, OtherStep
<1>4. CASE UNCHANGED vars
    <2>1. TypeOK'
        BY <1>4 DEF vars, rowVars, history, IInv, TypeOK
    <2> QED BY <1>4, <2>1, CodesKept, AccountsAlone, SessionsAlone, IdleStep
            DEF vars, rowVars, history
<1> QED BY <1>1, <1>2, <1>3, <1>4 DEF Next

(***************************************************************************)
(* The theorems.                                                           *)
(***************************************************************************)

\* The strengthening holds in every reachable state: a request between two
\* statements holds a code that was accepted for just what it is doing.
THEOREM Invariant == Spec => []IInv
<1> QED BY InitHolds, StepHolds, PTL DEF Spec

\* The rows, the histories and the request slots keep their shape.
THEOREM TypeCorrect == Spec => []TypeOK
<1>1. IInv => TypeOK
    BY DEF IInv
<1> QED BY <1>1, Invariant, PTL

\* A user has at most one usable code per purpose, and none is accepted twice.
THEOREM CodesAreSingle == Spec => []OneUsableCode
<1>1. IInv => OneUsableCode
    BY DEF IInv, OneUnconsumed, RedeemedIsConsumed, OneUsableCode, Usable
<1> QED BY <1>1, Invariant, PTL

\* An address registered with a password is verified by a code of its own.
THEOREM VerifiedOnlyByCode == Spec => []VerifiedByCode
<1>1. IInv => VerifiedByCode
    BY DEF IInv
<1> QED BY <1>1, Invariant, PTL

\* A password changes only by a reset code of that very account.
THEOREM PasswordOnlyByReset == Spec => []PasswordByReset
<1>1. IInv => PasswordByReset
    BY DEF IInv
<1> QED BY <1>1, Invariant, PTL

\* No code serves another account or another purpose.
THEOREM CodesServe == Spec => []CodesServeTheirPurpose
<1>1. IInv => CodesServeTheirPurpose
    BY DEF IInv, CodesServeTheirPurpose
<1> QED BY <1>1, Invariant, PTL

\* The sessions a reset has found are over before it writes the password.
THEOREM FoundSessionsEnd == Spec => []SeenSessionsEnd
<1>1. IInv => SeenSessionsEnd
    BY DEF IInv
<1> QED BY <1>1, Invariant, PTL

=============================================================================
