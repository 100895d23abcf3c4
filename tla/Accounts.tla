------------------------------ MODULE Accounts -----------------------------
(***************************************************************************)
(* Accounts, mailed codes and sessions (auth/application/auth_service.go). *)
(* A code is a row of email_action_tokens. Asking for one invalidates what *)
(* is active, inserts and mails in three steps; redeeming one is a single  *)
(* UPDATE, and what it allows - verifying the address, replacing the       *)
(* password - follows in further statements. Requests interleave freely.   *)
(* RefreshSession writes nothing and is left out; two accounts whose       *)
(* addresses differ by case only are not considered.                       *)
(***************************************************************************)
EXTENDS Naturals, FiniteSets

CONSTANTS
    Users,        \* accounts, by e-mail address
    Passwords,
    Rows,         \* bound: ids of the rows of email_action_tokens
    Codes,        \* six-digit codes, drawn at random: rows may share one
    Sessions,     \* bound: ids of the rows of user_sessions
    Requests,     \* slots: requests served at the same time
    MaxFaults,    \* bound: deaths and failed statements or mails
    MaxExpiries,  \* bound: codes that expire
    NULL

ASSUME AccountsAssumption ==
    /\ MaxFaults \in Nat /\ MaxExpiries \in Nat
    /\ NULL \notin Users \cup Passwords \cup Rows \cup Codes

VARIABLES
    account,    \* the users row: password, verified, status; how it was made,
                \* and with which password, is history
    token,      \* the email_action_tokens rows
    expired,    \* whether expires_at of the row has passed
    mailed,     \* rows whose code a mail has carried to the user
    session,    \* the user_sessions rows
    req,        \* what each slot is doing
    redeemed,   \* history: how often the row's code was accepted
    chosen,     \* history: the new password sent with it
    faults

rowVars == <<account, token, session>>
history == <<redeemed, chosen>>
vars == <<rowVars, expired, mailed, req, history, faults>>

Purposes == {"verify_email", "reset_password"}

Account == [made : {"none", "password", "google"}, first : Passwords \cup {NULL},
            password : Passwords \cup {NULL}, verified : BOOLEAN,
            suspended : BOOLEAN]
NoAccount == [made |-> "none", first |-> NULL, password |-> NULL,
              verified |-> FALSE, suspended |-> FALSE]

Token == [user : Users \cup {NULL}, purpose : Purposes \cup {NULL},
          code : Codes \cup {NULL}, consumed : BOOLEAN]
NoToken == [user |-> NULL, purpose |-> NULL, code |-> NULL, consumed |-> FALSE]

Session == [user : Users \cup {NULL}, under : Passwords \cup {NULL},
            revoked : BOOLEAN]
NoSession == [user |-> NULL, under |-> NULL, revoked |-> FALSE]

Stages == {"idle", "invalidate", "create", "mail", "verify", "revoke",
           "password", "session"}
Request == [at : Stages, user : Users \cup {NULL},
            purpose : Purposes \cup {NULL}, row : Rows \cup {NULL},
            password : Passwords \cup {NULL}, seen : SUBSET Sessions]
Idle == [at |-> "idle", user |-> NULL, purpose |-> NULL, row |-> NULL,
         password |-> NULL, seen |-> {}]

\* The shape of the rows, of the histories and of the request slots.
TypeOK ==
    /\ account \in [Users -> Account]
    /\ token \in [Rows -> Token]
    /\ expired \in SUBSET Rows
    /\ mailed \in SUBSET Rows
    /\ session \in [Sessions -> Session]
    /\ req \in [Requests -> Request]
    /\ redeemed \in [Rows -> Nat]
    /\ chosen \in [Rows -> Passwords \cup {NULL}]
    /\ faults \in 0..MaxFaults

Init ==
    /\ account = [u \in Users |-> NoAccount]
    /\ token = [t \in Rows |-> NoToken]
    /\ expired = {}
    /\ mailed = {}
    /\ session = [s \in Sessions |-> NoSession]
    /\ req = [r \in Requests |-> Idle]
    /\ redeemed = [t \in Rows |-> 0]
    /\ chosen = [t \in Rows |-> NULL]
    /\ faults = 0

Fault == faults < MaxFaults /\ faults' = faults + 1

Exists(u) == account[u].made # "none"
Free(t) == token[t].user = NULL
\* Every request on its way to an insert finds an id left (the bound).
RowsLeft ==
    Cardinality({r \in Requests : req[r].at \in {"invalidate", "create"}})
        < Cardinality({t \in Rows : Free(t)})
Unopened(s) == session[s].user = NULL
Live(s) == ~Unopened(s) /\ ~session[s].revoked

Finish(r) == req' = [req EXCEPT ![r] = Idle]
GoTo(r, stage) == req' = [req EXCEPT ![r].at = stage]
Start(r, job) == req' = [req EXCEPT ![r] = job]

----------------------------------------------------------------------------
(* The token repository.                                                   *)

\* Mutant of Usable: a row that was consumed is still accepted.
UnexpiredRow(t) == ~Free(t) /\ t \notin expired

Usable(t) == ~Free(t) /\ ~token[t].consumed /\ t \notin expired

\* Mutant of InvalidateActive: it is not called.
InvalidateNone(u, purpose) == token' = token

\* InvalidateActive: every usable row of this user and purpose is consumed.
InvalidateActive(u, purpose) ==
    token' = [t \in Rows |->
        IF Usable(t) /\ token[t].user = u /\ token[t].purpose = purpose
        THEN [token[t] EXCEPT !.consumed = TRUE]
        ELSE token[t]]

\* Mutant of Unoccupied: no unique index.
Always(u, purpose) == TRUE

\* The unique index: one unconsumed row per user and purpose, expired or not.
Unoccupied(u, purpose) ==
    \A t \in Rows :
        token[t].user = u /\ token[t].purpose = purpose => token[t].consumed

\* Mutant of Matches: the purpose is not compared.
MatchesAnyPurpose(t, u, purpose, code) ==
    Usable(t) /\ token[t].user = u /\ token[t].code = code

\* The WHERE clause of Consume.
Matches(t, u, purpose, code) ==
    /\ Usable(t)
    /\ token[t].user = u /\ token[t].purpose = purpose /\ token[t].code = code

----------------------------------------------------------------------------
(* Asking for a code.                                                      *)

Asking(u, purpose) == [Idle EXCEPT !.at = "invalidate", !.user = u,
                                   !.purpose = purpose]

Register(r, u, pw) ==
    /\ req[r].at = "idle"
    /\ ~Exists(u)
    /\ RowsLeft
    /\ account' = [account EXCEPT ![u] =
            [NoAccount EXCEPT !.made = "password", !.first = pw,
                              !.password = pw]]
    /\ Start(r, Asking(u, "verify_email"))
    /\ UNCHANGED <<token, session, expired, mailed, history, faults>>

ResendVerification(r, u) ==
    /\ req[r].at = "idle"
    /\ Exists(u) /\ ~account[u].verified
    /\ RowsLeft
    /\ Start(r, Asking(u, "verify_email"))
    /\ UNCHANGED <<rowVars, expired, mailed, history, faults>>

ForgotPassword(r, u) ==
    /\ req[r].at = "idle"
    /\ Exists(u)
    /\ RowsLeft
    /\ Start(r, Asking(u, "reset_password"))
    /\ UNCHANGED <<rowVars, expired, mailed, history, faults>>

Invalidate(r) ==
    /\ req[r].at = "invalidate"
    /\ InvalidateActive(req[r].user, req[r].purpose)
    /\ GoTo(r, "create")
    /\ UNCHANGED <<account, session, expired, mailed, history, faults>>

\* The insert fails on the unique index and ends the request, or stores a code.
CreateToken(r) ==
    LET q == req[r] IN
    /\ q.at = "create"
    /\ \/ /\ ~Unoccupied(q.user, q.purpose)
          /\ Finish(r)
          /\ UNCHANGED token
       \/ /\ Unoccupied(q.user, q.purpose)
          /\ \E t \in Rows, c \in Codes :
                /\ Free(t)
                /\ token' = [token EXCEPT ![t] =
                        [user |-> q.user, purpose |-> q.purpose, code |-> c,
                         consumed |-> FALSE]]
                /\ Start(r, [q EXCEPT !.at = "mail", !.row = t])
    /\ UNCHANGED <<account, session, expired, mailed, history, faults>>

Mail(r) ==
    /\ req[r].at = "mail"
    /\ mailed' = mailed \cup {req[r].row}
    /\ Finish(r)
    /\ UNCHANGED <<rowVars, expired, history, faults>>

----------------------------------------------------------------------------
(* Redeeming a code: Consume, then what it was for. The code may be right, *)
(* old or guessed.                                                         *)

VerifyEmail(r, u, code) ==
    \E t \in Rows :
        /\ req[r].at = "idle"
        /\ Matches(t, u, "verify_email", code)
        /\ token' = [token EXCEPT ![t].consumed = TRUE]
        /\ redeemed' = [redeemed EXCEPT ![t] = @ + 1]
        /\ Start(r, [Idle EXCEPT !.at = "verify", !.user = token[t].user,
                                 !.row = t])
        /\ UNCHANGED <<account, session, expired, mailed, chosen, faults>>

MarkEmailVerified(r) ==
    /\ req[r].at = "verify"
    /\ account' = [account EXCEPT ![req[r].user].verified = TRUE]
    /\ Finish(r)
    /\ UNCHANGED <<token, session, expired, mailed, history, faults>>

\* seen is history: the sessions of the user that are live at this moment.
ResetPassword(r, u, code, pw) ==
    \E t \in Rows :
        /\ req[r].at = "idle"
        /\ Matches(t, u, "reset_password", code)
        /\ token' = [token EXCEPT ![t].consumed = TRUE]
        /\ redeemed' = [redeemed EXCEPT ![t] = @ + 1]
        /\ chosen' = [chosen EXCEPT ![t] = pw]
        /\ Start(r, [Idle EXCEPT !.at = "revoke", !.user = token[t].user,
                !.row = t, !.password = pw,
                !.seen = {s \in Sessions : Live(s) /\ session[s].user = u}])
        /\ UNCHANGED <<account, session, expired, mailed, faults>>

\* Mutant of Revocable: sessions Google opened are kept.
PasswordSession(s, u) == session[s].user = u /\ session[s].under # NULL

Revocable(s, u) == session[s].user = u

RevokeAllForUser(r) ==
    /\ req[r].at = "revoke"
    /\ session' = [s \in Sessions |->
            IF Revocable(s, req[r].user)
            THEN [session[s] EXCEPT !.revoked = TRUE] ELSE session[s]]
    /\ GoTo(r, "password")
    /\ UNCHANGED <<account, token, expired, mailed, history, faults>>

UpdatePassword(r) ==
    /\ req[r].at = "password"
    /\ account' = [account EXCEPT ![req[r].user].password = req[r].password]
    /\ Finish(r)
    /\ UNCHANGED <<token, session, expired, mailed, history, faults>>

----------------------------------------------------------------------------
(* Sessions.                                                               *)

\* The row is read and the password compared; the session comes later.
Login(r, u, pw) ==
    /\ req[r].at = "idle"
    /\ account[u].password = pw /\ account[u].verified
    /\ ~account[u].suspended
    /\ \E s \in Sessions : Unopened(s)
    /\ Start(r, [Idle EXCEPT !.at = "session", !.user = u, !.password = pw])
    /\ UNCHANGED <<rowVars, expired, mailed, history, faults>>

\* An account Google vouches for is made if need be, verified and without a
\* password; an existing one is used as it is.
GoogleLogin(r, u) ==
    /\ req[r].at = "idle"
    /\ \E s \in Sessions : Unopened(s)
    /\ account' = IF Exists(u) THEN account
                  ELSE [account EXCEPT ![u] =
                        [NoAccount EXCEPT !.made = "google", !.verified = TRUE]]
    /\ Start(r, [Idle EXCEPT !.at = "session", !.user = u])
    /\ UNCHANGED <<token, session, expired, mailed, history, faults>>

\* Out of session ids (the bound), the request ends without one.
OpenSession(r) ==
    LET q == req[r] IN
    /\ q.at = "session"
    /\ \/ \E s \in Sessions :
            /\ Unopened(s)
            /\ session' = [session EXCEPT ![s] =
                    [user |-> q.user, under |-> q.password, revoked |-> FALSE]]
       \/ /\ \A s \in Sessions : ~Unopened(s)
          /\ UNCHANGED session
    /\ Finish(r)
    /\ UNCHANGED <<account, token, expired, mailed, history, faults>>

\* Revoke by refresh token, whoever holds it.
Logout(s) ==
    /\ Live(s)
    /\ session' = [session EXCEPT ![s].revoked = TRUE]
    /\ UNCHANGED <<account, token, expired, mailed, req, history, faults>>

----------------------------------------------------------------------------
(* Clock, administration, failures.                                        *)

\* expires_at passes, 15 minutes after the row was made.
CodeExpires(t) ==
    /\ ~Free(t) /\ t \notin expired
    /\ Cardinality(expired) < MaxExpiries
    /\ expired' = expired \cup {t}
    /\ UNCHANGED <<rowVars, mailed, req, history, faults>>

\* AdminHandler.UpdateUserStatus.
UpdateStatus(u) ==
    /\ Exists(u)
    /\ account' = [account EXCEPT ![u].suspended = ~@]
    /\ UNCHANGED <<token, session, expired, mailed, req, history, faults>>

\* The process dies, or a statement or the mail fails.
RequestDies(r) ==
    /\ req[r].at # "idle"
    /\ Fault
    /\ Finish(r)
    /\ UNCHANGED <<rowVars, expired, mailed, history>>

----------------------------------------------------------------------------

Serve(r) ==
    \/ Invalidate(r) \/ CreateToken(r) \/ Mail(r)
    \/ MarkEmailVerified(r) \/ RevokeAllForUser(r) \/ UpdatePassword(r)
    \/ OpenSession(r)

Accept(r, u) ==
    \/ ResendVerification(r, u) \/ ForgotPassword(r, u) \/ GoogleLogin(r, u)
    \/ \E pw \in Passwords : Register(r, u, pw) \/ Login(r, u, pw)
    \/ \E code \in Codes : VerifyEmail(r, u, code)
    \/ \E code \in Codes, pw \in Passwords : ResetPassword(r, u, code, pw)

Next ==
    \/ \E r \in Requests : Serve(r) \/ RequestDies(r)
    \/ \E r \in Requests, u \in Users : Accept(r, u)
    \/ \E s \in Sessions : Logout(s)
    \/ \E t \in Rows : CodeExpires(t)
    \/ \E u \in Users : UpdateStatus(u)

Spec == Init /\ [][Next]_vars

\* A request that is being served goes on.
Fairness == \A r \in Requests : WF_vars(Serve(r))
FairSpec == Spec /\ Fairness

----------------------------------------------------------------------------
(* Properties.                                                             *)

\* However requests for codes overlap, a user has at most one code per purpose
\* that would be accepted, and no code is ever accepted twice: asking again
\* puts the earlier codes out of use, as do two clients trying the same one.
OneUsableCode ==
    /\ \A t1, t2 \in Rows :
        Usable(t1) /\ Usable(t2) /\ token[t1].user = token[t2].user
            /\ token[t1].purpose = token[t2].purpose => t1 = t2
    /\ \A t \in Rows : redeemed[t] <= 1

\* An account registered with a password is verified only by a code made for
\* its own address and for this purpose, though codes of several users and
\* purposes are alive and the same digits may be drawn for two of them.
VerifiedByCode ==
    \A u \in Users : account[u].made = "password" /\ account[u].verified =>
        \E t \in Rows : /\ token[t].user = u
                        /\ token[t].purpose = "verify_email"
                        /\ redeemed[t] > 0

\* A password other than the one registered with came with a reset code of
\* this very account, whatever resets of whichever accounts overlap.
PasswordByReset ==
    \A u \in Users : account[u].password # account[u].first =>
        \E t \in Rows : /\ token[t].user = u
                        /\ token[t].purpose = "reset_password"
                        /\ redeemed[t] > 0
                        /\ chosen[t] = account[u].password

\* No code serves another account or another purpose.
CodesServeTheirPurpose == VerifiedByCode /\ PasswordByReset

\* Before a reset writes the password, every session that was live when its
\* code was accepted has ended, whichever way and by whomever it was opened.
SeenSessionsEnd ==
    \A r \in Requests : req[r].at = "password" =>
        \A s \in req[r].seen : session[s].revoked

Sent(u, purpose) ==
    Cardinality({t \in mailed : /\ token[t].user = u
                               /\ token[t].purpose = purpose})
BeingAsked(u, purpose) ==
    \E r \in Requests : /\ req[r].at = "invalidate" /\ req[r].user = u
                        /\ req[r].purpose = purpose

\* Who asks for a code while nothing fails or expires is sent one: if two
\* requests collide on the unique index, the other's mail is on its way.
AskedIsMailed ==
    \A u \in Users, purpose \in Purposes, n \in 0..Cardinality(Rows) :
        (Sent(u, purpose) = n /\ BeingAsked(u, purpose)) ~> Sent(u, purpose) > n

\* When a reset has gone through, no session that exists by then under a
\* password the account no longer has goes on: "4. updates password in DB, 5.
\* revokes all sessions for the user" (docs/staged-email-feature-deep-guide.md:945).
ResetEndsOldSessions ==
    [][\A r \in Requests :
        req[r].at \in {"revoke", "password"} /\ req'[r] = Idle
            /\ faults' = faults =>
        \A s \in Sessions :
            session[s].user = req[r].user
                /\ session[s].under \notin
                        {NULL, account'[req[r].user].password} =>
            session'[s].revoked]_vars

=============================================================================
