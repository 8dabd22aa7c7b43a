---------------------------- MODULE UserSessions ----------------------------
(***************************************************************************)
(* Users, their login sessions and the administrators                      *)
(* (app/auth.py, routers/auth.py, security.py; tables users and            *)
(* user_sessions).                                                         *)
(*                                                                         *)
(* Endpoints are plain functions and run in threads, each in a database    *)
(* session of its own.  A request first authenticates and reads what it    *)
(* decides on, hashes a password (which takes a while), and then writes    *)
(* and commits: two steps, with the steps of other requests in between.    *)
(* What it has read is not read again (expire_on_commit=False).            *)
(*                                                                         *)
(* A password is a member of Passwords, a token the member of Tokens that  *)
(* stands for it.  Token values are random and never meet again: a token   *)
(* is given out when no row and no request holds it.                       *)
(***************************************************************************)
CONSTANTS
    Names,      \* usernames; a user is never deleted and keeps its name
    Passwords,
    Tokens,     \* bounds the sessions that are stored at once
    Requests,   \* request threads
    None        \* no user, no session

VARIABLES
    user,   \* username -> row of the user, or None
    sess,   \* token -> row of the session, or None
    req     \* request thread -> what it has read and is about to write

vars == <<user, sess, req>>

Ops == {"setup", "login", "recover", "change", "create", "update", "reset"}
User == [admin : BOOLEAN, active : BOOLEAN, pw : Passwords]
\* late: the user's password or status had changed between the check and the
\* insert.  pw: the password that was checked.  Both serve the properties only.
Session == [of : Names, expired : BOOLEAN, pw : Passwords, late : BOOLEAN]
Request == [op : Ops, by : Names, tok : Tokens \cup {None}, on : Names, pw : Passwords,
            flag : BOOLEAN, seen : BOOLEAN]

ASSUME SessionsAssumption ==
    /\ None \notin User /\ None \notin Session /\ None \notin Request
    /\ None \notin Tokens

TypeOK ==
    /\ user \in [Names -> User \cup {None}]
    /\ sess \in [Tokens -> Session \cup {None}]
    /\ req \in [Requests -> Request \cup {None}]

Init ==
    /\ user = [n \in Names |-> None]
    /\ sess = [t \in Tokens |-> None]
    /\ req = [q \in Requests |-> None]

Exists(n) == user[n] # None
Active(n) == Exists(n) /\ user[n].active
ActiveAdmin(n) == Active(n) /\ user[n].admin
HasActiveAdmin == \E n \in Names : ActiveAdmin(n)

\* get_current_user and require_admin: the row is there, has not expired and
\* its user is active.
Authentic(t) == sess[t] # None /\ ~sess[t].expired /\ Active(sess[t].of)
Admin(t) == Authentic(t) /\ user[sess[t].of].admin

-----------------------------------------------------------------------------
(* The first step of a request: checks that end it with an error, and what *)
(* the second step will use.                                               *)

Begin(q, op, by, tok, on, pw, flag, seen) ==
    /\ req[q] = None
    /\ req' = [req EXCEPT ![q] = [op |-> op, by |-> by, tok |-> tok, on |-> on, pw |-> pw,
                                  flag |-> flag, seen |-> seen]]
    /\ UNCHANGED <<user, sess>>

\* POST /auth/setup: the first administrator, with a free name.
SetupAdmin(q) == \E n \in Names, p \in Passwords :
    /\ ~HasActiveAdmin /\ ~Exists(n)
    /\ Begin(q, "setup", n, None, n, p, TRUE, TRUE)

\* POST /auth/login with the password of an active user.
Login(q) == \E n \in Names :
    /\ Active(n)
    /\ Begin(q, "login", n, None, n, user[n].pw, TRUE, TRUE)

\* POST /auth/recover with the configured token: an active administrator.
RecoverAdmin(q) == \E n \in Names, p \in Passwords :
    /\ ActiveAdmin(n)
    /\ Begin(q, "recover", n, None, n, p, TRUE, TRUE)

\* POST /auth/change-password with the current password.
ChangePassword(q) == \E t \in Tokens, p \in Passwords :
    /\ Authentic(t)
    /\ Begin(q, "change", sess[t].of, t, sess[t].of, p, TRUE, TRUE)

\* POST /users; flag: the new user's role is administrator.
CreateUser(q) == \E t \in Tokens, n \in Names, p \in Passwords, admin \in BOOLEAN :
    /\ Admin(t) /\ ~Exists(n)
    /\ Begin(q, "create", sess[t].of, t, n, p, admin, TRUE)

UpdateUserUnguarded(q) == \E t \in Tokens, n \in Names, active \in BOOLEAN :
    /\ Admin(t) /\ Exists(n)
    /\ Begin(q, "update", sess[t].of, t, n, user[n].pw, active, user[n].active)

\* PATCH /users/{id}; flag: is_active, seen: what the target's row said.  An
\* administrator cannot disable itself.
UpdateUser(q) == \E t \in Tokens, n \in Names, active \in BOOLEAN :
    /\ Admin(t) /\ Exists(n) /\ (active \/ n # sess[t].of)
    /\ Begin(q, "update", sess[t].of, t, n, user[n].pw, active, user[n].active)

\* POST /users/{id}/reset-password.
ResetPassword(q) == \E t \in Tokens, n \in Names, p \in Passwords :
    /\ Admin(t) /\ Exists(n)
    /\ Begin(q, "reset", sess[t].of, t, n, p, TRUE, TRUE)

-----------------------------------------------------------------------------
(* The second step: the writes and the commit.                             *)

Finish(q, op) == req[q] # None /\ req[q].op = op /\ req' = [req EXCEPT ![q] = None]

\* A new session of user n, whose password was p when it was checked.
Fresh(t) == sess[t] = None /\ \A q \in Requests : req[q] # None => req[q].tok # t
Open(t, n, p) ==
    /\ Fresh(t)
    /\ sess' = [sess EXCEPT ![t] =
                  [of |-> n, expired |-> FALSE, pw |-> p,
                   late |-> ~user'[n].active \/ user'[n].pw # p]]

\* The sessions of n are deleted, but for the token kept.
Revoke(n, kept) ==
    sess' = [t \in Tokens |-> IF sess[t] # None /\ sess[t].of = n /\ t # kept THEN None ELSE sess[t]]

NewUser(q, n, admin) ==
    user' = [user EXCEPT ![n] = [admin |-> admin, active |-> TRUE, pw |-> req[q].pw]]
NewPassword(q) == user' = [user EXCEPT ![req[q].on].pw = req[q].pw]

\* A name that was taken in the meantime fails the insert and all of it.
SetupCommit(q) ==
    /\ Finish(q, "setup")
    /\ \/ Exists(req[q].on) /\ UNCHANGED <<user, sess>>
       \/ /\ ~Exists(req[q].on)
          /\ NewUser(q, req[q].on, TRUE)
          /\ \E t \in Tokens : Open(t, req[q].on, req[q].pw)

LoginCommit(q) ==
    /\ Finish(q, "login")
    /\ UNCHANGED user
    /\ \E t \in Tokens : Open(t, req[q].on, req[q].pw)

RecoverCommit(q) ==
    /\ Finish(q, "recover")
    /\ NewPassword(q)
    /\ Revoke(req[q].on, None)

ChangeKeepingAll(q) ==
    /\ Finish(q, "change")
    /\ NewPassword(q)
    /\ UNCHANGED sess

\* The session the change was made from stays, and is one of the new password.
ChangeCommit(q) ==
    /\ Finish(q, "change")
    /\ NewPassword(q)
    /\ sess' = [t \in Tokens |->
                  IF sess[t] = None \/ sess[t].of # req[q].on THEN sess[t]
                  ELSE IF t = req[q].tok THEN [sess[t] EXCEPT !.pw = req[q].pw] ELSE None]

CreateCommit(q) ==
    /\ Finish(q, "create")
    /\ IF Exists(req[q].on) THEN UNCHANGED user ELSE NewUser(q, req[q].on, req[q].flag)
    /\ UNCHANGED sess

UpdateForgetful(q) ==
    /\ Finish(q, "update")
    /\ user' = IF req[q].flag = req[q].seen THEN user
               ELSE [user EXCEPT ![req[q].on].active = req[q].flag]
    /\ UNCHANGED sess

\* is_active is written only if it differs from what was read.
UpdateCommit(q) ==
    /\ Finish(q, "update")
    /\ user' = IF req[q].flag = req[q].seen THEN user
               ELSE [user EXCEPT ![req[q].on].active = req[q].flag]
    /\ IF req[q].flag THEN UNCHANGED sess ELSE Revoke(req[q].on, None)

ResetCommit(q) ==
    /\ Finish(q, "reset")
    /\ NewPassword(q)
    /\ Revoke(req[q].on, None)

-----------------------------------------------------------------------------
\* POST /auth/logout, with any token that is stored.
Logout == \E t \in Tokens :
    /\ sess[t] # None
    /\ sess' = [sess EXCEPT ![t] = None]
    /\ UNCHANGED <<user, req>>

\* Seven days pass.
Expire == \E t \in Tokens :
    /\ sess[t] # None /\ ~sess[t].expired
    /\ sess' = [sess EXCEPT ![t].expired = TRUE]
    /\ UNCHANGED <<user, req>>

\* SchedulerManager.cleanup_expired deletes what has expired.
Cleanup ==
    /\ sess' = [t \in Tokens |-> IF sess[t] # None /\ sess[t].expired THEN None ELSE sess[t]]
    /\ UNCHANGED <<user, req>>

\* The process stops: requests end where they are, uncommitted.
Restart == req' = [q \in Requests |-> None] /\ UNCHANGED <<user, sess>>

Check(q) == \/ SetupAdmin(q) \/ Login(q) \/ RecoverAdmin(q) \/ ChangePassword(q)
            \/ CreateUser(q) \/ UpdateUser(q) \/ ResetPassword(q)
Commit(q) == \/ SetupCommit(q) \/ LoginCommit(q) \/ RecoverCommit(q) \/ ChangeCommit(q)
             \/ CreateCommit(q) \/ UpdateCommit(q) \/ ResetCommit(q)
Next == \/ \E q \in Requests : Check(q) \/ Commit(q)
        \/ Logout \/ Expire \/ Cleanup \/ Restart

Spec == Init /\ [][Next]_vars

-----------------------------------------------------------------------------
(* Properties.                                                             *)

\* A change, reset or recovery of the password and the disabling of a user
\* end the sessions opened before, so that a stored session is one of an
\* active user who gave the current password.  The exception is a session
\* that was late: its login had passed the check when the change was made
\* and inserted the session afterwards.
NoStaleSession ==
    \A t \in Tokens : sess[t] # None =>
        LET u == user[sess[t].of] IN
        u # None /\ (sess[t].late \/ (u.active /\ u.pw = sess[t].pw))

\* There is an administrator as long as updates do not overlap: the update
\* that disables the last one was authenticated for an administrator who has
\* been disabled by another request since (routers/auth.py:218 only keeps
\* administrators from disabling themselves).
LastAdminStays ==
    [][HasActiveAdmin /\ ~HasActiveAdmin' =>
         \E q \in Requests : /\ req[q] # None /\ req'[q] = None
                             /\ req[q].op = "update" /\ ~req[q].flag
                             /\ ~ActiveAdmin(req[q].by)]_vars
=============================================================================
