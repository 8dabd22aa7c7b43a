------------------------- MODULE UserSessionsProofs -------------------------
(***************************************************************************)
(* Proofs about UserSessions, for any names, passwords, tokens and request *)
(* threads.                                                                *)
(***************************************************************************)
EXTENDS UserSessions, TLAPS

\* What a request under way has read stays true enough: users are never
\* deleted, so the one it writes to is there, and an administrator that
\* disables somebody disables somebody else.
RequestsKnown ==
    \A q \in Requests : req[q] # None =>
        /\ req[q].op \notin {"setup", "create"} => Exists(req[q].on)
        /\ req[q].op = "update" /\ ~req[q].flag => req[q].by # req[q].on

IInv == TypeOK /\ RequestsKnown /\ NoStaleSession

LEMMA InitIInv == Init => IInv
BY SessionsAssumption DEF Init, IInv, TypeOK, RequestsKnown, NoStaleSession

\* The checks of a request add it and touch neither users nor sessions.
LEMMA BeginStep ==
    ASSUME IInv, NEW q \in Requests, NEW op \in Ops, NEW by \in Names, NEW tok \in Tokens \cup {None},
           NEW on \in Names, NEW pw \in Passwords, NEW flag \in BOOLEAN, NEW seen \in BOOLEAN,
           op \notin {"setup", "create"} => Exists(on),
           op = "update" /\ ~flag => by # on,
           Begin(q, op, by, tok, on, pw, flag, seen)
    PROVE  IInv'
<1> DEFINE r == [op |-> op, by |-> by, tok |-> tok, on |-> on, pw |-> pw, flag |-> flag, seen |-> seen]
<1>1. r \in Request
  BY DEF Request
<1>2. req' = [req EXCEPT ![q] = r] /\ UNCHANGED <<user, sess>>
  BY DEF Begin
<1>3. TypeOK'
  BY <1>1, <1>2 DEF IInv, TypeOK
<1>4. NoStaleSession'
  BY <1>2 DEF IInv, NoStaleSession
<1>5. RequestsKnown'
  <2> SUFFICES ASSUME NEW x \in Requests, req'[x] # None
               PROVE  /\ req'[x].op \notin {"setup", "create"} => user'[req'[x].on] # None
                      /\ req'[x].op = "update" /\ ~req'[x].flag => req'[x].by # req'[x].on
    BY DEF RequestsKnown, Exists
  <2>1. CASE x = q
    BY <2>1, <1>2 DEF IInv, TypeOK, Exists
  <2>2. CASE x # q
    BY <2>2, <1>2 DEF IInv, TypeOK, RequestsKnown, Exists
  <2> QED BY <2>1, <2>2
<1> QED BY <1>3, <1>4, <1>5 DEF IInv

\* The user of an authenticated token is a user.
LEMMA AuthenticUser ==
    ASSUME IInv, NEW t \in Tokens, Authentic(t)
    PROVE  sess[t] \in Session /\ sess[t].of \in Names /\ Exists(sess[t].of)
BY DEF IInv, TypeOK, Authentic, Active, Session

LEMMA CheckStep == ASSUME IInv, NEW q \in Requests, Check(q) PROVE IInv'
<1>1. CASE SetupAdmin(q)
  BY <1>1, BeginStep DEF SetupAdmin, Ops
<1>2. CASE Login(q)
  <2>1. PICK n \in Names : Active(n) /\ Begin(q, "login", n, None, n, user[n].pw, TRUE, TRUE)
    BY <1>2 DEF Login
  <2>2. Exists(n) /\ user[n].pw \in Passwords
    BY <2>1 DEF Active, Exists, IInv, TypeOK, User
  <2> QED BY <2>1, <2>2, BeginStep DEF Ops
<1>3. CASE RecoverAdmin(q)
  BY <1>3, BeginStep DEF RecoverAdmin, Ops, ActiveAdmin, Active
<1>4. CASE ChangePassword(q)
  <2>1. PICK t \in Tokens, p \in Passwords :
            Authentic(t) /\ Begin(q, "change", sess[t].of, t, sess[t].of, p, TRUE, TRUE)
    BY <1>4 DEF ChangePassword
  <2> QED BY <2>1, AuthenticUser, BeginStep DEF Ops
<1>5. CASE CreateUser(q)
  <2>1. PICK t \in Tokens, n \in Names, p \in Passwords, admin \in BOOLEAN :
            Admin(t) /\ Begin(q, "create", sess[t].of, t, n, p, admin, TRUE)
    BY <1>5 DEF CreateUser
  <2>2. sess[t].of \in Names
    BY <2>1, AuthenticUser DEF Admin
  <2> QED BY <2>1, <2>2, BeginStep DEF Ops
<1>6. CASE UpdateUser(q)
  <2>1. PICK t \in Tokens, n \in Names, active \in BOOLEAN :
            /\ Admin(t) /\ Exists(n) /\ (active \/ n # sess[t].of)
            /\ Begin(q, "update", sess[t].of, t, n, user[n].pw, active, user[n].active)
    BY <1>6 DEF UpdateUser
  <2>2. sess[t].of \in Names
    BY <2>1, AuthenticUser DEF Admin
  <2>3. user[n].pw \in Passwords /\ user[n].active \in BOOLEAN
    BY <2>1 DEF Exists, IInv, TypeOK, User
  <2> QED BY <2>1, <2>2, <2>3, BeginStep DEF Ops
<1>7. CASE ResetPassword(q)
  <2>1. PICK t \in Tokens, n \in Names, p \in Passwords :
            Admin(t) /\ Exists(n) /\ Begin(q, "reset", sess[t].of, t, n, p, TRUE, TRUE)
    BY <1>7 DEF ResetPassword
  <2>2. sess[t].of \in Names
    BY <2>1, AuthenticUser DEF Admin
  <2> QED BY <2>1, <2>2, BeginStep DEF Ops
<1> QED BY <1>1, <1>2, <1>3, <1>4, <1>5, <1>6, <1>7 DEF Check

\* The steps that write.  Users are never deleted, and a request that ends
\* leaves the others as they are.
Kept == /\ \A n \in Names : user[n] # None => user'[n] # None
        /\ \A x \in Requests : req'[x] = req[x] \/ req'[x] = None

LEMMA KeptRequests == ASSUME IInv, Kept, TypeOK' PROVE RequestsKnown'
<1> SUFFICES ASSUME NEW x \in Requests, req'[x] # None
             PROVE  /\ req'[x].op \notin {"setup", "create"} => user'[req'[x].on] # None
                    /\ req'[x].op = "update" /\ ~req'[x].flag => req'[x].by # req'[x].on
  BY DEF RequestsKnown, Exists
<1>1. req'[x] = req[x] /\ req[x] \in Request
  BY DEF Kept, IInv, TypeOK
<1>2. req[x].on \in Names
  BY <1>1 DEF Request
<1> QED BY <1>1, <1>2 DEF IInv, RequestsKnown, Exists, Kept

\* What the request that ends was about.
LEMMA Finishing ==
    ASSUME IInv, NEW q \in Requests, NEW op \in Ops, Finish(q, op)
    PROVE  /\ req[q] \in Request
           /\ req[q].on \in Names /\ req[q].by \in Names
           /\ req[q].pw \in Passwords /\ req[q].flag \in BOOLEAN
           /\ op \notin {"setup", "create"} => user[req[q].on] \in User
           /\ op = "update" /\ ~req[q].flag => req[q].by # req[q].on
           /\ req' \in [Requests -> Request \cup {None}]
           /\ \A x \in Requests : req'[x] = req[x] \/ req'[x] = None
<1>1. req[q] \in Request /\ req[q].op = op /\ req' = [req EXCEPT ![q] = None]
  BY DEF Finish, IInv, TypeOK
<1>2. req[q].on \in Names /\ req[q].by \in Names /\ req[q].pw \in Passwords /\ req[q].flag \in BOOLEAN
  BY <1>1 DEF Request
<1>3. op \notin {"setup", "create"} => user[req[q].on] \in User
  BY <1>1, <1>2, SessionsAssumption DEF IInv, TypeOK, RequestsKnown, Exists
<1>4. op = "update" /\ ~req[q].flag => req[q].by # req[q].on
  BY <1>1, SessionsAssumption DEF IInv, RequestsKnown
<1> QED BY <1>1, <1>2, <1>3, <1>4 DEF IInv, TypeOK

\* A new password, with the sessions of the user deleted.
LEMMA PasswordRevoked ==
    ASSUME IInv, NEW q \in Requests, NEW op \in Ops \ {"setup", "create"}, Finish(q, op),
           NewPassword(q), Revoke(req[q].on, None)
    PROVE  IInv'
<1> DEFINE n == req[q].on
<1>1. n \in Names /\ user[n] \in User /\ req[q].pw \in Passwords
  BY Finishing
<1>2. user' \in [Names -> User \cup {None}] /\ \A m \in Names : m # n => user'[m] = user[m]
  BY <1>1 DEF NewPassword, IInv, TypeOK, User
<1>3. user'[n] \in User
  BY <1>1 DEF NewPassword, IInv, TypeOK, User
<1>4. sess' \in [Tokens -> Session \cup {None}]
  BY DEF Revoke, IInv, TypeOK
<1>5. TypeOK'
  BY <1>2, <1>4, Finishing DEF TypeOK
<1>6. Kept
  BY <1>2, <1>3, Finishing, SessionsAssumption DEF Kept
<1>7. NoStaleSession'
  <2> SUFFICES ASSUME NEW t \in Tokens, sess'[t] # None
               PROVE  LET u == user'[sess'[t].of] IN
                      u # None /\ (sess'[t].late \/ (u.active /\ u.pw = sess'[t].pw))
    BY DEF NoStaleSession
  <2>1. sess'[t] = sess[t] /\ sess[t].of # n
    BY SessionsAssumption DEF Revoke
  <2>2. sess[t].of \in Names
    BY <2>1 DEF IInv, TypeOK, Session
  <2> QED BY <2>1, <2>2, <1>2 DEF IInv, NoStaleSession
<1> QED BY <1>5, <1>6, <1>7, KeptRequests DEF IInv

\* A new session is of an active user with the current password, or late.
LEMMA Opened ==
    ASSUME IInv, NEW q \in Requests, NEW op \in Ops, Finish(q, op),
           user' \in [Names -> User \cup {None}], NEW n \in Names, user'[n] \in User,
           \A m \in Names : user[m] # None => user'[m] = user[m],
           NEW p \in Passwords, NEW t \in Tokens, Open(t, n, p)
    PROVE  IInv'
<1> DEFINE r == [of |-> n, expired |-> FALSE, pw |-> p,
                 late |-> ~user'[n].active \/ user'[n].pw # p]
<1>1. r \in Session
  BY DEF Session, User
<1>2. sess' = [sess EXCEPT ![t] = r]
  BY DEF Open
<1>3. TypeOK'
  BY <1>1, <1>2, Finishing DEF IInv, TypeOK
<1>4. Kept
  BY Finishing DEF Kept
<1>5. NoStaleSession'
  <2> SUFFICES ASSUME NEW x \in Tokens, sess'[x] # None
               PROVE  LET u == user'[sess'[x].of] IN
                      u # None /\ (sess'[x].late \/ (u.active /\ u.pw = sess'[x].pw))
    BY DEF NoStaleSession
  <2>1. CASE x = t
    BY <2>1, <1>2, SessionsAssumption DEF IInv, TypeOK, User
  <2>2. CASE x # t
    <3>1. sess'[x] = sess[x] /\ sess[x].of \in Names
      BY <2>2, <1>2 DEF IInv, TypeOK, Session
    <3> QED BY <3>1 DEF IInv, NoStaleSession
  <2> QED BY <2>1, <2>2
<1> QED BY <1>3, <1>4, <1>5, KeptRequests DEF IInv

\* A step that leaves sessions alone and users too, but for new ones.
LEMMA OnlyNewUsers ==
    ASSUME IInv, NEW q \in Requests, NEW op \in Ops, Finish(q, op),
           user' \in [Names -> User \cup {None}],
           \A m \in Names : user[m] # None => user'[m] = user[m],
           UNCHANGED sess
    PROVE  IInv'
<1>1. TypeOK'
  BY Finishing DEF IInv, TypeOK
<1>2. Kept
  BY Finishing DEF Kept
<1>3. NoStaleSession'
  <2> SUFFICES ASSUME NEW x \in Tokens, sess[x] # None
               PROVE  LET u == user'[sess[x].of] IN
                      u # None /\ (sess[x].late \/ (u.active /\ u.pw = sess[x].pw))
    BY DEF NoStaleSession
  <2>1. sess[x].of \in Names
    BY DEF IInv, TypeOK, Session
  <2> QED BY <2>1 DEF IInv, NoStaleSession
<1> QED BY <1>1, <1>2, <1>3, KeptRequests DEF IInv

LEMMA InsertedUser ==
    ASSUME IInv, NEW q \in Requests, NEW op \in Ops, Finish(q, op), ~Exists(req[q].on),
           NEW admin \in BOOLEAN, NewUser(q, req[q].on, admin)
    PROVE  /\ user' \in [Names -> User \cup {None}]
           /\ user'[req[q].on] \in User
           /\ \A m \in Names : user[m] # None => user'[m] = user[m]
BY Finishing DEF NewUser, User, IInv, TypeOK, Exists

LEMMA SetupStep == ASSUME IInv, NEW q \in Requests, SetupCommit(q) PROVE IInv'
<1>0. "setup" \in Ops /\ Finish(q, "setup")
  BY DEF SetupCommit, Ops
<1>1. CASE Exists(req[q].on) /\ UNCHANGED <<user, sess>>
  BY <1>0, <1>1, OnlyNewUsers DEF IInv, TypeOK
<1>2. CASE /\ ~Exists(req[q].on)
           /\ NewUser(q, req[q].on, TRUE)
           /\ \E t \in Tokens : Open(t, req[q].on, req[q].pw)
  <2>1. /\ user' \in [Names -> User \cup {None}]
        /\ user'[req[q].on] \in User
        /\ \A m \in Names : user[m] # None => user'[m] = user[m]
    BY <1>0, <1>2, InsertedUser
  <2>2. req[q].on \in Names /\ req[q].pw \in Passwords
    BY <1>0, Finishing
  <2> QED BY <1>0, <1>2, <2>1, <2>2, Opened
<1> QED BY <1>1, <1>2 DEF SetupCommit

LEMMA LoginStep == ASSUME IInv, NEW q \in Requests, LoginCommit(q) PROVE IInv'
<1>0. "login" \in Ops /\ Finish(q, "login") /\ user' = user
  BY DEF LoginCommit, Ops
<1>1. req[q].on \in Names /\ req[q].pw \in Passwords /\ user[req[q].on] \in User
  BY <1>0, Finishing
<1>2. PICK t \in Tokens : Open(t, req[q].on, req[q].pw)
  BY DEF LoginCommit
<1> QED BY <1>0, <1>1, <1>2, Opened DEF IInv, TypeOK

LEMMA ChangeStep == ASSUME IInv, NEW q \in Requests, ChangeCommit(q) PROVE IInv'
<1> DEFINE n == req[q].on
<1>0. "change" \in Ops /\ Finish(q, "change") /\ NewPassword(q)
  BY DEF ChangeCommit, Ops
<1>1. n \in Names /\ user[n] \in User /\ req[q].pw \in Passwords
  BY <1>0, Finishing
<1>2. user' \in [Names -> User \cup {None}] /\ \A m \in Names : m # n => user'[m] = user[m]
  BY <1>0, <1>1 DEF NewPassword, IInv, TypeOK, User
<1>3. user'[n] \in User /\ user'[n].active = user[n].active /\ user'[n].pw = req[q].pw
  BY <1>0, <1>1 DEF NewPassword, IInv, TypeOK, User
<1>4. ASSUME NEW t \in Tokens, sess'[t] # None
      PROVE  /\ sess'[t] \in Session /\ sess[t] \in Session /\ sess'[t].of = sess[t].of
             /\ sess'[t].late = sess[t].late
             /\ IF sess[t].of = n THEN sess'[t].pw = req[q].pw ELSE sess'[t] = sess[t]
  BY <1>1, <1>4 DEF ChangeCommit, IInv, TypeOK, Session
<1>5. sess' \in [Tokens -> Session \cup {None}]
  BY <1>4 DEF ChangeCommit
<1>6. TypeOK'
  BY <1>0, <1>2, <1>5, Finishing DEF TypeOK
<1>7. Kept
  BY <1>0, <1>2, <1>3, Finishing, SessionsAssumption DEF Kept
<1>8. NoStaleSession'
  <2> SUFFICES ASSUME NEW t \in Tokens, sess'[t] # None
               PROVE  LET u == user'[sess'[t].of] IN
                      u # None /\ (sess'[t].late \/ (u.active /\ u.pw = sess'[t].pw))
    BY DEF NoStaleSession
  <2>1. sess[t] # None /\ sess[t].of \in Names
    BY <1>4, SessionsAssumption DEF Session
  <2>2. CASE sess[t].of = n
    BY <1>3, <1>4, <2>1, <2>2, SessionsAssumption DEF IInv, NoStaleSession
  <2>3. CASE sess[t].of # n
    BY <1>2, <1>4, <2>1, <2>3 DEF IInv, NoStaleSession
  <2> QED BY <2>2, <2>3
<1> QED BY <1>6, <1>7, <1>8, KeptRequests DEF IInv

LEMMA CreateStep == ASSUME IInv, NEW q \in Requests, CreateCommit(q) PROVE IInv'
<1>0. "create" \in Ops /\ Finish(q, "create") /\ req[q].flag \in BOOLEAN /\ UNCHANGED sess
  BY Finishing DEF CreateCommit, Ops
<1>1. CASE Exists(req[q].on)
  BY <1>0, <1>1, OnlyNewUsers DEF CreateCommit, IInv, TypeOK
<1>2. CASE ~Exists(req[q].on)
  <2>1. NewUser(q, req[q].on, req[q].flag)
    BY <1>2 DEF CreateCommit
  <2>2. /\ user' \in [Names -> User \cup {None}]
        /\ \A m \in Names : user[m] # None => user'[m] = user[m]
    BY <1>0, <1>2, <2>1, InsertedUser
  <2> QED BY <1>0, <2>2, OnlyNewUsers
<1> QED BY <1>1, <1>2

\* Enabling makes nobody's session stale; disabling deletes the sessions.
LEMMA UpdateStep == ASSUME IInv, NEW q \in Requests, UpdateCommit(q) PROVE IInv'
<1> DEFINE n == req[q].on
<1>0. "update" \in Ops /\ Finish(q, "update")
  BY DEF UpdateCommit, Ops
<1>1. n \in Names /\ user[n] \in User /\ req[q].flag \in BOOLEAN
  BY <1>0, Finishing
<1>2. /\ user' \in [Names -> User \cup {None}] /\ user'[n] \in User
      /\ \A m \in Names : m # n => user'[m] = user[m]
      /\ user'[n].pw = user[n].pw
      /\ user'[n] = user[n] \/ user'[n].active = req[q].flag
  BY <1>1 DEF UpdateCommit, IInv, TypeOK, User
<1>3. sess' \in [Tokens -> Session \cup {None}]
  BY DEF UpdateCommit, Revoke, IInv, TypeOK
<1>4. TypeOK'
  BY <1>0, <1>2, <1>3, Finishing DEF TypeOK
<1>5. Kept
  BY <1>0, <1>2, Finishing, SessionsAssumption DEF Kept
<1>6. NoStaleSession'
  <2> SUFFICES ASSUME NEW t \in Tokens, sess'[t] # None
               PROVE  LET u == user'[sess'[t].of] IN
                      u # None /\ (sess'[t].late \/ (u.active /\ u.pw = sess'[t].pw))
    BY DEF NoStaleSession
  <2>1. sess'[t] = sess[t] /\ (~req[q].flag => sess[t].of # n)
    BY SessionsAssumption DEF UpdateCommit, Revoke
  <2>2. sess[t].of \in Names
    BY <2>1 DEF IInv, TypeOK, Session
  <2>3. CASE sess[t].of # n
    BY <2>1, <2>2, <2>3, <1>2 DEF IInv, NoStaleSession
  <2>4. CASE sess[t].of = n /\ req[q].flag
    BY <2>1, <2>4, <1>2, SessionsAssumption DEF IInv, NoStaleSession
  <2> QED BY <2>1, <2>3, <2>4
<1> QED BY <1>4, <1>5, <1>6, KeptRequests DEF IInv

\* Sessions that end or expire, and requests that are lost.
LEMMA EndStep == ASSUME IInv, Logout \/ Expire \/ Cleanup \/ Restart PROVE IInv'
<1>1. user' = user /\ \A x \in Requests : req'[x] = req[x] \/ req'[x] = None
  BY DEF Logout, Expire, Cleanup, Restart
<1>2. ASSUME NEW t \in Tokens
      PROVE  sess'[t] \in Session \cup {None} /\
             (sess'[t] # None => /\ sess[t] # None /\ sess'[t].of = sess[t].of
                                 /\ sess'[t].late = sess[t].late /\ sess'[t].pw = sess[t].pw)
  <2>1. sess[t] \in Session \cup {None}
    BY DEF IInv, TypeOK
  <2>2. CASE Logout
    BY <2>1, <2>2 DEF Logout, IInv, TypeOK
  <2>3. CASE Expire
    <3>1. PICK x \in Tokens : sess[x] # None /\ sess' = [sess EXCEPT ![x].expired = TRUE]
      BY <2>3 DEF Expire
    <3>2. CASE t = x
      <4>1. sess[t] \in Session /\ sess'[t] = [sess[t] EXCEPT !.expired = TRUE]
        BY <2>1, <3>1, <3>2 DEF IInv, TypeOK
      <4>2. sess'[t] \in Session
        BY <4>1 DEF Session
      <4>3. sess'[t].of = sess[t].of /\ sess'[t].late = sess[t].late /\ sess'[t].pw = sess[t].pw
        BY <4>1 DEF Session
      <4>4. sess[t] # None
        BY <3>1, <3>2
      <4> QED BY <4>2, <4>3, <4>4
    <3>3. CASE t # x
      BY <2>1, <3>1, <3>3 DEF IInv, TypeOK
    <3> QED BY <3>2, <3>3
  <2>4. CASE Cleanup \/ Restart
    BY <2>1, <2>4 DEF Cleanup, Restart
  <2> QED BY <2>2, <2>3, <2>4
<1>3. sess' = [t \in Tokens |-> sess'[t]]
  BY DEF Logout, Expire, Cleanup, Restart, IInv, TypeOK
<1>4. sess' \in [Tokens -> Session \cup {None}]
  BY <1>2, <1>3
<1>5. req' \in [Requests -> Request \cup {None}]
  BY DEF Logout, Expire, Cleanup, Restart, IInv, TypeOK
<1>6. TypeOK' /\ Kept
  BY <1>1, <1>4, <1>5 DEF IInv, TypeOK, Kept
<1>7. NoStaleSession'
  BY <1>1, <1>2 DEF IInv, NoStaleSession
<1> QED BY <1>6, <1>7, KeptRequests DEF IInv

LEMMA NextIInv == IInv /\ [Next]_vars => IInv'
<1> SUFFICES ASSUME IInv, [Next]_vars PROVE IInv'
  OBVIOUS
<1>1. ASSUME NEW q \in Requests, Commit(q) PROVE IInv'
  <2>1. CASE RecoverCommit(q)
    BY <2>1, PasswordRevoked DEF RecoverCommit, Ops
  <2>2. CASE ResetCommit(q)
    BY <2>2, PasswordRevoked DEF ResetCommit, Ops
  <2> QED BY <1>1, <2>1, <2>2, SetupStep, LoginStep, ChangeStep, CreateStep, UpdateStep DEF Commit
<1>2. CASE UNCHANGED vars
  BY <1>2 DEF vars, IInv, TypeOK, RequestsKnown, NoStaleSession, Exists
<1> QED BY <1>1, <1>2, CheckStep, EndStep DEF Next

\* Every variable keeps its type.
THEOREM SessionsTyped == Spec => []TypeOK
<1>1. IInv => TypeOK
  BY DEF IInv
<1> QED BY <1>1, InitIInv, NextIInv, PTL DEF Spec

\* Whatever requests overlap: a stored session is one of an active user who
\* gave the current password, unless its own login overlapped the change.
THEOREM SessionsFollowTheUser == Spec => []NoStaleSession
<1>1. IInv => NoStaleSession
  BY DEF IInv
<1> QED BY <1>1, InitIInv, NextIInv, PTL DEF Spec

\* Only an update changes the status of a user that is there.
LEMMA AdminsKept ==
    ASSUME IInv, [Next]_vars, HasActiveAdmin, ~HasActiveAdmin'
    PROVE  \E q \in Requests : UpdateCommit(q)
<1> SUFFICES ASSUME \A q \in Requests : ~UpdateCommit(q) PROVE FALSE
  OBVIOUS
<1>1. PICK n \in Names : ActiveAdmin(n)
  BY DEF HasActiveAdmin
<1>2. user[n] \in User /\ user[n].active /\ user[n].admin /\ user[n] # None
  BY <1>1 DEF ActiveAdmin, Active, Exists, IInv, TypeOK
<1> DEFINE Same == user'[n] # None /\ user'[n].active = user[n].active /\ user'[n].admin = user[n].admin
<1>3. ASSUME NEW q \in Requests, Commit(q) PROVE Same
  <2>1. ASSUME NEW op \in Ops \ {"setup", "create"}, Finish(q, op), NewPassword(q) PROVE Same
    <3>1. req[q].on \in Names /\ user[req[q].on] \in User /\ req[q].pw \in Passwords
      BY <2>1, Finishing
    <3>2. user'[n] \in User /\ user'[n].active = user[n].active /\ user'[n].admin = user[n].admin
      BY <1>2, <2>1, <3>1 DEF NewPassword, User, IInv, TypeOK
    <3> QED BY <3>2, SessionsAssumption
  <2>2. CASE RecoverCommit(q)
    BY <2>1, <2>2 DEF RecoverCommit, Ops
  <2>3. CASE ResetCommit(q)
    BY <2>1, <2>3 DEF ResetCommit, Ops
  <2>4. CASE ChangeCommit(q)
    BY <2>1, <2>4 DEF ChangeCommit, Ops
  <2>5. CASE LoginCommit(q)
    BY <1>2, <2>5 DEF LoginCommit
  <2>6. CASE SetupCommit(q)
    BY <1>2, <2>6 DEF SetupCommit, NewUser, Exists, IInv, TypeOK
  <2>7. CASE CreateCommit(q)
    BY <1>2, <2>7 DEF CreateCommit, NewUser, Exists, IInv, TypeOK
  <2> QED BY <1>3, <2>2, <2>3, <2>4, <2>5, <2>6, <2>7 DEF Commit
<1>4. ASSUME NEW q \in Requests, Check(q) PROVE Same
  BY <1>2, <1>4 DEF Check, SetupAdmin, Login, RecoverAdmin, ChangePassword, CreateUser, UpdateUser,
                    ResetPassword, Begin
<1>5. ASSUME Logout \/ Expire \/ Cleanup \/ Restart \/ UNCHANGED vars PROVE Same
  BY <1>2, <1>5 DEF Logout, Expire, Cleanup, Restart, vars
<1>6. Same
  BY <1>3, <1>4, <1>5 DEF Next
<1>7. ActiveAdmin(n)'
  BY <1>2, <1>6 DEF ActiveAdmin, Active, Exists
<1> QED BY <1>7 DEF HasActiveAdmin

LEMMA StepLastAdmin ==
    IInv /\ [Next]_vars =>
      [HasActiveAdmin /\ ~HasActiveAdmin' =>
         \E q \in Requests : /\ req[q] # None /\ req'[q] = None
                             /\ req[q].op = "update" /\ ~req[q].flag
                             /\ ~ActiveAdmin(req[q].by)]_vars
<1> SUFFICES ASSUME IInv, [Next]_vars, HasActiveAdmin, ~HasActiveAdmin'
             PROVE  \E q \in Requests : /\ req[q] # None /\ req'[q] = None
                                        /\ req[q].op = "update" /\ ~req[q].flag
                                        /\ ~ActiveAdmin(req[q].by)
  OBVIOUS
<1>1. PICK q \in Requests : UpdateCommit(q)
  BY AdminsKept
<1>2. "update" \in Ops /\ Finish(q, "update")
  BY <1>1 DEF UpdateCommit, Ops
<1>3. /\ req[q].on \in Names /\ req[q].by \in Names /\ req[q].flag \in BOOLEAN
      /\ user[req[q].on] \in User
      /\ ~req[q].flag => req[q].by # req[q].on
  BY <1>2, Finishing
<1>4. req[q] # None /\ req[q].op = "update" /\ req'[q] = None
  BY <1>2 DEF Finish, IInv, TypeOK
<1>5. PICK n \in Names : ActiveAdmin(n)
  BY DEF HasActiveAdmin
<1>6. ASSUME NEW m \in Names, m # req[q].on, ActiveAdmin(m) PROVE FALSE
  <2>1. user'[m] = user[m]
    BY <1>1, <1>3, <1>6 DEF UpdateCommit, IInv, TypeOK
  <2>2. ActiveAdmin(m)'
    BY <1>6, <2>1 DEF ActiveAdmin, Active, Exists
  <2> QED BY <2>2 DEF HasActiveAdmin
<1>7. ~req[q].flag
  <2> SUFFICES ASSUME req[q].flag PROVE FALSE
    OBVIOUS
  <2>1. n = req[q].on
    BY <1>5, <1>6
  <2>2. user[n] \in User /\ user[n].admin /\ user[n].active
    BY <1>5 DEF ActiveAdmin, Active, Exists, IInv, TypeOK
  <2>3. user'[n] \in User /\ user'[n].active /\ user'[n].admin
    BY <1>1, <1>3, <2>1, <2>2 DEF UpdateCommit, User, IInv, TypeOK
  <2>4. ActiveAdmin(n)'
    BY <2>3, SessionsAssumption DEF ActiveAdmin, Active, Exists
  <2> QED BY <2>4 DEF HasActiveAdmin
<1>8. ~ActiveAdmin(req[q].by)
  BY <1>3, <1>6, <1>7
<1> QED BY <1>4, <1>7, <1>8

\* Only overlapping updates leave the system without an administrator.
THEOREM AdministratorsRemain == Spec => LastAdminStays
BY InitIInv, NextIInv, StepLastAdmin, PTL DEF Spec, LastAdminStays
=============================================================================
