---------------------------- MODULE ShareAccess ----------------------------
(***************************************************************************)
(* Public links to a dashboard (routers/dashboard.py, table                *)
(* dashboard_shares) and the limit on attempts to unlock one               *)
(* (SlidingWindowLimiter and browser_security of web_security.py).         *)
(*                                                                         *)
(* A share made before migration 0007 has a random token of which only the *)
(* hash is stored; any other has a token signed over its id.  So a share   *)
(* has two possible tokens, one of each kind.  A password share is opened  *)
(* with an access cookie that the server signs and does not store: what is *)
(* served depends on times it has written into the cookie.                 *)
(*                                                                         *)
(* Time is counted in steps of which the constants name a few; a day, an   *)
(* hour and five minutes keep their order.                                 *)
(***************************************************************************)
EXTENDS Naturals, Sequences, FiniteSetsExt

CONSTANTS
    Shares,      \* ids of shares
    Visitors,    \* clients, each with its cookies
    Lifetimes,   \* lifetimes a share may be given
    TTL,         \* SHARE_ACCESS_TTL_SECONDS
    Skew,        \* tolerated difference of clocks
    Limit,       \* unlock attempts of a client on a path ...
    Window,      \* ... in this time
    MaxTime,     \* bound on time
    None

VARIABLES
    share,      \* id -> row of the share, or None
    given,      \* tokens somebody has been given
    cookie,     \* visitor and token -> access cookie, or None
    page,       \* visitor -> dashboard request under way, or None
    attempts,   \* visitor and token -> the limiter's times, oldest first
    now,
    unlocked,   \* visitor and token -> when the password was last right, or None
    admitted    \* visitor and token -> times of all attempts let through

vars == <<share, given, cookie, page, attempts, now, unlocked, admitted>>

Tokens == Shares \X {"signed", "legacy"}
Keys == Visitors \X Tokens
Times == 0..MaxTime

\* scheme: token_scheme; hash: the token whose hash is stored.
Share == [scheme : {"signed", "legacy"}, hash : {"signed", "legacy"},
          password : BOOLEAN, expires : Nat, revoked : BOOLEAN]
Cookie == [issued : Nat, expires : Nat]

ASSUME ShareAssumption ==
    /\ Lifetimes \subseteq Nat \ {0}
    /\ TTL \in Nat \ {0} /\ Skew \in Nat /\ Limit \in Nat /\ Window \in Nat /\ MaxTime \in Nat
    /\ None \notin Share /\ None \notin Cookie /\ None \notin Tokens /\ None \notin Nat

TypeOK ==
    /\ share \in [Shares -> Share \cup {None}]
    /\ given \subseteq Tokens
    /\ cookie \in [Keys -> Cookie \cup {None}]
    /\ page \in [Visitors -> Tokens \cup {None}]
    /\ attempts \in [Keys -> Seq(Nat)]
    /\ now \in Nat
    /\ unlocked \in [Keys -> Nat \cup {None}]
    /\ admitted \in [Keys -> Seq(Nat)]

\* Shares may be left from before migration 0007.
Legacy == [scheme : {"legacy"}, hash : {"legacy"}, password : BOOLEAN,
           expires : Lifetimes, revoked : BOOLEAN]

Init ==
    /\ share \in [Shares -> Legacy \cup {None}]
    /\ given = {<<s, "legacy">> : s \in {s \in Shares : share[s] # None}}
    /\ cookie = [k \in Keys |-> None]
    /\ page = [v \in Visitors |-> None]
    /\ attempts = [k \in Keys |-> <<>>]
    /\ now = 0
    /\ unlocked = [k \in Keys |-> None]
    /\ admitted = [k \in Keys |-> <<>>]

Active(s) == share[s] # None /\ ~share[s].revoked /\ share[s].expires > now

-----------------------------------------------------------------------------
(* The owner.                                                              *)

CreateShare(s) == \E life \in Lifetimes, password \in BOOLEAN :
    /\ share[s] = None
    /\ share' = [share EXCEPT ![s] = [scheme |-> "signed", hash |-> "signed", password |-> password,
                                      expires |-> now + life, revoked |-> FALSE]]
    /\ given' = given \cup {<<s, "signed">>}
    /\ UNCHANGED <<cookie, page, attempts, now, unlocked, admitted>>

\* DELETE: the row stays, revoked, however often.
DeleteShare(s) ==
    /\ share[s] # None /\ ~share[s].revoked
    /\ share' = [share EXCEPT ![s].revoked = TRUE]
    /\ UNCHANGED <<given, cookie, page, attempts, now, unlocked, admitted>>

RegenerateKeepingHash(s) ==
    /\ Active(s)
    /\ share' = [share EXCEPT ![s].scheme = "signed"]
    /\ given' = given \cup {<<s, "signed">>}
    /\ UNCHANGED <<cookie, page, attempts, now, unlocked, admitted>>

\* A legacy share gets its signed token; a signed one keeps the one it has.
RegenerateShare(s) ==
    /\ Active(s)
    /\ share' = [share EXCEPT ![s].scheme = "signed", ![s].hash = "signed"]
    /\ given' = given \cup {<<s, "signed">>}
    /\ UNCHANGED <<cookie, page, attempts, now, unlocked, admitted>>

-----------------------------------------------------------------------------
(* Visitors.                                                               *)

\* get_share: a signed token finds its share by id, any token by its hash.
Finds(t) == share[t[1]] # None /\ (t[2] = share[t[1]].scheme \/ t[2] = share[t[1]].hash)
Opens(t) == Finds(t) /\ Active(t[1])

Earlier(a, b) == IF a < b THEN a ELSE b
Access(s) == [issued |-> now, expires |-> Earlier(now + TTL, share[s].expires)]

\* validate_share_access of a cookie the server has signed for the token.
Valid(s, c) ==
    /\ c # None
    /\ c.issued <= now + Skew
    /\ c.expires > now /\ c.expires > c.issued
    /\ c.expires <= c.issued + TTL /\ c.expires <= share[s].expires

RecentSinceFirst(k) == IF attempts[k] # <<>> /\ Head(attempts[k]) + Window <= now
                       THEN <<>> ELSE attempts[k]
RecentInclusive(k) == LET fresh == {i \in DOMAIN attempts[k] : attempts[k][i] + Window >= now}
                          last  == Len(attempts[k])
                      IN  SubSeq(attempts[k], Min(fresh \cup {last + 1}), last)
\* The limiter drops times from the front as long as they are out of its window.
Recent(k) == LET fresh == {i \in DOMAIN attempts[k] : attempts[k][i] + Window > now}
                 last  == Len(attempts[k])
             IN  SubSeq(attempts[k], Min(fresh \cup {last + 1}), last)
Allowed(k) == Len(Recent(k)) < Limit

Admit(k) ==
    /\ Allowed(k)
    /\ attempts' = [attempts EXCEPT ![k] = Append(Recent(k), now)]
    /\ admitted' = [admitted EXCEPT ![k] = Append(@, now)]

\* POST /api/share/{token}/unlock with the right password or without need of one.
Unlock(v, t) ==
    /\ Admit(<<v, t>>) /\ Opens(t)
    /\ cookie' = [cookie EXCEPT ![<<v, t>>] = Access(t[1])]
    /\ unlocked' = [unlocked EXCEPT ![<<v, t>>] = now]
    /\ UNCHANGED <<share, given, page, now>>

\* With a wrong one, or on a link that does not open.
UnlockRefused(v, t) ==
    /\ Admit(<<v, t>>) /\ (Opens(t) => share[t[1]].password)
    /\ UNCHANGED <<share, given, cookie, page, now, unlocked>>

\* Too many attempts.
UnlockLimited(v, t) ==
    /\ ~Allowed(<<v, t>>) /\ attempts' = [attempts EXCEPT ![<<v, t>>] = Recent(<<v, t>>)]
    /\ UNCHANGED <<share, given, cookie, page, now, unlocked, admitted>>

OpenPageAnyCookie(v, t) ==
    /\ page[v] = None /\ Opens(t)
    /\ share[t[1]].password => \E kind \in {"signed", "legacy"} : Valid(t[1], cookie[<<v, <<t[1], kind>>>>])
    /\ page' = [page EXCEPT ![v] = t]
    /\ UNCHANGED <<share, given, cookie, attempts, now, unlocked, admitted>>

\* GET /api/share/{token}: the checks, and then the queries of the payload.
OpenPage(v, t) ==
    /\ page[v] = None /\ Opens(t)
    /\ share[t[1]].password => Valid(t[1], cookie[<<v, t>>])
    /\ page' = [page EXCEPT ![v] = t]
    /\ UNCHANGED <<share, given, cookie, attempts, now, unlocked, admitted>>
ServePage(v) ==
    /\ page[v] # None /\ page' = [page EXCEPT ![v] = None]
    /\ UNCHANGED <<share, given, cookie, attempts, now, unlocked, admitted>>

-----------------------------------------------------------------------------
(* Time and restarts; a request is over before the next step of time.      *)

Tick ==
    /\ now < MaxTime /\ \A v \in Visitors : page[v] = None
    /\ now' = now + 1
    /\ UNCHANGED <<share, given, cookie, page, attempts, unlocked, admitted>>

\* The limiter lives in memory; what it has let through is counted anew.
Restart ==
    /\ attempts' = [k \in Keys |-> <<>>] /\ admitted' = [k \in Keys |-> <<>>]
    /\ page' = [v \in Visitors |-> None]
    /\ UNCHANGED <<share, given, cookie, now, unlocked>>

Next ==
    \/ \E s \in Shares : CreateShare(s) \/ DeleteShare(s) \/ RegenerateShare(s)
    \/ \E v \in Visitors :
          \/ \E t \in given : \/ Unlock(v, t) \/ UnlockRefused(v, t) \/ UnlockLimited(v, t)
                              \/ OpenPage(v, t)
          \/ ServePage(v)
    \/ Tick \/ Restart

Spec == Init /\ [][Next]_vars

-----------------------------------------------------------------------------
(* Properties.                                                             *)

\* OneLink: a share is never open by two links: regenerating one retires the
\* link that went before, whichever way get_share would have found it.
OneLink == \A s \in Shares : ~(Opens(<<s, "signed">>) /\ Opens(<<s, "legacy">>))

\* ServedForCause: the dashboard of a password share is served only to a visitor
\* that has given the password on this very link within the last TTL, although
\* the server keeps no record of that.
ServedForCause == \A v \in Visitors, t \in Tokens :
    page[v] = t /\ share[t[1]] # None /\ share[t[1]].password =>
      unlocked[<<v, t>>] # None /\ now < unlocked[<<v, t>>] + TTL

\* WithinLimit: whenever a window ends, no more than Limit attempts of one
\* client on one link were let through in it, unless a restart forgot them.
WithinLimit == \A k \in Keys, end \in Times :
    Cardinality({i \in DOMAIN admitted[k] :
                   admitted[k][i] <= end /\ end < admitted[k][i] + Window}) <= Limit

\* RefusedForCause: an attempt is refused only if as many as the limit were let
\* through in the window that ends now, whatever the limiter has kept.
RefusedForCause == \A k \in Keys : ~Allowed(k) =>
    Cardinality({i \in DOMAIN admitted[k] : now < admitted[k][i] + Window}) = Limit
=============================================================================
