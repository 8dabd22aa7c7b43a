------------------------- MODULE ShareAccessProofs -------------------------
(***************************************************************************)
(* Proofs about ShareAccess, for any shares, visitors, lifetimes, limits   *)
(* and lengths of time.                                                    *)
(***************************************************************************)
EXTENDS ShareAccess, SequenceTheorems, FiniteSetTheorems, WellFoundedInduction, TLAPS

\* The types of all but the limiter's times, which no other part looks at.
Typed ==
    /\ share \in [Shares -> Share \cup {None}]
    /\ given \subseteq Tokens
    /\ cookie \in [Keys -> Cookie \cup {None}]
    /\ page \in [Visitors -> Tokens \cup {None}]
    /\ now \in Nat
    /\ unlocked \in [Keys -> Nat \cup {None}]

\* The scheme and the stored hash of a share speak of the same token.
KindsAgree == \A s \in Shares : share[s] # None => share[s].scheme = share[s].hash

\* A cookie was issued when the password was last right.
CookiesEarned == \A k \in Keys : cookie[k] # None => unlocked[k] = cookie[k].issued

\* A page under way is one of a share that is there.
PagesKnown == \A v \in Visitors : page[v] # None => share[page[v][1]] # None

IInv == Typed /\ KindsAgree /\ CookiesEarned /\ PagesKnown /\ ServedForCause

LEMMA InitIInv == Init => IInv
<1> SUFFICES ASSUME Init PROVE IInv
  OBVIOUS
<1> USE ShareAssumption
<1>1. Legacy \subseteq Share
  BY DEF Legacy, Share
<1>2. Typed
  <2>1. given \subseteq Tokens
    BY DEF Init, Tokens
  <2> QED BY <1>1, <2>1 DEF Init, Typed
<1>3. KindsAgree
  BY DEF Init, KindsAgree, Legacy
<1>4. CookiesEarned /\ PagesKnown /\ ServedForCause
  <2>1. None \notin Tokens
    OBVIOUS
  <2> QED BY <2>1 DEF Init, CookiesEarned, PagesKnown, ServedForCause
<1> QED BY <1>2, <1>3, <1>4 DEF IInv

LEMMA OwnerStep ==
    ASSUME IInv, NEW s \in Shares, CreateShare(s) \/ DeleteShare(s) \/ RegenerateShare(s)
    PROVE  IInv'
<1> USE ShareAssumption
<1>1. UNCHANGED <<cookie, page, attempts, now, unlocked, admitted>>
  BY DEF CreateShare, DeleteShare, RegenerateShare
<1>2. PICK r \in Share : /\ share' = [share EXCEPT ![s] = r]
                         /\ r.scheme = r.hash
                         /\ share[s] # None => r.password = share[s].password
  <2>1. CASE CreateShare(s)
    <3>1. PICK life \in Lifetimes, password \in BOOLEAN :
            /\ share[s] = None
            /\ share' = [share EXCEPT ![s] = [scheme |-> "signed", hash |-> "signed",
                           password |-> password, expires |-> now + life, revoked |-> FALSE]]
      BY <2>1 DEF CreateShare
    <3> DEFINE r == [scheme |-> "signed", hash |-> "signed", password |-> password,
                     expires |-> now + life, revoked |-> FALSE]
    <3>2. now \in Nat /\ life \in Nat
      BY DEF IInv, Typed
    <3>3. now + life \in Nat
      BY <3>2
    <3>4. r \in Share
      BY <3>3 DEF Share
    <3> QED BY <3>1, <3>4
  <2>2. CASE DeleteShare(s)
    <3> DEFINE r == [share[s] EXCEPT !.revoked = TRUE]
    <3>1. share[s] \in Share
      BY <2>2 DEF DeleteShare, IInv, Typed
    <3>2. r \in Share /\ r.scheme = share[s].scheme /\ r.hash = share[s].hash
          /\ r.password = share[s].password
      BY <3>1 DEF Share
    <3> QED BY <2>2, <3>2 DEF DeleteShare, IInv, KindsAgree
  <2>3. CASE RegenerateShare(s)
    <3> DEFINE r == [share[s] EXCEPT !.scheme = "signed", !.hash = "signed"]
    <3>1. share[s] \in Share
      BY <2>3 DEF RegenerateShare, Active, IInv, Typed
    <3>2. r \in Share /\ r.scheme = r.hash /\ r.password = share[s].password
      BY <3>1 DEF Share
    <3>3. share' = [share EXCEPT ![s] = r]
      BY <2>3 DEF RegenerateShare
    <3> QED BY <3>2, <3>3
  <2> QED BY <2>1, <2>2, <2>3
<1>3. given' \subseteq Tokens
  BY DEF CreateShare, DeleteShare, RegenerateShare, Tokens, IInv, Typed
<1>4. Typed'
  BY <1>1, <1>2, <1>3 DEF IInv, Typed
<1>5. KindsAgree' /\ CookiesEarned'
  BY <1>1, <1>2 DEF IInv, Typed, KindsAgree, CookiesEarned
<1>6. PagesKnown'
  BY <1>1, <1>2 DEF IInv, Typed, PagesKnown, Tokens
<1>7. ServedForCause'
  <2> SUFFICES ASSUME NEW v \in Visitors, NEW t \in Tokens,
                      page[v] = t, share'[t[1]] # None, share'[t[1]].password
               PROVE  unlocked[<<v, t>>] # None /\ now < unlocked[<<v, t>>] + TTL
    BY <1>1 DEF ServedForCause
  <2>1. share[t[1]] # None /\ t[1] \in Shares
    BY DEF IInv, PagesKnown, Tokens
  <2>2. share[t[1]].password
    BY <1>2, <2>1 DEF IInv, Typed
  <2> QED BY <2>1, <2>2 DEF IInv, ServedForCause
<1> QED BY <1>4, <1>5, <1>6, <1>7 DEF IInv

LEMMA UnlockStep == ASSUME IInv, NEW v \in Visitors, NEW t \in given, Unlock(v, t) PROVE IInv'
<1> USE ShareAssumption
<1>1. t \in Tokens /\ <<v, t>> \in Keys /\ t[1] \in Shares
  BY DEF IInv, Typed, Keys, Tokens
<1>2. /\ share[t[1]] # None
      /\ cookie' = [cookie EXCEPT ![<<v, t>>] = Access(t[1])]
      /\ unlocked' = [unlocked EXCEPT ![<<v, t>>] = now]
      /\ UNCHANGED <<share, given, page, now>>
  BY DEF Unlock, Opens, Active
<1>3. Access(t[1]) \in Cookie /\ Access(t[1]).issued = now
  BY <1>1, <1>2 DEF Access, Earlier, Cookie, Share, IInv, Typed
<1>4. Typed' /\ KindsAgree' /\ CookiesEarned' /\ PagesKnown'
  BY <1>1, <1>2, <1>3 DEF IInv, Typed, KindsAgree, CookiesEarned, PagesKnown
<1>5. ServedForCause'
  <2> SUFFICES ASSUME NEW w \in Visitors, NEW u \in Tokens,
                      page[w] = u, share[u[1]] # None, share[u[1]].password
               PROVE  unlocked'[<<w, u>>] # None /\ now < unlocked'[<<w, u>>] + TTL
    BY <1>2 DEF ServedForCause
  <2>1. <<w, u>> \in Keys /\ now \in Nat
    BY DEF Keys, IInv, Typed
  <2>2. CASE <<w, u>> = <<v, t>>
    <3>1. unlocked'[<<w, u>>] = now
      BY <2>1, <2>2, <1>2 DEF IInv, Typed
    <3> QED BY <3>1, <2>1
  <2>3. CASE <<w, u>> # <<v, t>>
    <3>1. unlocked'[<<w, u>>] = unlocked[<<w, u>>]
      BY <2>1, <2>3, <1>2 DEF IInv, Typed
    <3> QED BY <3>1 DEF IInv, ServedForCause
  <2> QED BY <2>2, <2>3
<1> QED BY <1>4, <1>5 DEF IInv

LEMMA OpenStep == ASSUME IInv, NEW v \in Visitors, NEW t \in given, OpenPage(v, t) PROVE IInv'
<1> USE ShareAssumption
<1>1. t \in Tokens /\ <<v, t>> \in Keys /\ t[1] \in Shares
  BY DEF IInv, Typed, Keys, Tokens
<1>2. /\ share[t[1]] # None
      /\ share[t[1]].password => Valid(t[1], cookie[<<v, t>>])
      /\ page' = [page EXCEPT ![v] = t]
      /\ UNCHANGED <<share, given, cookie, now, unlocked>>
  BY DEF OpenPage, Opens, Active
<1>3. Typed' /\ KindsAgree' /\ CookiesEarned' /\ PagesKnown'
  BY <1>1, <1>2 DEF IInv, Typed, KindsAgree, CookiesEarned, PagesKnown
<1>4. share[t[1]].password => unlocked[<<v, t>>] # None /\ now < unlocked[<<v, t>>] + TTL
  <2> SUFFICES ASSUME share[t[1]].password
               PROVE  unlocked[<<v, t>>] # None /\ now < unlocked[<<v, t>>] + TTL
    OBVIOUS
  <2> DEFINE c == cookie[<<v, t>>]
  <2>1. c # None /\ c.expires > now /\ c.expires <= c.issued + TTL
    BY <1>2 DEF Valid
  <2>2. c \in Cookie /\ unlocked[<<v, t>>] = c.issued
    BY <2>1, <1>1 DEF IInv, Typed, CookiesEarned
  <2>3. c.issued \in Nat /\ c.expires \in Nat /\ now \in Nat
    BY <2>2 DEF Cookie, IInv, Typed
  <2> QED BY <2>1, <2>2, <2>3
<1>5. ServedForCause'
  BY <1>1, <1>2, <1>4 DEF IInv, Typed, ServedForCause
<1> QED BY <1>3, <1>5 DEF IInv

\* What serves, ends or refuses a request, or lets time pass.
LEMMA OtherStep ==
    ASSUME IInv,
           \/ \E v \in Visitors : ServePage(v)
           \/ \E v \in Visitors, t \in given : UnlockRefused(v, t) \/ UnlockLimited(v, t)
           \/ Tick \/ Restart
    PROVE  IInv'
<1> USE ShareAssumption
<1>1. UNCHANGED <<share, given, cookie, unlocked>>
  BY DEF ServePage, UnlockRefused, UnlockLimited, Tick, Restart
<1>2. /\ now' \in Nat /\ page' \in [Visitors -> Tokens \cup {None}]
      /\ \A v \in Visitors : page'[v] # None => page'[v] = page[v] /\ now' = now
  <2>1. CASE \E v \in Visitors : ServePage(v)
    BY <2>1 DEF ServePage, IInv, Typed
  <2>2. CASE \E v \in Visitors, t \in given : UnlockRefused(v, t) \/ UnlockLimited(v, t)
    BY <2>2 DEF UnlockRefused, UnlockLimited, IInv, Typed
  <2>3. CASE Tick
    BY <2>3 DEF Tick, IInv, Typed
  <2>4. CASE Restart
    BY <2>4 DEF Restart, IInv, Typed
  <2> QED BY <2>1, <2>2, <2>3, <2>4
<1>3. Typed' /\ KindsAgree' /\ CookiesEarned' /\ PagesKnown'
  BY <1>1, <1>2 DEF IInv, Typed, KindsAgree, CookiesEarned, PagesKnown
<1>4. ServedForCause'
  <2> SUFFICES ASSUME NEW v \in Visitors, NEW t \in Tokens,
                      page'[v] = t, share[t[1]] # None, share[t[1]].password
               PROVE  unlocked[<<v, t>>] # None /\ now' < unlocked[<<v, t>>] + TTL
    BY <1>1 DEF ServedForCause
  <2>1. page[v] = t /\ now' = now
    BY <1>2
  <2> QED BY <2>1 DEF IInv, ServedForCause
<1> QED BY <1>3, <1>4 DEF IInv

LEMMA StepIInv == IInv /\ [Next]_vars => IInv'
<1> SUFFICES ASSUME IInv, [Next]_vars PROVE IInv'
  OBVIOUS
<1>1. ASSUME Next PROVE IInv'
  BY <1>1, OwnerStep, UnlockStep, OpenStep, OtherStep DEF Next
<1>2. CASE UNCHANGED vars
  BY <1>2 DEF vars, IInv, Typed, KindsAgree, CookiesEarned, PagesKnown, ServedForCause
<1> QED BY <1>1, <1>2

LEMMA Inductive == Spec => []IInv
BY InitIInv, StepIInv, PTL DEF Spec

LEMMA SchemeOpens == IInv => OneLink
BY DEF IInv, KindsAgree, OneLink, Opens, Finds, Active

\* SingleLink: a share is never open by two links (OneLink).
THEOREM SingleLink == Spec => []OneLink
BY Inductive, SchemeOpens, PTL

\* EveryPageEarned: a password share is served only within the TTL of the right
\* password on the same link (ServedForCause), whatever the times and lifetimes.
THEOREM EveryPageEarned == Spec => []ServedForCause
BY Inductive, PTL DEF IInv

-----------------------------------------------------------------------------
(* The limit on attempts.                                                  *)

\* The smallest number of a set is one of them, and none is smaller.
LEMMA MinOfNumbers ==
    ASSUME NEW S \in SUBSET Nat, S # {}
    PROVE  Min(S) \in S /\ \A x \in S : Min(S) <= x
<1> DEFINE L == OpToRel(<, Nat)
<1>1. \A x, y \in Nat : <<x, y>> \in L <=> x < y
  BY DEF OpToRel
<1>2. IsWellFoundedOn(L, Nat)
  BY NatLessThanWellFounded
<1> HIDE DEF L
<1>3. PICK x \in S : \A y \in S : ~ <<y, x>> \in L
  BY <1>2, WFMin
<1>4. ASSUME NEW y \in S PROVE x <= y
  <2>1. x \in Nat /\ y \in Nat /\ ~(y < x)
    BY <1>1, <1>3
  <2> QED BY <2>1
<1> QED BY <1>4 DEF Min

LimiterTyped == attempts \in [Keys -> Seq(Nat)] /\ admitted \in [Keys -> Seq(Nat)] /\ now \in Nat

\* s holds the last times of all, and those before are out of the window at t.
Remembers(s, all, t) ==
    LET gone == Len(all) - Len(s) IN
    /\ Len(s) <= Len(all)
    /\ \A i \in 1..Len(s) : s[i] = all[gone + i]
    /\ \A i \in 1..gone : all[i] + Window <= t

\* The attempts let through in the window that ends at a time.
Within(all, end) == {i \in DOMAIN all : all[i] <= end /\ end < all[i] + Window}

InOrder(all) == \A i, j \in 1..Len(all) : i <= j => all[i] <= all[j]

\* The limiter has forgotten only what no window from t on contains, and has
\* admitted, in the order of time, no more than the limit in any window.
Sound(s, all, t) ==
    /\ Remembers(s, all, t)
    /\ InOrder(all)
    /\ \A i \in DOMAIN all : all[i] <= t
    /\ \A end \in Nat : Cardinality(Within(all, end)) <= Limit

Limited == \A k \in Keys : Sound(attempts[k], admitted[k], now)

\* Dropping what is out of the window forgets nothing that matters.
LEMMA RecentRemembers ==
    ASSUME LimiterTyped, NEW k \in Keys, Remembers(attempts[k], admitted[k], now)
    PROVE  Recent(k) \in Seq(Nat) /\ Remembers(Recent(k), admitted[k], now)
<1> DEFINE a == attempts[k]
           d == admitted[k]
           n == Len(a)
           fresh == {i \in DOMAIN a : a[i] + Window > now}
           f == Min(fresh \cup {n + 1})
<1> USE ShareAssumption
<1>1. a \in Seq(Nat) /\ d \in Seq(Nat) /\ now \in Nat /\ n \in Nat /\ Len(d) \in Nat /\ DOMAIN a = 1..n
  BY DEF LimiterTyped
<1>2. f \in 1..(n + 1) /\ \A i \in 1..n : i < f => a[i] + Window <= now
  <2>1. fresh \cup {n + 1} \in SUBSET Nat /\ fresh \subseteq 1..n
    BY <1>1
  <2>2. f \in fresh \cup {n + 1} /\ \A x \in fresh \cup {n + 1} : f <= x
    BY <2>1, MinOfNumbers
  <2> HIDE DEF f
  <2>3. ASSUME NEW i \in 1..n, i < f PROVE a[i] + Window <= now
    <3>1. i \in Nat /\ f \in Nat /\ ~(f <= i)
      BY <1>1, <2>1, <2>2, <2>3
    <3>2. i \notin fresh
      BY <2>2, <3>1
    <3>3. a[i] \in Nat /\ ~(a[i] + Window > now)
      BY <1>1, <3>2
    <3> QED BY <1>1, <3>3
  <2>4. f \in 1..(n + 1)
    BY <1>1, <2>1, <2>2
  <2> QED BY <2>3, <2>4
<1> HIDE DEF f
<1>3. Recent(k) = SubSeq(a, f, n)
  BY DEF Recent, f
<1>4. /\ SubSeq(a, f, n) \in Seq(Nat) /\ Len(SubSeq(a, f, n)) = n - f + 1
      /\ \A i \in 1..(n - f + 1) : SubSeq(a, f, n)[i] = a[f + i - 1]
  <2>1. \A i \in f..n : a[i] \in Nat
    BY <1>1, <1>2
  <2> HIDE DEF a, n
  <2> QED BY <1>1, <1>2, <2>1, SubSeqProperties
<1> DEFINE r == SubSeq(a, f, n)
           gone == Len(d) - n
<1>5. /\ n <= Len(d) /\ \A i \in 1..n : a[i] = d[gone + i]
      /\ \A i \in 1..gone : d[i] + Window <= now
  BY DEF Remembers
<1> HIDE DEF a, d, n
<1>6. Len(d) - Len(r) = gone + f - 1 /\ Len(r) <= Len(d)
  BY <1>1, <1>2, <1>4, <1>5
<1>7. ASSUME NEW i \in 1..Len(r) PROVE r[i] = d[(gone + f - 1) + i]
  <2>1. i \in 1..(n - f + 1) /\ f + i - 1 \in 1..n
    BY <1>1, <1>2, <1>4
  <2>2. r[i] = a[f + i - 1] /\ a[f + i - 1] = d[gone + (f + i - 1)]
    BY <1>4, <1>5, <2>1
  <2>3. gone + (f + i - 1) = (gone + f - 1) + i
    BY <1>1, <1>2, <1>4
  <2> QED BY <2>2, <2>3
<1>8. ASSUME NEW i \in 1..(gone + f - 1) PROVE d[i] + Window <= now
  <2>1. CASE i \in 1..gone
    BY <1>5, <2>1
  <2>2. CASE i \notin 1..gone
    <3>1. i - gone \in 1..n /\ i - gone < f /\ gone + (i - gone) = i
      BY <1>1, <1>2, <1>5, <2>2
    <3>2. a[i - gone] = d[i] /\ a[i - gone] + Window <= now
      BY <1>2, <1>5, <3>1
    <3> QED BY <3>2
  <2> QED BY <2>1, <2>2
<1> HIDE DEF r, gone
<1>9. Remembers(r, d, now)
  BY <1>6, <1>7, <1>8 DEF Remembers
<1> QED BY <1>3, <1>4, <1>9 DEF a, d, r

\* Letting one more attempt through keeps to the limit: a window that ends now
\* or later contains none but what the limiter remembers and the new one.
LEMMA AdmitKeepsLimit ==
    ASSUME NEW d \in Seq(Nat), NEW s \in Seq(Nat), NEW t \in Nat, Sound(s, d, t), Len(s) < Limit
    PROVE  Sound(Append(s, t), Append(d, t), t)
<1> DEFINE e == Append(d, t)
           r == Append(s, t)
           gone == Len(d) - Len(s)
<1> USE ShareAssumption
<1>1. /\ e \in Seq(Nat) /\ Len(e) = Len(d) + 1 /\ DOMAIN e = 1..(Len(d) + 1) /\ e[Len(d) + 1] = t
      /\ \A i \in 1..Len(d) : e[i] = d[i]
  BY AppendProperties
<1>2. /\ r \in Seq(Nat) /\ Len(r) = Len(s) + 1 /\ r[Len(s) + 1] = t
      /\ \A i \in 1..Len(s) : r[i] = s[i]
  BY AppendProperties
<1>3. /\ Len(d) \in Nat /\ DOMAIN d = 1..Len(d) /\ Len(s) \in Nat
      /\ \A i \in 1..Len(d) : d[i] \in Nat
  OBVIOUS
<1>4. /\ Len(s) <= Len(d) /\ gone \in Nat
      /\ \A i \in 1..Len(s) : s[i] = d[gone + i]
      /\ \A i \in 1..gone : d[i] + Window <= t
      /\ \A i \in 1..Len(d) : d[i] <= t
  <2>1. Remembers(s, d, t) /\ \A i \in 1..Len(d) : d[i] <= t
    BY <1>3 DEF Sound
  <2>2. Len(s) <= Len(d)
    BY <2>1 DEF Remembers
  <2>3. /\ \A i \in 1..Len(s) : s[i] = d[gone + i]
        /\ \A i \in 1..gone : d[i] + Window <= t
    BY <2>1 DEF Remembers
  <2> QED BY <1>3, <2>1, <2>2, <2>3
<1> HIDE DEF e, r
<1>5. Remembers(r, e, t)
  <2>1. Len(e) - Len(r) = gone /\ Len(r) <= Len(e)
    BY <1>1, <1>2, <1>3, <1>4
  <2>2. ASSUME NEW i \in 1..Len(r) PROVE r[i] = e[gone + i]
    <3>1. CASE i = Len(s) + 1
      <4>1. gone + i = Len(d) + 1
        BY <1>3, <3>1
      <4> QED BY <1>1, <1>2, <3>1, <4>1
    <3>2. CASE i # Len(s) + 1
      <4>1. i \in 1..Len(s) /\ gone + i \in 1..Len(d)
        BY <1>2, <1>3, <1>4, <3>2
      <4> QED BY <1>1, <1>2, <1>4, <4>1
    <3> QED BY <3>1, <3>2
  <2>3. ASSUME NEW i \in 1..gone PROVE e[i] + Window <= t
    <3>1. i \in 1..Len(d)
      BY <1>3, <1>4
    <3> QED BY <1>1, <1>4, <3>1
  <2> HIDE DEF gone
  <2> QED BY <2>1, <2>2, <2>3 DEF Remembers
<1>6. ASSUME NEW i \in DOMAIN e PROVE e[i] <= t
  <2>1. CASE i = Len(d) + 1
    BY <1>1, <2>1
  <2>2. CASE i # Len(d) + 1
    <3>1. i \in 1..Len(d)
      BY <1>1, <1>3, <2>2
    <3> QED BY <1>1, <1>4, <3>1
  <2> QED BY <2>1, <2>2
<1>7. ASSUME NEW i \in 1..Len(e), NEW j \in 1..Len(e), i <= j PROVE e[i] <= e[j]
  <2>1. CASE j = Len(d) + 1
    BY <1>1, <1>6, <2>1
  <2>2. CASE j # Len(d) + 1
    <3>1. i \in 1..Len(d) /\ j \in 1..Len(d)
      BY <1>1, <1>3, <1>7, <2>2
    <3>2. d[i] <= d[j]
      BY <1>7, <3>1 DEF Sound, InOrder
    <3> QED BY <1>1, <3>1, <3>2
  <2> QED BY <2>1, <2>2
<1>8. ASSUME NEW end \in Nat PROVE Cardinality(Within(e, end)) <= Limit
  <2>1. CASE end < t
    <3>1. Within(e, end) = Within(d, end)
      BY <1>1, <1>3, <2>1 DEF Within
    <3> QED BY <3>1 DEF Sound
  <2>2. CASE ~(end < t)
    <3> DEFINE lo == gone + 1
               hi == Len(d) + 1
    <3>1. ASSUME NEW i \in Within(e, end) PROVE i \in lo..hi
      <4>1. i \in 1..hi /\ end < e[i] + Window
        BY <1>1 DEF Within
      <4>2. ~(i \in 1..gone)
        <5> SUFFICES ASSUME i \in 1..gone PROVE FALSE
          OBVIOUS
        <5>1. i \in 1..Len(d) /\ e[i] = d[i] /\ d[i] \in Nat
          BY <1>1, <1>3, <1>4
        <5>2. d[i] + Window <= t
          BY <1>4
        <5> QED BY <2>2, <4>1, <5>1, <5>2
      <4> QED BY <1>3, <1>4, <4>1, <4>2
    <3>2. IsFiniteSet(lo..hi) /\ Cardinality(lo..hi) = Len(s) + 1
      <4>1. lo \in Int /\ hi \in Int /\ ~(lo > hi) /\ hi - lo + 1 = Len(s) + 1
        BY <1>3, <1>4
      <4> HIDE DEF lo, hi
      <4> QED BY <4>1, FS_Interval
    <3> HIDE DEF lo, hi
    <3>3. Within(e, end) \in SUBSET (lo..hi)
      BY <3>1
    <3>4. /\ Cardinality(Within(e, end)) <= Cardinality(lo..hi)
          /\ Cardinality(Within(e, end)) \in Nat
      BY <3>2, <3>3, FS_Subset, FS_CardinalityType
    <3> QED BY <1>3, <3>2, <3>4
  <2> QED BY <2>1, <2>2
<1>9. InOrder(e)
  BY <1>7 DEF InOrder
<1> QED BY <1>5, <1>6, <1>8, <1>9 DEF Sound, e, r

\* An empty memory of nothing admitted.
LEMMA NothingAdmitted == ASSUME NEW t \in Nat PROVE Sound(<<>>, <<>>, t)
<1>1. Len(<<>>) = 0 /\ DOMAIN <<>> = {}
  OBVIOUS
<1>2. \A end \in Nat : Within(<<>>, end) = {}
  BY <1>1 DEF Within
<1>3. Cardinality({}) = 0 /\ 0 <= Limit
  BY FS_EmptySet, ShareAssumption
<1>4. Remembers(<<>>, <<>>, t)
  BY <1>1 DEF Remembers
<1>5. InOrder(<<>>)
  BY <1>1 DEF InOrder
<1> QED BY <1>1, <1>2, <1>3, <1>4, <1>5 DEF Sound

LEMMA InitLimited == Init => LimiterTyped /\ Limited
<1> SUFFICES ASSUME Init PROVE LimiterTyped /\ Limited
  OBVIOUS
<1> USE ShareAssumption
<1>1. /\ attempts = [k \in Keys |-> <<>>] /\ admitted = [k \in Keys |-> <<>>] /\ now = 0
  BY DEF Init
<1>2. LimiterTyped
  <2>1. <<>> \in Seq(Nat)
    OBVIOUS
  <2> QED BY <1>1, <2>1 DEF LimiterTyped
<1>3. Limited
  BY <1>1, NothingAdmitted DEF Limited
<1> QED BY <1>2, <1>3

\* An attempt let through.
LEMMA AdmitStep ==
    ASSUME LimiterTyped, Limited, NEW k \in Keys, Admit(k), now' = now
    PROVE  LimiterTyped' /\ Limited'
<1>1. /\ attempts' = [attempts EXCEPT ![k] = Append(Recent(k), now)]
      /\ admitted' = [admitted EXCEPT ![k] = Append(admitted[k], now)]
      /\ Len(Recent(k)) < Limit
  BY DEF Admit, Allowed
<1>2. Recent(k) \in Seq(Nat) /\ Sound(Recent(k), admitted[k], now)
  BY RecentRemembers DEF Limited, Sound
<1>3. admitted[k] \in Seq(Nat) /\ now \in Nat
  BY DEF LimiterTyped
<1>4. Append(Recent(k), now) \in Seq(Nat) /\ Append(admitted[k], now) \in Seq(Nat)
  BY <1>2, <1>3, AppendProperties
<1>5. LimiterTyped'
  BY <1>1, <1>4 DEF LimiterTyped
<1>6. Sound(Append(Recent(k), now), Append(admitted[k], now), now)
  BY <1>1, <1>2, <1>3, AdmitKeepsLimit
<1>7. ASSUME NEW j \in Keys PROVE Sound(attempts'[j], admitted'[j], now')
  BY <1>1, <1>6 DEF LimiterTyped, Limited
<1> QED BY <1>5, <1>7 DEF Limited

\* An attempt refused: the limiter forgets, and lets nothing through.
LEMMA RefuseStep ==
    ASSUME LimiterTyped, Limited, NEW v \in Visitors, NEW t \in Tokens, UnlockLimited(v, t)
    PROVE  LimiterTyped' /\ Limited'
<1> DEFINE k == <<v, t>>
<1>1. k \in Keys /\ attempts' = [attempts EXCEPT ![k] = Recent(k)] /\ admitted' = admitted /\ now' = now
  BY DEF UnlockLimited, Keys
<1> HIDE DEF k
<1>2. Recent(k) \in Seq(Nat) /\ Sound(Recent(k), admitted[k], now)
  BY <1>1, RecentRemembers DEF Limited, Sound
<1>3. LimiterTyped'
  BY <1>1, <1>2 DEF LimiterTyped
<1>4. ASSUME NEW j \in Keys PROVE Sound(attempts'[j], admitted'[j], now')
  BY <1>1, <1>2 DEF LimiterTyped, Limited
<1> QED BY <1>3, <1>4 DEF Limited

\* What is out of the window stays out of it as time passes.
LEMMA TickStep == ASSUME LimiterTyped, Limited, Tick PROVE LimiterTyped' /\ Limited'
<1> USE ShareAssumption
<1>1. attempts' = attempts /\ admitted' = admitted /\ now' = now + 1 /\ now \in Nat
  BY DEF Tick, LimiterTyped
<1>2. ASSUME NEW j \in Keys PROVE Sound(attempts[j], admitted[j], now + 1)
  <2> DEFINE d == admitted[j]
  <2>1. d \in Seq(Nat) /\ attempts[j] \in Seq(Nat) /\ Sound(attempts[j], d, now)
    BY DEF LimiterTyped, Limited
  <2>2. Len(d) \in Nat /\ Len(attempts[j]) \in Nat /\ DOMAIN d = 1..Len(d) /\ \A i \in 1..Len(d) : d[i] \in Nat
    BY <2>1
  <2> HIDE DEF d
  <2>3. \A i \in DOMAIN d : d[i] <= now + 1
    BY <1>1, <2>1, <2>2 DEF Sound
  <2>4. Remembers(attempts[j], d, now + 1)
    <3> DEFINE gone == Len(d) - Len(attempts[j])
    <3>1. /\ Len(attempts[j]) <= Len(d)
          /\ \A i \in 1..Len(attempts[j]) : attempts[j][i] = d[gone + i]
          /\ \A i \in 1..gone : d[i] + Window <= now
      BY <2>1 DEF Sound, Remembers
    <3>2. ASSUME NEW i \in 1..gone PROVE d[i] + Window <= now + 1
      <4>1. i \in 1..Len(d)
        BY <2>2
      <4>2. d[i] \in Nat /\ d[i] + Window <= now
        BY <2>2, <3>1, <4>1
      <4> QED BY <1>1, <4>2
    <3> QED BY <3>1, <3>2 DEF Remembers
  <2> QED BY <2>1, <2>3, <2>4 DEF Sound, d
<1> QED BY <1>1, <1>2 DEF LimiterTyped, Limited

LEMMA StepLimited == Typed /\ LimiterTyped /\ Limited /\ [Next]_vars => LimiterTyped' /\ Limited'
<1> SUFFICES ASSUME Typed, LimiterTyped, Limited, [Next]_vars PROVE LimiterTyped' /\ Limited'
  OBVIOUS
<1>1. ASSUME UNCHANGED <<attempts, admitted, now>> PROVE LimiterTyped' /\ Limited'
  BY <1>1 DEF LimiterTyped, Limited
<1>2. ASSUME NEW v \in Visitors, NEW t \in given, Unlock(v, t) \/ UnlockRefused(v, t)
      PROVE  LimiterTyped' /\ Limited'
  <2>1. <<v, t>> \in Keys
    BY DEF Typed, Keys
  <2> QED BY <1>2, <2>1, AdmitStep DEF Unlock, UnlockRefused
<1>3. ASSUME NEW v \in Visitors, NEW t \in given, UnlockLimited(v, t)
      PROVE  LimiterTyped' /\ Limited'
  <2>1. t \in Tokens
    BY DEF Typed
  <2> QED BY <1>3, <2>1, RefuseStep
<1>4. ASSUME Restart PROVE LimiterTyped' /\ Limited'
  <2>1. attempts' = [k \in Keys |-> <<>>] /\ admitted' = [k \in Keys |-> <<>>] /\ now' = now
    BY <1>4 DEF Restart
  <2>2. <<>> \in Seq(Nat) /\ now \in Nat
    BY DEF LimiterTyped
  <2> QED BY <2>1, <2>2, NothingAdmitted DEF LimiterTyped, Limited
<1>5. ASSUME \/ \E s \in Shares : CreateShare(s) \/ DeleteShare(s) \/ RegenerateShare(s)
             \/ \E v \in Visitors : \/ ServePage(v)
                                   \/ \E t \in given : OpenPage(v, t)
             \/ UNCHANGED vars
      PROVE  UNCHANGED <<attempts, admitted, now>>
  BY <1>5 DEF CreateShare, DeleteShare, RegenerateShare, OpenPage, ServePage, vars
<1> QED BY <1>1, <1>2, <1>3, <1>4, <1>5, TickStep DEF Next

LEMMA LimiterInductive == Spec => [](LimiterTyped /\ Limited)
<1>1. Init => IInv /\ LimiterTyped /\ Limited
  BY InitIInv, InitLimited
<1>2. (IInv /\ LimiterTyped /\ Limited) /\ [Next]_vars => (IInv /\ LimiterTyped /\ Limited)'
  BY StepIInv, StepLimited DEF IInv
<1> QED BY <1>1, <1>2, PTL DEF Spec

\* LimitKept: however requests, steps of time and restarts follow each other, no
\* window of any length holds more attempts let through than the limit
\* (WithinLimit), though the limiter forgets as it goes.
THEOREM LimitKept == Spec => []WithinLimit
<1>1. LimiterTyped /\ Limited => WithinLimit
  BY ShareAssumption DEF Limited, Sound, Within, WithinLimit, Times
<1> QED BY <1>1, LimiterInductive, PTL

\* What the limiter counts lies in the window that ends now.
LEMMA RecentIsFresh ==
    ASSUME LimiterTyped, NEW k \in Keys, Sound(attempts[k], admitted[k], now)
    PROVE  \A i \in 1..Len(Recent(k)) : now < Recent(k)[i] + Window
<1> DEFINE a == attempts[k]
           d == admitted[k]
           n == Len(a)
           gone == Len(d) - n
           fresh == {i \in DOMAIN a : a[i] + Window > now}
           f == Min(fresh \cup {n + 1})
<1> USE ShareAssumption
<1>1. /\ a \in Seq(Nat) /\ d \in Seq(Nat) /\ now \in Nat /\ n \in Nat /\ Len(d) \in Nat /\ DOMAIN a = 1..n
      /\ \A i \in 1..n : a[i] \in Nat
  BY DEF LimiterTyped
<1>2. f \in 1..(n + 1) /\ f \in fresh \cup {n + 1}
  <2>1. fresh \cup {n + 1} \in SUBSET Nat /\ fresh \subseteq 1..n
    BY <1>1
  <2>2. f \in fresh \cup {n + 1}
    BY <2>1, MinOfNumbers
  <2> HIDE DEF f, fresh
  <2> QED BY <1>1, <2>1, <2>2
<1> HIDE DEF f
<1>3. Recent(k) = SubSeq(a, f, n)
  BY DEF Recent, f
<1>4. /\ Len(SubSeq(a, f, n)) = n - f + 1
      /\ \A i \in 1..(n - f + 1) : SubSeq(a, f, n)[i] = a[f + i - 1]
  <2> HIDE DEF a, n
  <2> QED BY <1>1, <1>2, SubSeqProperties
<1>5. n <= Len(d) /\ \A i \in 1..n : a[i] = d[gone + i]
  BY DEF Sound, Remembers
<1>6. InOrder(d)
  BY DEF Sound
<1> SUFFICES ASSUME NEW i \in 1..(n - f + 1) PROVE now < a[f + i - 1] + Window
  BY <1>3, <1>4
<1> HIDE DEF a, d, n
<1>7. f \in 1..n /\ f + i - 1 \in 1..n /\ f <= f + i - 1
  BY <1>1, <1>2
<1>8. now < a[f] + Window
  <2>1. f \in fresh
    BY <1>1, <1>2, <1>7
  <2> QED BY <2>1, <1>1, <1>7
<1>9. a[f] <= a[f + i - 1]
  <2>1. gone + f \in 1..Len(d) /\ gone + (f + i - 1) \in 1..Len(d) /\ gone + f <= gone + (f + i - 1)
    BY <1>1, <1>5, <1>7
  <2>2. d[gone + f] <= d[gone + (f + i - 1)]
    BY <2>1, <1>6 DEF InOrder
  <2>3. a[f] = d[gone + f] /\ a[f + i - 1] = d[gone + (f + i - 1)]
    BY <1>5, <1>7
  <2> QED BY <2>2, <2>3
<1> QED BY <1>1, <1>7, <1>8, <1>9

\* A full limiter proves a full window.
LEMMA FullWindow == LimiterTyped /\ Limited => RefusedForCause
<1> SUFFICES ASSUME LimiterTyped, Limited, NEW k \in Keys, ~Allowed(k)
             PROVE  Cardinality({i \in DOMAIN admitted[k] : now < admitted[k][i] + Window}) = Limit
  BY DEF RefusedForCause
<1> DEFINE d == admitted[k]
           s == Recent(k)
           gone == Len(d) - Len(s)
           lo == gone + 1
           hi == Len(d)
           recently == {i \in DOMAIN d : now < d[i] + Window}
<1> USE ShareAssumption
<1>1. Sound(attempts[k], d, now) /\ now \in Nat /\ d \in Seq(Nat)
  BY DEF LimiterTyped, Limited
<1>2. s \in Seq(Nat) /\ Remembers(s, d, now)
  BY <1>1, RecentRemembers DEF Sound
<1>3. Len(s) \in Nat /\ Len(d) \in Nat /\ Len(s) <= Len(d) /\ \A i \in 1..Len(s) : s[i] = d[gone + i]
  BY <1>1, <1>2 DEF Remembers
<1>4. Len(s) >= Limit
  BY <1>3 DEF Allowed
<1>5. \A i \in 1..Len(s) : now < s[i] + Window
  BY <1>1, RecentIsFresh
<1>6. DOMAIN d = 1..Len(d)
  BY <1>1
<1>7. Cardinality(recently) <= Limit /\ IsFiniteSet(recently)
  <2>1. recently = Within(d, now)
    BY <1>1 DEF Within, Sound
  <2>2. Cardinality(Within(d, now)) <= Limit
    BY <1>1 DEF Sound
  <2>3. IsFiniteSet(1..Len(d)) /\ recently \in SUBSET (1..Len(d))
    BY <1>3, <1>6, FS_Interval
  <2> QED BY <2>1, <2>2, <2>3, FS_Subset
<1> HIDE DEF d, s
<1>8. lo..hi \subseteq recently
  <2> SUFFICES ASSUME NEW j \in lo..hi PROVE j \in recently
    OBVIOUS
  <2>1. j - gone \in 1..Len(s) /\ gone + (j - gone) = j /\ j \in 1..Len(d)
    BY <1>3
  <2>2. s[j - gone] = d[j]
    BY <1>3, <2>1
  <2>3. now < d[j] + Window
    BY <1>5, <2>1, <2>2
  <2> QED BY <1>6, <2>1, <2>3
<1>9. Cardinality(lo..hi) = Len(s)
  <2>1. CASE Len(s) = 0
    <3>1. lo..hi = {}
      BY <1>3, <2>1
    <3> QED BY <2>1, <3>1, FS_EmptySet
  <2>2. CASE Len(s) # 0
    <3>1. lo \in Int /\ hi \in Int /\ ~(lo > hi) /\ hi - lo + 1 = Len(s)
      BY <1>3, <2>2
    <3> HIDE DEF lo, hi
    <3> QED BY <3>1, FS_Interval
  <2> QED BY <2>1, <2>2
<1> HIDE DEF lo, hi, recently
<1>10. Cardinality(lo..hi) <= Cardinality(recently) /\ Cardinality(recently) \in Nat
  BY <1>7, <1>8, FS_Subset, FS_CardinalityType
<1>11. Cardinality(recently) = Limit
  BY <1>3, <1>4, <1>7, <1>9, <1>10
<1> QED BY <1>11 DEF recently, d

\* RefusalHasACause: a visitor is refused only when the window that ends now holds
\* as many attempts let through as the limit (RefusedForCause).
THEOREM RefusalHasACause == Spec => []RefusedForCause
BY FullWindow, LimiterInductive, PTL

\* SharesTyped: every share, cookie, page and list of times keeps its type.
THEOREM SharesTyped == Spec => []TypeOK
<1>1. IInv /\ LimiterTyped => TypeOK
  BY DEF IInv, Typed, LimiterTyped, TypeOK
<1> QED BY <1>1, Inductive, LimiterInductive, PTL
=============================================================================
