------------------------ MODULE ChargeUpgradeProofs ------------------------
(* Proofs about ChargeUpgrade.                                             *)
EXTENDS ChargeUpgrade, WellFoundedInduction, TLAPS

\* The smallest row of a set of rows is one of them.
LEMMA MinIsMember ==
    ASSUME NEW S \in SUBSET Nat, S # {}
    PROVE  Min(S) \in S
<1> DEFINE L == OpToRel(<, Nat)
<1>1. \A x, y \in Nat : <<x, y>> \in L <=> x < y
      BY DEF OpToRel
<1>2. IsWellFoundedOn(L, Nat)
      BY NatLessThanWellFounded
<1> HIDE DEF L
<1>3. PICK x \in S : \A y \in S : ~ <<y, x>> \in L
      BY <1>2, WFMin
<1>4. ASSUME NEW y \in S
      PROVE  x <= y
  <2>1. x \in Nat /\ y \in Nat
        OBVIOUS
  <2>2. ~(y < x)
        BY <1>1, <1>3, <2>1
  <2> QED BY <2>1, <2>2
<1> QED BY <1>4 DEF Min

-----------------------------------------------------------------------------
(* The inductive invariant.                                                *)

Kept(c) == \E r \in Rows : Stored(r) /\ record[r].charge = c
Live(e) == event[e] # None /\ event[e].status # "merged"

\* Until the migration: nothing is announced by this version, and every event
\* belongs to the record of its number.
Before == ~current =>
    /\ app # "up"
    /\ \A c \in Charges : told[c] = 0
    /\ due = {} /\ closed = {} /\ known = {}
    /\ \A r \in Rows : event[r] # None =>
          Stored(r) /\ record[r].charge = event[r].charge /\ event[r].status # "merged"

\* After it: one record and one event of each charge, under the key of the record.
OneRecord == \A r, q \in Rows :
    Stored(r) /\ Stored(q) /\ record[r].charge = record[q].charge => r = q
OneEvent == \A e, f \in Rows : Live(e) /\ Live(f) /\ event[e].charge = event[f].charge => e = f
Keyed == \A e \in Rows : Live(e) =>
    Stored(event[e].key) /\ record[event[e].key].charge = event[e].charge
\* A record that reconciliation looks at has its event.
Covered == \A r \in Rows : Stored(r) /\ record[r].eligible /\ record[r].recent =>
    \E e \in Rows : Live(e) /\ event[e].key = r
\* An announced charge has no event that is to be sent.
Told == \A c \in Charges :
    /\ told[c] \in {0, 1}
    /\ told[c] = 1 \/ c \in closed =>
          \A e \in Rows : Live(e) /\ event[e].charge = c => event[e].status = "delivered"
    /\ c \in closed => told[c] = 0
    /\ told[c] = 1 \/ c \in closed \/ c \in known => Kept(c)

After == current => OneRecord /\ OneEvent /\ Keyed /\ Covered /\ Told

IInv == TypeOK /\ Before /\ After /\ NothingLost

LEMMA InitIInv == Init => IInv
<1> SUFFICES ASSUME Init PROVE IInv
    OBVIOUS
<1>1. TypeOK
  <2>1. PICK status \in [1..Legacy -> {"pending", "delivered", "failed", "gone"}] :
           event = [r \in Rows |->
                      IF r > Legacy \/ status[r] = "gone" THEN None
                      ELSE [charge |-> record[r].charge, status |-> status[r],
                            key |-> r, into |-> None]]
        BY DEF Init
  <2>2. record \in [Rows -> Record \cup {None}]
        BY DEF Init, Record
  <2>3. ASSUME NEW r \in Rows, event[r] # None
        PROVE  event[r] \in Event
    <3>1. r \in 1..Legacy /\ status[r] \in Status
          BY <2>1, <2>3, UpgradeAssumption DEF Rows, Status
    <3>2. record[r] \in Record
          BY <3>1, <2>2 DEF Init, Stored
    <3> QED BY <2>1, <2>3, <3>1, <3>2 DEF Event, Record
  <2>4. event \in [Rows -> Event \cup {None}]
        BY <2>1, <2>3
  <2> QED BY <2>2, <2>4 DEF Init, TypeOK
<1>2. Before
      BY UpgradeAssumption DEF Init, Before, Stored, Rows
<1>3. After /\ NothingLost
      BY DEF Init, After, NothingLost
<1> QED BY <1>1, <1>2, <1>3 DEF IInv

-----------------------------------------------------------------------------
(* The migration.                                                          *)

LEMMA CanonicalIsOfTheCharge ==
    ASSUME NEW c \in Charges, Group(c) # {}
    PROVE  Canonical(c) \in Group(c)
<1>1. Group(c) \in SUBSET Nat
      BY DEF Group, Rows
<1> QED BY <1>1, MinIsMember DEF Canonical

LEMMA KeeperIsOfTheCharge ==
    ASSUME NEW c \in Charges, Events(c) # {}
    PROVE  Keeper(c) \in Events(c)
<1>1. Events(c) \in SUBSET Nat
      BY DEF Events, Rows
<1> QED BY <1>1, MinIsMember DEF Keeper

LEMMA UpgradeIInv ==
    ASSUME IInv, Upgrade
    PROVE  IInv'
<1> USE DEF IInv, Upgrade
<1> DEFINE canon(r) == record[r].charge
<1>1. ASSUME NEW r \in Rows, Stored(r)
      PROVE  /\ record[r] \in Record
             /\ r \in Group(record[r].charge)
             /\ Canonical(record[r].charge) \in Group(record[r].charge)
  <2>1. record[r] \in Record /\ record[r].charge \in Charges /\ r \in Group(record[r].charge)
        BY <1>1 DEF TypeOK, Stored, Record, Group
  <2> QED BY <2>1, CanonicalIsOfTheCharge
<1>2. ASSUME NEW r \in Rows, event[r] # None
      PROVE  /\ event[r] \in Event
             /\ r \in Events(event[r].charge)
             /\ Stored(r) /\ record[r].charge = event[r].charge
             /\ event[r].status # "merged"
             /\ Keeper(event[r].charge) \in Events(event[r].charge)
  <2>1. event[r] \in Event /\ event[r].charge \in Charges /\ r \in Events(event[r].charge)
        BY <1>2 DEF TypeOK, Event, Events
  <2> QED BY <1>2, <2>1, KeeperIsOfTheCharge DEF Before
<1>3. ASSUME NEW r \in Rows
      PROVE  /\ Stored(r)' <=> Stored(r) /\ r = Canonical(record[r].charge)
             /\ Stored(r)' => /\ record'[r] \in Record
                              /\ record'[r].charge = record[r].charge
                              /\ ~record'[r].eligible
                              /\ record'[r].named <=> \E d \in Group(record[r].charge) : record[d].named
  <2>1. CASE Stored(r) /\ r = Canonical(record[r].charge)
    <3>1. record'[r] = MergedRecord(r)
          BY <2>1
    <3>2. /\ MergedRecord(r) \in Record
          /\ MergedRecord(r).charge = record[r].charge
          /\ ~MergedRecord(r).eligible
          /\ MergedRecord(r).named <=> \E d \in Group(record[r].charge) : record[d].named
          BY <1>1, <2>1 DEF MergedRecord, Record
    <3> QED BY <2>1, <3>1, <3>2, UpgradeAssumption DEF Stored
  <2>2. CASE ~(Stored(r) /\ r = Canonical(record[r].charge))
        BY <2>2 DEF Stored
  <2> QED BY <2>1, <2>2
<1>4. ASSUME NEW r \in Rows
      PROVE  /\ event[r] = None <=> event'[r] = None
             /\ event[r] # None =>
                   /\ event'[r] \in Event
                   /\ event'[r].charge = event[r].charge
                   /\ r = Keeper(event[r].charge) =>
                         /\ event'[r].status = event[r].status
                         /\ event'[r].key = Canonical(event[r].charge)
                   /\ r # Keeper(event[r].charge) => event'[r].status = "merged"
  <2>1. CASE event[r] = None
        BY <2>1
  <2>2. CASE event[r] # None
    <3>1. event'[r] = MergedEvent(r)
          BY <2>2
    <3>2. /\ Canonical(event[r].charge) \in Rows
          /\ Keeper(event[r].charge) \in Rows
          BY <1>1, <1>2, <2>2 DEF Group, Events
    <3>3. MergedEvent(r) \in Event
      <4>1. CASE r = Keeper(event[r].charge)
            BY <4>1, <3>2, <1>2, <2>2 DEF MergedEvent, Event
      <4>2. CASE r # Keeper(event[r].charge)
            BY <4>2, <3>2, <1>2, <2>2 DEF MergedEvent, Event, Status
      <4> QED BY <4>1, <4>2
    <3>4. /\ MergedEvent(r).charge = event[r].charge
          /\ r = Keeper(event[r].charge) =>
                /\ MergedEvent(r).status = event[r].status
                /\ MergedEvent(r).key = Canonical(event[r].charge)
          /\ r # Keeper(event[r].charge) => MergedEvent(r).status = "merged"
          BY <1>2, <2>2 DEF MergedEvent, Event
    <3> QED BY <2>2, <3>1, <3>3, <3>4, UpgradeAssumption
  <2> QED BY <2>1, <2>2
<1>5. TypeOK'
  <2>1. record' \in [Rows -> Record \cup {None}]
    <3>1. \A r \in Rows : record'[r] \in Record \cup {None}
          BY <1>3 DEF Stored
    <3>2. record' = [r \in Rows |-> record'[r]]
          OBVIOUS
    <3> QED BY <3>1, <3>2
  <2>2. event' \in [Rows -> Event \cup {None}]
    <3>1. \A r \in Rows : event'[r] \in Event \cup {None}
          BY <1>4
    <3>2. event' = [r \in Rows |-> event'[r]]
          OBVIOUS
    <3> QED BY <3>1, <3>2
  <2> QED BY <2>1, <2>2 DEF TypeOK
<1>6. OneRecord'
      BY <1>3 DEF OneRecord
<1>7. ASSUME NEW e \in Rows, Live(e)'
      PROVE  /\ event[e] # None /\ e = Keeper(event[e].charge)
             /\ event'[e].charge = event[e].charge
             /\ event'[e].status = event[e].status
             /\ event'[e].key = Canonical(event[e].charge)
      BY <1>4, <1>7 DEF Live
<1>8. OneEvent'
      BY <1>7 DEF OneEvent
<1>9. ASSUME NEW c \in Charges, Group(c) # {}
      PROVE  /\ Canonical(c) \in Group(c) /\ Canonical(c) \in Group(c)'
             /\ Kept(c)'
  <2>1. Canonical(c) \in Group(c)
        BY <1>9, CanonicalIsOfTheCharge
  <2> QED BY <2>1, <1>3 DEF Group, Kept
<1>10. Keyed'
  <2> SUFFICES ASSUME NEW e \in Rows, Live(e)'
               PROVE  (Stored(event[e].key) /\ record[event[e].key].charge = event[e].charge)'
      BY DEF Keyed
  <2>1. PICK c \in Charges : c = event[e].charge /\ Group(c) # {}
        BY <1>1, <1>2, <1>7 DEF Record
  <2>2. Canonical(c) \in Group(c)'
        BY <1>9, <2>1
  <2>3. event'[e].key = Canonical(c) /\ event'[e].charge = c
        BY <1>7, <2>1
  <2> QED BY <2>2, <2>3 DEF Group, Stored
<1>11. Covered'
       BY <1>3 DEF Covered
<1>12. Told'
  <2> SUFFICES ASSUME NEW c \in Charges
               PROVE  /\ told'[c] = 0
                      /\ c \in closed' => \A e \in Rows : Live(e)' /\ event'[e].charge = c
                                             => event'[e].status = "delivered"
                      /\ c \in closed' \/ c \in known' => Kept(c)'
      BY DEF Told
  <2>1. told'[c] = 0
        BY DEF Before
  <2>2. ASSUME c \in closed', NEW e \in Rows, Live(e)', event'[e].charge = c
        PROVE  event'[e].status = "delivered"
        BY <1>7, <2>2 DEF Events
  <2>3. c \in closed' \/ c \in known' => Kept(c)'
        BY <1>9
  <2> QED BY <2>1, <2>2, <2>3
<1>13. ASSUME NEW c \in due'
       PROVE  \E e \in Events(c)' : /\ event'[e].status \in {"pending", "failed"}
                                    /\ event'[e].key \in Group(c)'
  <2>1. c \in Charges /\ Keeper(c) \in Events(c)
        BY KeeperIsOfTheCharge
  <2>2. event[Keeper(c)].status \in {"pending", "failed"} /\ event[Keeper(c)].charge = c
        BY <1>2, <2>1 DEF Events, Event, Status
  <2>3. Group(c) # {}
        BY <1>1, <1>2, <2>1 DEF Events
  <2>4. Keeper(c) \in Events(c)'
        BY <1>4, <2>1 DEF Events
  <2> QED BY <1>4, <1>9, <2>1, <2>2, <2>3, <2>4 DEF Events
<1>14. ASSUME NEW c \in known', NEW r \in Group(c)'
       PROVE  record'[r].named
       BY <1>3 DEF Group
<1>15. NothingLost'
       BY <1>13, <1>14 DEF NothingLost
<1> QED BY <1>5, <1>6, <1>8, <1>10, <1>11, <1>12, <1>15 DEF Before, After

-----------------------------------------------------------------------------
(* The other steps.                                                        *)

\* Starting and stopping leave the tables alone.
LEMMA AppIInv ==
    ASSUME IInv, StartApp \/ StopApp
    PROVE  IInv'
<1>1. UNCHANGED <<current, record, event, told, past>> /\ app' \in {"down", "idle", "up"}
      BY DEF StartApp, StopApp, past
<1>2. ~current => app' # "up"
      BY DEF StartApp, StopApp
<1>3. TypeOK' /\ Before'
      BY <1>1, <1>2 DEF IInv, TypeOK, Before, Stored, past
<1>4. After' /\ NothingLost'
      BY <1>1 DEF IInv, After, OneRecord, OneEvent, Keyed, Covered, Told, NothingLost, Live, Kept,
                  Stored, Group, Events, past
<1> QED BY <1>3, <1>4 DEF IInv

LEMMA StutterIInv ==
    ASSUME IInv, UNCHANGED vars
    PROVE  IInv'
<1>1. UNCHANGED <<current, app, record, event, told, due, closed, known>>
      BY DEF vars, past
<1>2. TypeOK' /\ Before'
      BY <1>1 DEF IInv, TypeOK, Before, Stored
<1>3. After' /\ NothingLost'
      BY <1>1 DEF IInv, After, OneRecord, OneEvent, Keyed, Covered, Told, NothingLost, Live, Kept,
                  Stored, Group, Events
<1> QED BY <1>2, <1>3 DEF IInv

\* A charge without record has no live event, was not announced and is in no history.
LEMMA CollectNewIInv ==
    ASSUME IInv, NEW c \in Charges, CollectNew(c)
    PROVE  IInv'
<1>1. PICK r \in Rows, named \in BOOLEAN, eligible \in BOOLEAN :
         /\ Serves /\ Group(c) = {}
         /\ r > Legacy /\ ~Stored(r) /\ event[r] = None
         /\ record' = [record EXCEPT ![r] = [charge |-> c, named |-> named, eligible |-> eligible,
                                             recent |-> TRUE]]
         /\ event' = IF eligible THEN [event EXCEPT ![r] = NewEvent(r, c)] ELSE event
         /\ UNCHANGED <<current, app, told, due, closed, known>>
      BY DEF CollectNew, past
<1> DEFINE new == [charge |-> c, named |-> named, eligible |-> eligible, recent |-> TRUE]
<1>2. new \in Record /\ NewEvent(r, c) \in Event
      BY <1>1 DEF Record, Event, NewEvent, Status
<1>3. /\ current /\ After /\ TypeOK
      /\ \A q \in Rows : record'[q] = IF q = r THEN new ELSE record[q]
      /\ \A e \in Rows : event'[e] = IF e = r /\ eligible THEN NewEvent(r, c) ELSE event[e]
      BY <1>1 DEF IInv, TypeOK, Serves
<1>4. /\ new # None /\ new.charge = c /\ new.eligible = eligible
      /\ NewEvent(r, c) # None /\ NewEvent(r, c).charge = c
      /\ NewEvent(r, c).status = "pending" /\ NewEvent(r, c).key = r
      BY <1>2, UpgradeAssumption DEF NewEvent
<1> HIDE DEF new
<1>5. \A q \in Rows : Stored(q) => record[q].charge # c
      BY <1>1 DEF Group
<1>6. ~Kept(c)
      BY <1>5 DEF Kept
<1>7. \A e \in Rows : Live(e) => event[e].charge # c /\ event[e].key # r
  <2> SUFFICES ASSUME NEW e \in Rows, Live(e)
               PROVE  event[e].charge # c /\ event[e].key # r
      OBVIOUS
  <2>1. Stored(event[e].key) /\ record[event[e].key].charge = event[e].charge
        BY <1>3 DEF After, Keyed
  <2>2. event[e].key \in Rows
        BY <1>3 DEF TypeOK, Live, Event
  <2> QED BY <1>1, <1>5, <2>1, <2>2
<1>8. /\ \A q \in Rows : Stored(q)' <=> Stored(q) \/ q = r
      /\ \A e \in Rows : Live(e)' <=> Live(e) \/ (e = r /\ eligible)
      BY <1>1, <1>3, <1>4 DEF Stored, Live
<1>9. TypeOK'
      BY <1>1, <1>2, <1>3 DEF TypeOK, new
<1>10. OneRecord'
       BY <1>3, <1>4, <1>5, <1>8 DEF After, OneRecord
<1>11. OneEvent'
       BY <1>3, <1>4, <1>7, <1>8, <1>1 DEF After, OneEvent, Live
<1>12. Keyed'
  <2> SUFFICES ASSUME NEW e \in Rows, Live(e)'
               PROVE  (Stored(event[e].key) /\ record[event[e].key].charge = event[e].charge)'
      BY DEF Keyed
  <2>1. CASE e = r /\ eligible
        BY <2>1, <1>3, <1>4 DEF Stored
  <2>2. CASE ~(e = r /\ eligible)
    <3>1. Live(e) /\ event'[e] = event[e]
          BY <2>2, <1>3, <1>8
    <3>2. event[e].key \in Rows /\ event[e].key # r
          BY <3>1, <1>7, <1>3 DEF TypeOK, Live, Event
    <3>3. Stored(event[e].key) /\ record[event[e].key].charge = event[e].charge
          BY <3>1, <1>3 DEF After, Keyed
    <3> QED BY <3>1, <3>2, <3>3, <1>3 DEF Stored
  <2> QED BY <2>1, <2>2
<1>13. Covered'
  <2> SUFFICES ASSUME NEW q \in Rows, (Stored(q) /\ record[q].eligible /\ record[q].recent)'
               PROVE  (\E e \in Rows : Live(e) /\ event[e].key = q)'
      BY DEF Covered
  <2>1. CASE q = r
        BY <2>1, <1>3, <1>4, <1>8
  <2>2. CASE q # r
    <3>1. PICK e \in Rows : Live(e) /\ event[e].key = q
          BY <2>2, <1>3, <1>8 DEF After, Covered
    <3>2. e # r
          BY <3>1, <1>1 DEF Live
    <3> QED BY <3>1, <3>2, <1>3, <1>8
  <2> QED BY <2>1, <2>2
<1>14. Told'
  <2> SUFFICES ASSUME NEW d \in Charges
               PROVE  /\ told[d] \in {0, 1}
                      /\ told[d] = 1 \/ d \in closed =>
                            \A e \in Rows : (Live(e) /\ event[e].charge = d)'
                                                => event'[e].status = "delivered"
                      /\ d \in closed => told[d] = 0
                      /\ told[d] = 1 \/ d \in closed \/ d \in known => Kept(d)'
      BY <1>1 DEF Told
  <2>1. told[d] \in {0, 1} /\ (d \in closed => told[d] = 0)
        BY <1>3 DEF After, Told
  <2>2. told[d] = 1 \/ d \in closed \/ d \in known => Kept(d)
        BY <1>3 DEF After, Told
  <2>3. Kept(d) => Kept(d)'
        BY <1>1, <1>3, <1>8 DEF Kept
  <2>4. ASSUME told[d] = 1 \/ d \in closed, NEW e \in Rows, (Live(e) /\ event[e].charge = d)'
        PROVE  event'[e].status = "delivered"
    <3>1. d # c
          BY <2>2, <2>4, <1>6
    <3>2. Live(e) /\ event'[e] = event[e]
          BY <3>1, <2>4, <1>3, <1>4, <1>8
    <3> QED BY <3>2, <2>4, <1>3 DEF After, Told
  <2> QED BY <2>1, <2>2, <2>3, <2>4
<1>15. NothingLost'
  <2>1. ASSUME NEW d \in due
        PROVE  \/ told[d] > 0
               \/ \E e \in Events(d)' : /\ event'[e].status \in {"pending", "failed"}
                                        /\ event'[e].key \in Group(d)'
    <3>1. CASE told[d] > 0
          BY <3>1
    <3>2. CASE ~(told[d] > 0)
      <4>1. PICK e \in Events(d) : event[e].status \in {"pending", "failed"} /\ event[e].key \in Group(d)
            BY <3>2 DEF IInv, NothingLost
      <4>2. e # r /\ event'[e] = event[e]
            BY <4>1, <1>1, <1>3 DEF Events
      <4>3. event[e].key # r
            BY <4>1, <1>1 DEF Group
      <4>4. e \in Events(d)' /\ event[e].key \in Group(d)'
            BY <4>1, <4>2, <4>3, <1>3, <1>8 DEF Events, Group
      <4> QED BY <4>1, <4>2, <4>4
    <3> QED BY <3>1, <3>2
  <2>2. ASSUME NEW d \in known, NEW q \in Group(d)'
        PROVE  record'[q].named
    <3>1. d \in Charges /\ Kept(d)
          BY <1>3 DEF TypeOK, After, Told
    <3>2. q # r
          BY <2>2, <3>1, <1>3, <1>4, <1>6 DEF Group
    <3>3. q \in Group(d) /\ record'[q] = record[q]
          BY <2>2, <3>2, <1>3, <1>8 DEF Group
    <3> QED BY <3>3 DEF IInv, NothingLost
  <2> QED BY <1>1, <2>1, <2>2 DEF NothingLost
<1> QED BY <1>1, <1>3, <1>9, <1>10, <1>11, <1>12, <1>13, <1>14, <1>15 DEF IInv, Before, After

\* Filling in a name or growing older leaves a record the record of its charge.
LEMMA RecordIInv ==
    ASSUME IInv, NEW r \in Rows, Stored(r), CollectAgain(record[r].charge) \/ Ages(r),
           record' \in [Rows -> Record \cup {None}],
           \A q \in Rows : /\ record'[q] # None <=> record[q] # None
                           /\ record[q] # None =>
                                 /\ record'[q].charge = record[q].charge
                                 /\ record'[q].eligible = record[q].eligible
                                 /\ record[q].named => record'[q].named
                                 /\ record'[q].recent => record[q].recent
    PROVE  IInv'
<1>1. UNCHANGED <<current, app, event, told, due, closed, known>>
      BY DEF CollectAgain, Ages, past
<1>2. /\ \A q \in Rows : Stored(q)' <=> Stored(q)
      /\ \A e \in Rows : Live(e)' <=> Live(e)
      /\ \A c \in Charges : Kept(c)' <=> Kept(c)
      /\ \A c \in Charges : Group(c)' = Group(c) /\ Events(c)' = Events(c)
      BY <1>1 DEF Stored, Live, Kept, Group, Events
<1>3. TypeOK'
      BY <1>1 DEF IInv, TypeOK
<1>4. Before'
      BY <1>1, <1>2 DEF IInv, Before, Stored
<1>5. ASSUME After, current
      PROVE  (OneRecord /\ OneEvent /\ Keyed /\ Covered /\ Told)'
  <2>1. OneRecord' /\ OneEvent'
        BY <1>1, <1>2, <1>5 DEF After, OneRecord, OneEvent, Stored
  <2>2. \A e \in Rows : Live(e) => event[e].key \in Rows
        BY DEF IInv, TypeOK, Live, Event
  <2>3. Keyed'
        BY <1>1, <1>2, <1>5, <2>2 DEF After, Keyed, Stored
  <2>4. Covered'
        BY <1>1, <1>2, <1>5 DEF After, Covered, Stored
  <2>5. Told'
        BY <1>1, <1>2, <1>5 DEF After, Told
  <2> QED BY <2>1, <2>3, <2>4, <2>5
<1>6. NothingLost'
  <2>1. due \subseteq Charges /\ known \subseteq Charges
        BY DEF IInv, TypeOK
  <2>2. \A c \in known : \A q \in Group(c) : record'[q].named
        BY <2>1 DEF IInv, NothingLost, Group, Stored
  <2> QED BY <1>1, <1>2, <2>1, <2>2 DEF IInv, NothingLost
<1> QED BY <1>1, <1>3, <1>4, <1>5, <1>6 DEF IInv, After

LEMMA CollectAgainIInv ==
    ASSUME IInv, NEW c \in Charges, CollectAgain(c)
    PROVE  IInv'
<1>1. PICK r \in Group(c) : record' = [record EXCEPT ![r].named = TRUE]
      BY DEF CollectAgain
<1>2. r \in Rows /\ Stored(r) /\ record[r].charge = c /\ record[r] \in Record
      BY <1>1 DEF Group, IInv, TypeOK, Stored
<1>3. [record[r] EXCEPT !.named = TRUE] \in Record
      BY <1>2 DEF Record
<1>4. record' \in [Rows -> Record \cup {None}]
      BY <1>1, <1>2, <1>3 DEF IInv, TypeOK
<1>5. ASSUME NEW q \in Rows
      PROVE  /\ record'[q] # None <=> record[q] # None
             /\ record[q] # None =>
                   /\ record'[q].charge = record[q].charge
                   /\ record'[q].eligible = record[q].eligible
                   /\ record[q].named => record'[q].named
                   /\ record'[q].recent => record[q].recent
      BY <1>1, <1>2, <1>3, UpgradeAssumption DEF IInv, TypeOK, Record, Stored
<1> QED BY <1>2, <1>4, <1>5, RecordIInv

LEMMA AgesIInv ==
    ASSUME IInv, NEW r \in Rows, Ages(r)
    PROVE  IInv'
<1>1. Stored(r) /\ record[r] \in Record /\ record' = [record EXCEPT ![r].recent = FALSE]
      BY DEF Ages, IInv, TypeOK, Stored
<1>2. [record[r] EXCEPT !.recent = FALSE] \in Record
      BY <1>1 DEF Record
<1>3. record' \in [Rows -> Record \cup {None}]
      BY <1>1, <1>2 DEF IInv, TypeOK
<1>4. ASSUME NEW q \in Rows
      PROVE  /\ record'[q] # None <=> record[q] # None
             /\ record[q] # None =>
                   /\ record'[q].charge = record[q].charge
                   /\ record'[q].eligible = record[q].eligible
                   /\ record[q].named => record'[q].named
                   /\ record'[q].recent => record[q].recent
      BY <1>1, <1>2, UpgradeAssumption DEF IInv, TypeOK, Record, Stored
<1> QED BY <1>1, <1>3, <1>4, RecordIInv

\* Every eligible, recent record has its event: reconciliation finds nothing to do.
LEMMA ReconcileIInv ==
    ASSUME IInv, NEW r \in Rows, Reconcile(r)
    PROVE  IInv'
<1>1. \E e \in Rows : Live(e) /\ event[e].key = r
      BY DEF IInv, After, Covered, Reconcile, Serves
<1>2. UNCHANGED vars
      BY <1>1 DEF Reconcile, Live, vars
<1> QED BY <1>2, StutterIInv

\* A live event becomes another live event of the same charge and key: it is
\* delivered, given up or taken up again.
LEMMA EventIInv ==
    ASSUME IInv, NEW r \in Rows, Deliver(r) \/ GiveUp(r) \/ Retry(r)
    PROVE  IInv'
<1>1. /\ current /\ After /\ TypeOK /\ Live(r) /\ event[r] \in Event
      /\ event[r].status \in {"pending", "failed"}
      BY DEF IInv, Deliver, GiveUp, Retry, Waiting, Serves, Live, TypeOK, Before
<1>2. UNCHANGED <<current, app, record, due, closed, known>>
      BY DEF Deliver, GiveUp, Retry, past
<1>3. /\ event' \in [Rows -> Event \cup {None}]
      /\ \A e \in Rows : e # r => event'[e] = event[e]
      /\ event'[r] \in Event /\ event'[r].charge = event[r].charge /\ event'[r].key = event[r].key
      /\ event'[r].status \in {"pending", "delivered", "failed"}
  <2>1. PICK st \in {"pending", "delivered", "failed"} : event' = [event EXCEPT ![r].status = st]
        BY DEF Deliver, GiveUp, Retry
  <2>2. [event[r] EXCEPT !.status = st] \in Event
        BY <1>1 DEF Event, Status
  <2> QED BY <1>1, <2>1, <2>2 DEF TypeOK, Event
<1>4. event'[r] # None
      BY <1>3, UpgradeAssumption
<1>5. /\ \A e \in Rows : Live(e)' <=> Live(e)
      /\ \A e \in Rows : event'[e] # None <=> event[e] # None
      /\ \A e \in Rows : Live(e) => event'[e].charge = event[e].charge /\ event'[e].key = event[e].key
      BY <1>1, <1>3, <1>4 DEF Live
<1>6. /\ event[r].charge \in Charges
      /\ told[event[r].charge] = 0 /\ event[r].charge \notin closed
      BY <1>1 DEF Event, After, Told
<1>7. /\ told' \in [Charges -> Nat]
      /\ \A c \in Charges : c # event[r].charge => told'[c] = told[c]
      /\ \/ told'[event[r].charge] = 0
         \/ told'[event[r].charge] = 1 /\ event'[r].status = "delivered"
  <2>1. CASE Deliver(r)
    <3>1. told' = [told EXCEPT ![event[r].charge] = @ + 1]
          BY <2>1 DEF Deliver
    <3>2. event'[r].status = "delivered"
          BY <2>1, <1>1 DEF Deliver, TypeOK, Event
    <3> QED BY <1>1, <1>6, <3>1, <3>2 DEF TypeOK
  <2>2. CASE GiveUp(r) \/ Retry(r)
        BY <2>2, <1>1, <1>6 DEF GiveUp, Retry, TypeOK
  <2> QED BY <2>1, <2>2
<1>8. TypeOK' /\ Before'
      BY <1>1, <1>2, <1>3, <1>7 DEF TypeOK, Before
<1>9. OneRecord' /\ OneEvent'
      BY <1>1, <1>2, <1>5 DEF After, OneRecord, OneEvent, Stored
<1>10. Keyed'
       BY <1>1, <1>2, <1>5 DEF After, Keyed, Stored
<1>11. Covered'
       BY <1>1, <1>2, <1>5 DEF After, Covered, Stored
<1>12. Told'
  <2>1. ASSUME NEW c \in Charges
        PROVE  /\ told'[c] \in {0, 1}
               /\ told'[c] = 1 \/ c \in closed =>
                     \A e \in Rows : (Live(e) /\ event[e].charge = c)' => event'[e].status = "delivered"
               /\ c \in closed => told'[c] = 0
               /\ told'[c] = 1 \/ c \in closed \/ c \in known => Kept(c)
    <3>1. CASE c # event[r].charge
      <4>1. told'[c] = told[c]
            BY <1>7, <3>1
      <4>2. \A e \in Rows : (Live(e) /\ event[e].charge = c)' =>
               Live(e) /\ event[e].charge = c /\ event'[e] = event[e]
            BY <1>3, <1>5, <3>1
      <4> QED BY <1>1, <4>1, <4>2 DEF After, Told
    <3>2. CASE c = event[r].charge
      <4>1. Kept(c)
        <5>1. Stored(event[r].key) /\ record[event[r].key].charge = c
              BY <1>1, <3>2 DEF After, Keyed
        <5>2. event[r].key \in Rows
              BY <1>1 DEF Event
        <5> QED BY <5>1, <5>2 DEF Kept
      <4>2. \A e \in Rows : (Live(e) /\ event[e].charge = c)' => e = r
            BY <1>1, <1>5, <3>2 DEF After, OneEvent
      <4> QED BY <1>6, <1>7, <3>2, <4>1, <4>2
    <3> QED BY <3>1, <3>2
  <2>2. \A c \in Charges : Kept(c)' <=> Kept(c)
        BY <1>2 DEF Kept, Stored
  <2> QED BY <1>2, <2>1, <2>2 DEF Told
<1>13. ASSUME NEW c \in due
       PROVE  \/ told'[c] > 0
              \/ \E e \in Events(c)' : /\ event'[e].status \in {"pending", "failed"}
                                       /\ event'[e].key \in Group(c)
  <2>1. c \in Charges
        BY <1>1 DEF TypeOK
  <2>2. CASE c # event[r].charge
    <3>1. told'[c] = told[c]
          BY <1>7, <2>1, <2>2
    <3>2. CASE told[c] > 0
          BY <3>1, <3>2
    <3>3. CASE ~(told[c] > 0)
      <4>1. PICK e \in Events(c) : event[e].status \in {"pending", "failed"} /\ event[e].key \in Group(c)
            BY <3>3 DEF IInv, NothingLost
      <4>2. e \in Rows /\ event'[e] = event[e] /\ event[e] # None /\ event[e].charge = c
            BY <4>1, <2>2, <1>3 DEF Events
      <4>3. e \in Events(c)'
            BY <4>2 DEF Events
      <4> QED BY <4>1, <4>2, <4>3
    <3> QED BY <3>2, <3>3
  <2>3. CASE c = event[r].charge
    <3>1. event[r].key \in Group(c)
          BY <1>1, <2>3 DEF After, Keyed, Group, Event
    <3>2. r \in Events(c)' /\ event'[r].key \in Group(c)
          BY <1>3, <1>4, <2>3, <3>1 DEF Events
    <3>3. CASE Deliver(r)
      <4>1. told'[c] = told[c] + 1
            BY <3>3, <2>1, <2>3, <1>1 DEF Deliver, TypeOK
      <4> QED BY <4>1, <1>6, <2>3
    <3>4. CASE GiveUp(r) \/ Retry(r)
      <4>1. event'[r].status \in {"pending", "failed"}
            BY <3>4, <1>1 DEF GiveUp, Retry, TypeOK, Event
      <4> QED BY <3>2, <4>1
    <3> QED BY <3>3, <3>4
  <2> QED BY <2>2, <2>3
<1>14. \A c : Group(c)' = Group(c)
       BY <1>2 DEF Group, Stored
<1>15. \A c \in known : \A q \in Group(c) : record[q].named
       BY DEF IInv, NothingLost
<1>16. NothingLost'
       BY <1>2, <1>13, <1>14, <1>15 DEF NothingLost
<1> QED BY <1>1, <1>2, <1>8, <1>9, <1>10, <1>11, <1>12, <1>16 DEF IInv, After

\* Only a finished event of a record that reconciliation no longer looks at goes.
LEMMA CleanUpIInv ==
    ASSUME IInv, NEW r \in Rows, CleanUp(r)
    PROVE  IInv'
<1>1. /\ current /\ After /\ TypeOK /\ Live(r) /\ event[r] \in Event
      /\ \A k \in Group(event[r].charge) : ~record[k].recent
      BY DEF IInv, CleanUp, Live, TypeOK, Before
<1>2. /\ UNCHANGED <<current, app, record, told, closed, known>>
      /\ event' = [event EXCEPT ![r] = None]
      /\ due' = due \ {event[r].charge}
      BY DEF CleanUp
<1>3. \A e \in Rows : event'[e] = IF e = r THEN None ELSE event[e]
      BY <1>1, <1>2 DEF TypeOK
<1>4. /\ \A e \in Rows : Live(e)' <=> Live(e) /\ e # r
      /\ \A q \in Rows : Stored(q)' <=> Stored(q)
      /\ \A c : Group(c)' = Group(c)
      /\ \A c \in Charges : Kept(c)' <=> Kept(c)
      BY <1>2, <1>3 DEF Live, Stored, Group, Kept
<1>5. TypeOK' /\ Before'
      BY <1>1, <1>2 DEF TypeOK, Before
<1>6. OneRecord' /\ OneEvent'
      BY <1>1, <1>2, <1>3, <1>4 DEF After, OneRecord, OneEvent
<1>7. \A e \in Rows : Live(e) => event[e].key \in Rows
      BY <1>1 DEF TypeOK, Live, Event
<1>8. Keyed'
      BY <1>1, <1>2, <1>3, <1>4, <1>7 DEF After, Keyed
<1>9. Covered'
  <2> SUFFICES ASSUME NEW q \in Rows, Stored(q), record[q].eligible, record[q].recent
               PROVE  (\E e \in Rows : Live(e) /\ event[e].key = q)'
      BY <1>2, <1>4 DEF Covered
  <2>1. PICK e \in Rows : Live(e) /\ event[e].key = q
        BY <1>1 DEF After, Covered
  <2>2. record[q].charge = event[e].charge
        BY <1>1, <2>1 DEF After, Keyed
  <2>3. e # r
        BY <1>1, <2>2 DEF Group
  <2> QED BY <1>3, <1>4, <2>1, <2>3
<1>10. Told'
       BY <1>1, <1>2, <1>3, <1>4 DEF After, Told
<1>11. NothingLost'
  <2>1. ASSUME NEW c \in due'
        PROVE  \/ told[c] > 0
               \/ \E e \in Events(c)' : /\ event'[e].status \in {"pending", "failed"}
                                        /\ event'[e].key \in Group(c)
    <3>1. c \in due /\ c # event[r].charge
          BY <1>2
    <3>2. CASE told[c] > 0
          BY <3>2
    <3>3. CASE ~(told[c] > 0)
      <4>1. PICK e \in Events(c) : event[e].status \in {"pending", "failed"} /\ event[e].key \in Group(c)
            BY <3>1, <3>3 DEF IInv, NothingLost
      <4>2. e \in Rows /\ event'[e] = event[e] /\ event[e] # None /\ event[e].charge = c
            BY <4>1, <3>1, <1>3 DEF Events
      <4>3. e \in Events(c)'
            BY <4>2 DEF Events
      <4> QED BY <4>1, <4>2, <4>3
    <3> QED BY <3>2, <3>3
  <2> QED BY <1>2, <1>4, <2>1 DEF IInv, NothingLost
<1> QED BY <1>1, <1>2, <1>5, <1>6, <1>8, <1>9, <1>10, <1>11 DEF IInv, After

LEMMA NextIInv == IInv /\ [Next]_vars => IInv'
<1> SUFFICES ASSUME IInv, [Next]_vars PROVE IInv'
    OBVIOUS
<1>1. CASE Upgrade
      BY <1>1, UpgradeIInv
<1>2. CASE StartApp \/ StopApp
      BY <1>2, AppIInv
<1>3. CASE \E c \in Charges : CollectNew(c) \/ CollectAgain(c)
      BY <1>3, CollectNewIInv, CollectAgainIInv
<1>4. CASE \E r \in Rows : Reconcile(r)
      BY <1>4, ReconcileIInv
<1>5. CASE \E r \in Rows : Deliver(r) \/ GiveUp(r) \/ Retry(r)
      BY <1>5, EventIInv
<1>6. CASE \E r \in Rows : Ages(r) \/ CleanUp(r)
      BY <1>6, AgesIInv, CleanUpIInv
<1>7. CASE UNCHANGED vars
      BY <1>7, StutterIInv
<1> QED BY <1>1, <1>2, <1>3, <1>4, <1>5, <1>6, <1>7 DEF Next

LEMMA Inductive == Spec => []IInv
<1> QED BY InitIInv, NextIInv, PTL DEF Spec

-----------------------------------------------------------------------------
(* The theorems.                                                           *)

\* The tables and the histories keep their types (migration 0006, main.py lifespan,
\* collection, reconciliation, delivery, retry and cleanup).
THEOREM UpgradeTyped == Spec => []TypeOK
<1>1. IInv => TypeOK
      BY DEF IInv
<1> QED BY <1>1, Inductive, PTL

\* NoSecondTelling: merging the records and events of a charge (migration 0006)
\* leads to at most one announcement, and to none of what was settled.
THEOREM UpgradeTellsOnce == Spec => []NoSecondTelling
<1>1. ASSUME IInv PROVE NoSecondTelling
  <2>1. CASE current
        BY <1>1, <2>1 DEF IInv, After, Told, NoSecondTelling
  <2>2. CASE ~current
        BY <1>1, <2>2 DEF IInv, Before, NoSecondTelling
  <2> QED BY <2>1, <2>2
<1> QED BY <1>1, Inductive, PTL

\* NothingLost: no announcement that was due and no name gets lost when the
\* duplicates of a charge are removed (migration 0006).
THEOREM UpgradeLosesNothing == Spec => []NothingLost
<1>1. IInv => NothingLost
      BY DEF IInv
<1> QED BY <1>1, Inductive, PTL
=============================================================================
