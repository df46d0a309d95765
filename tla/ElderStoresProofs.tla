-------------------------- MODULE ElderStoresProofs --------------------------
(***************************************************************************)
(* What the elders' stores of maps, sequences and registers keep, for any  *)
(* data, requests, elders of old and number of failures.                   *)
(***************************************************************************)
EXTENDS ElderStores, TLAPS

\* Files that cannot be read hold nothing; what was accepted is in a file
\* that can be; sequenced maps are one history.
Content ==
  /\ \A e \in Elder, a \in Address :
       store[e][a].state # "whole" => store[e][a].ops = {}
  /\ \A e \in Elder : \A r \in accepted[e] :
       r \in store[e][r.at].ops /\ store[e][r.at].state = "whole"
  /\ \A o \in Oldie, a \in Address :
       packet[o][a].state # "whole" => packet[o][a].ops = {}
  /\ MapIsOneHistory

Covered(o) == \A a \in InPacket(o) \ gone : store[New][a].state = "whole"

\* A push that is put is there; the flag follows one that was put in the same
\* time as elder.
Synced ==
  /\ role = "promoted" => \A o \in Oldie : task[o] \notin {"checked", "updated"}
  /\ \A o \in Oldie : task[o] = "updated" => Covered(o)
  /\ role = "elder" /\ synced = "yes" =>
       \E o \in Oldie : task[o] = "done" /\ Covered(o)

DataInv == TypeOK /\ Content /\ Synced

-----------------------------------------------------------------------------
\* The operators on files keep the type of a file.
LEMMA FileTypes ==
  /\ Absent \in File /\ Partial \in File
  /\ \A a \in Address : Fresh(a) \in File
  /\ \A f \in File, r \in Request : Written(f, r) \in File
<1>1. Absent \in File /\ Partial \in File
  BY DEF Absent, Partial, File
<1>2. ASSUME NEW a \in Address PROVE Fresh(a) \in File
  <2>1. Policy[a] \in SUBSET Client
    BY DataAssumption
  <2> QED BY <2>1 DEF Fresh, Absent, File
<1>3. ASSUME NEW f \in File, NEW r \in Request PROVE Written(f, r) \in File
  <2> r.at \in Address /\ r.user \in Client
    BY DataAssumption
  <2>1. CASE r.cmd = "New"
    BY <1>2, <2>1 DEF Written
  <2>a. /\ f.may \in SUBSET Client /\ f.ops \in SUBSET Request
        /\ f.ver + 1 \in Nat /\ f.len + 1 \in Nat /\ f.len \in Nat
        /\ f.last \in SUBSET Request
    BY DEF File
  <2>b. \A may \in SUBSET Client : [f EXCEPT !.may = may, !.ver = @ + 1] \in File
    BY <2>a DEF File
  <2>c. \A ops, last \in SUBSET Request, len \in Nat :
          [f EXCEPT !.ops = ops, !.len = len, !.last = last] \in File
    BY <2>a DEF File
  <2>2. CASE r.cmd = "SetUserPermissions"
    <3>1. f.may \cup {r.user} \in SUBSET Client
      BY <2>a
    <3> QED BY <2>2, <2>b, <3>1 DEF Written
  <2>3. CASE r.cmd = "DelUserPermissions"
    <3>1. f.may \ {r.user} \in SUBSET Client
      BY <2>a
    <3> QED BY <2>3, <2>b, <3>1 DEF Written
  <2>4. Apply(f, r) \in File
    <3>1. /\ f.ops \cup {r} \in SUBSET Request
          /\ (f.last \ Entry(f, r.key)) \cup {r} \in SUBSET Request
      BY <2>a
    <3> QED BY <2>a, <2>c, <3>1 DEF Apply
  <2> QED BY <2>1, <2>2, <2>3, <2>4 DEF Written
<1> QED BY <1>1, <1>2, <1>3

\* A write that is not refused keeps a sequenced map one history: an edit of
\* an entry comes with the version after that of its value.
LEMMA WrittenHistory ==
  ASSUME NEW f \in File, NEW r \in Request, r.at \in Sequenced,
         r.cmd # "Delete", WriteError(f, r) = "none", OneHistory(f)
  PROVE  OneHistory(Written(f, r))
<1> r.cmd \in Cmd /\ r.nr \in Nat /\ Kind[r.at] = "map"
  BY DataAssumption
<1> f.last \subseteq f.ops /\ f.ops \subseteq Request
  BY DEF File, OneHistory
<1> \A q \in f.ops : q.nr \in Nat
  BY DataAssumption
<1>1. CASE r.cmd = "New"
  BY <1>1, DataAssumption DEF Written, Fresh, Absent, OneHistory
<1>2. CASE r.cmd \in {"SetUserPermissions", "DelUserPermissions"}
  <2>1. Written(f, r).ops = f.ops /\ Written(f, r).last = f.last
    BY <1>2 DEF Written, File
  <2> QED BY <2>1 DEF OneHistory
<1>3. CASE r.cmd = "Edit"
  <2>1. EntriesFit(f, r)
    BY <1>3 DEF WriteError, MapError, EntriesError, GetError
  <2> DEFINE ops == f.ops \cup {r}
             last == (f.last \ Entry(f, r.key)) \cup {r}
  <2>2. Written(f, r).ops = ops /\ Written(f, r).last = last
    BY <1>3 DEF Written, Apply, File
  \* The version of the entry so far.
  <2>3. PICK v \in Nat : /\ r.nr = v + 1
                         /\ \A q \in f.ops : q.key = r.key => q.nr \in 1..v
                         /\ \A n \in 1..v : \E q \in f.ops : q.key = r.key /\ q.nr = n
    <3>1. CASE r.nr = 1
      <4>1. \A q \in f.ops : q.key # r.key
        BY <2>1, <3>1 DEF EntriesFit, Entry, OneHistory
      <4> QED BY <3>1, <4>1
    <3>2. CASE r.nr # 1
      <4>1. PICK p \in f.last : p.key = r.key /\ r.nr = p.nr + 1
        BY <2>1, <3>2 DEF EntriesFit, Entry
      <4>2. \A q \in f.ops : q.key = r.key => q.nr \in 1..p.nr
        BY <4>1 DEF OneHistory
      <4>3. \A n \in 1..p.nr : \E q \in f.ops : q.key = r.key /\ q.nr = n
        BY <4>1 DEF OneHistory
      <4> QED BY <4>1, <4>2, <4>3
    <3> QED BY <3>1, <3>2
  <2>4. last \subseteq ops
    OBVIOUS
  <2>5. \A p, q \in ops : p.key = q.key /\ p.nr = q.nr => p = q
    BY <2>3 DEF OneHistory
  <2>6. \A p, q \in last : p.key = q.key => p = q
    BY DEF OneHistory, Entry
  <2>7. \A p \in ops : \E q \in last : q.key = p.key /\ p.nr \in 1..q.nr
    <3> SUFFICES ASSUME NEW p \in ops
                 PROVE \E q \in last : q.key = p.key /\ p.nr \in 1..q.nr
      OBVIOUS
    <3>1. CASE p.key = r.key
      <4>1. p.nr \in 1..r.nr
        BY <2>3, <3>1
      <4> QED BY <3>1, <4>1
    <3>2. CASE p.key # r.key
      BY <3>2 DEF OneHistory, Entry
    <3> QED BY <3>1, <3>2
  <2>8. ASSUME NEW p \in last, NEW n \in 1..p.nr
        PROVE  \E q \in ops : q.key = p.key /\ q.nr = n
    <3>1. CASE p = r
      <4>1. n \in 1..v \/ n = r.nr
        BY <2>3, <2>8, <3>1
      <4> QED BY <2>3, <3>1, <4>1
    <3>2. CASE p \in f.last
      BY <2>8, <3>2 DEF OneHistory
    <3> QED BY <3>1, <3>2
  <2> HIDE DEF ops, last
  <2> QED BY <2>2, <2>4, <2>5, <2>6, <2>7, <2>8 DEF OneHistory
<1> QED BY <1>1, <1>2, <1>3 DEF Cmd

\* The first state.
LEMMA DataInit == Init => DataInv
<1> SUFFICES ASSUME Init PROVE DataInv
  OBVIOUS
<1>1. TypeOK
  BY FileTypes, DataAssumption DEF Init, TypeOK, Empty
<1>2. Content
  BY DataAssumption DEF Init, Content, MapIsOneHistory, OneHistory, Empty, Absent
<1>3. Synced
  BY DEF Init, Synced
<1> QED BY <1>1, <1>2, <1>3 DEF DataInv

-----------------------------------------------------------------------------
\* The types, action by action.
LEMMA DataTypes == DataInv /\ [Next]_vars => TypeOK'
<1> SUFFICES ASSUME DataInv, [Next]_vars PROVE TypeOK'
  OBVIOUS
<1> USE DataAssumption
<1> TypeOK
  BY DEF DataInv
<1> New \in Elder /\ Oldie \subseteq Elder
  BY DEF Elder
<1> USE FileTypes
<1> HIDE DEF File, Absent, Partial, Fresh, Written
<1>1. ASSUME NEW e \in Elder, NEW r \in Request, Put(e, r) PROVE TypeOK'
  <2> r.at \in Address /\ store[e][r.at] \in File
    BY DEF TypeOK
  <2>1. Written(store[e][r.at], r) \in File
    OBVIOUS
  <2> QED BY <1>1, <2>1 DEF Put, TypeOK, levels
<1>2. ASSUME NEW e \in Elder, NEW r \in Request, Delete(e, r) PROVE TypeOK'
  <2> r.at \in Address
    OBVIOUS
  <2> QED BY <1>2 DEF Delete, Undone, GoneAt, TypeOK, levels
<1>3. ASSUME NEW e \in Elder, NEW r \in Request, PutFails(e, r) PROVE TypeOK'
  <2> r.at \in Address /\ store[e][r.at] \in File
    BY DEF TypeOK
  <2> QED BY <1>3 DEF PutFails, Fail, Undone, GoneAt, TypeOK, levels
<1>4. CASE Promote \/ BecomeElder \/ LevelDown
  BY <1>4 DEF Promote, BecomeElder, level_up, LevelDown, TypeOK
<1>5. ASSUME NEW o \in Oldie, push_state(o) PROVE TypeOK'
  <2>1. get_data_of(o) \in [Address -> File]
    BY DEF get_data_of, TypeOK
  <2> QED BY <1>5, <2>1 DEF push_state, TypeOK
<1>6. ASSUME NEW o \in Oldie, SynchState(o) \/ FinishSync(o) PROVE TypeOK'
  BY <1>6 DEF SynchState, FinishSync, TypeOK
<1>7. ASSUME NEW o \in Oldie, NEW puts PROVE PutAll(o, puts) \in [Elder -> [Address -> File]]
  BY DEF PutAll, TypeOK
<1>8. ASSUME NEW o \in Oldie, update(o) PROVE TypeOK'
  <2>1. store' \in [Elder -> [Address -> File]]
    BY <1>7, <1>8 DEF update
  <2> QED BY <1>8, <2>1 DEF update, Kept, TypeOK
<1>9. ASSUME NEW o \in Oldie, UpdateFails(o) PROVE TypeOK'
  <2> PICK a \in InPacket(o), puts \in SUBSET InPacket(o) :
         /\ \E f \in {store[New][a], Absent, Partial} :
              store' = [PutAll(o, puts) EXCEPT ![New][a] = f]
         /\ accepted' = [accepted EXCEPT ![New] = {r \in Kept(o, puts) : r.at # a}]
         /\ gone' = gone \cup {a}
    BY <1>9 DEF UpdateFails
  <2> a \in Address
    BY DEF InPacket
  <2>1. store' \in [Elder -> [Address -> File]]
    <3>1. store[New][a] \in File
      BY DEF TypeOK
    <3> QED BY <1>7, <3>1
  <2>2. accepted' \in [Elder -> SUBSET Request]
    BY DEF Kept, TypeOK
  <2> QED BY <1>9, <2>1, <2>2 DEF UpdateFails, TypeOK
<1>10. CASE UNCHANGED vars
  BY <1>10 DEF vars, TypeOK
<1>11. clients \subseteq Request
  BY DEF TypeOK
<1> QED
  BY <1>11, <1>1, <1>2, <1>3, <1>4, <1>5, <1>6, <1>8, <1>9, <1>10 DEF Next, Write

-----------------------------------------------------------------------------
\* What the files hold, action by action.
LEMMA DataContent == DataInv /\ [Next]_vars => Content'
<1> SUFFICES ASSUME DataInv, [Next]_vars PROVE Content'
  OBVIOUS
<1> USE DataAssumption
<1> TypeOK /\ Content
  BY DEF DataInv
<1> New \in Elder /\ Oldie \subseteq Elder
  BY DEF Elder
<1> DEFINE Hollow(f) == f.state # "whole" => f.ops = {}
           Keeps(e) == \A r \in accepted'[e] :
                         r \in store'[e][r.at].ops /\ store'[e][r.at].state = "whole"
           Fine(a, f) == Hollow(f) /\ (a \in Sequenced => OneHistory(f))
<1>a. \A e \in Elder, a \in Address : Fine(a, store[e][a])
  BY DEF Content, MapIsOneHistory
<1>b. \A o \in Oldie, a \in Address : Fine(a, packet[o][a])
  BY DEF Content, MapIsOneHistory
<1>c. \A a \in Address : Fine(a, Absent) /\ Fine(a, Partial)
  BY DEF Absent, Partial, OneHistory
<1>d. ASSUME \A e \in Elder, a \in Address : Fine(a, store'[e][a]),
             \A o \in Oldie, a \in Address : Fine(a, packet'[o][a]),
             \A e \in Elder : Keeps(e)
      PROVE  Content'
  BY <1>d DEF Content, MapIsOneHistory
<1>e. ASSUME store' = store, packet' = packet, accepted' = accepted PROVE Content'
  BY <1>e DEF Content, MapIsOneHistory, OneHistory
<1>1. ASSUME NEW e \in Elder, NEW r \in Request, Put(e, r) PROVE Content'
  <2> DEFINE f == store[e][r.at]
  <2>1. r.at \in Address /\ f \in File /\ r.cmd \in Cmd
    BY DEF TypeOK
  <2>2. store' = [store EXCEPT ![e] = [@ EXCEPT ![r.at] = Written(f, r)]]
    BY <1>1 DEF Put
  <2>3. r.cmd # "Delete" /\ WriteError(f, r) = "none"
    BY <1>1 DEF Put
  <2>4. store' \in [Elder -> [Address -> File]] /\ packet' = packet
    BY <1>1, DataTypes DEF TypeOK, Put, levels
  <2>5. Written(f, r).state = "whole"
    <3>1. r.cmd # "New" => f.state = "whole"
      BY <2>1, <2>3 DEF WriteError, GetError, File
    <3> QED BY <2>1, <3>1 DEF Written, Apply, Fresh, Absent, File
  <2>6. Fine(r.at, Written(f, r))
    BY <1>a, <2>1, <2>3, <2>5, WrittenHistory
  <2>7. f.ops \subseteq Written(f, r).ops
    <3>1. r.cmd = "New" => f.ops = {}
      BY <1>a, <2>1, <2>3 DEF WriteError, CreateError
    <3> QED BY <2>1, <3>1 DEF Written, Apply, File
  <2>8. r.cmd = "Edit" => r \in Written(f, r).ops
    BY <2>1 DEF Written, Apply, File
  <2>9. \A d \in Elder, a \in Address : Fine(a, store'[d][a])
    <3> HIDE DEF Fine
    <3> QED BY <1>a, <2>1, <2>2, <2>6 DEF TypeOK
  <2>10. ASSUME NEW d \in Elder PROVE Keeps(d)
    <3> SUFFICES ASSUME NEW q \in accepted'[d]
                 PROVE q \in store'[d][q.at].ops /\ store'[d][q.at].state = "whole"
      OBVIOUS
    <3>1. q \in accepted[d] \/ (d = e /\ q = r /\ r.cmd = "Edit")
      BY <1>1 DEF Put, TypeOK
    <3>2. q.at \in Address
      BY <3>1 DEF TypeOK
    <3>3. q \in accepted[d] => q \in store[d][q.at].ops /\ store[d][q.at].state = "whole"
      BY DEF Content
    <3>4. store'[d][q.at] = IF d = e /\ q.at = r.at THEN Written(f, r) ELSE store[d][q.at]
      BY <2>1, <2>2, <3>2 DEF TypeOK
    <3> QED BY <2>5, <2>7, <2>8, <3>1, <3>3, <3>4
  <2> QED BY <1>b, <1>d, <2>4, <2>9, <2>10
\* A file replaced by one that is fine, with what was accepted there forgotten.
<1>2. ASSUME NEW e \in Elder, NEW x \in Address, NEW g, Fine(x, g),
             store' = [store EXCEPT ![e][x] = g], Undone(e, x), packet' = packet
      PROVE  Content'
  <2>1. \A d \in Elder, a \in Address :
          store'[d][a] = IF d = e /\ a = x THEN g ELSE store[d][a]
    BY <1>2 DEF TypeOK
  <2>2. \A d \in Elder, a \in Address : Fine(a, store'[d][a])
    <3> HIDE DEF Fine
    <3> QED BY <1>a, <1>2, <2>1
  <2>3. ASSUME NEW d \in Elder, NEW q \in accepted'[d]
        PROVE q \in store'[d][q.at].ops /\ store'[d][q.at].state = "whole"
    <3>1. q \in accepted[d] /\ (d = e => q.at # x)
      BY <1>2, <2>3 DEF Undone, TypeOK
    <3>2. q.at \in Address
      BY <3>1 DEF TypeOK
    <3>3. q \in store[d][q.at].ops /\ store[d][q.at].state = "whole"
      BY <3>1 DEF Content
    <3> QED BY <2>1, <3>1, <3>2, <3>3
  <2> QED BY <1>b, <1>d, <1>2, <2>2, <2>3
<1>3. ASSUME NEW e \in Elder, NEW r \in Request, Delete(e, r) PROVE Content'
  <2> HIDE DEF Fine, Undone
  <2> r.at \in Address
    OBVIOUS
  <2>1. store' = [store EXCEPT ![e][r.at] = Absent] /\ Undone(e, r.at) /\ packet' = packet
    BY <1>3 DEF Delete, levels
  <2> QED BY <1>2, <1>c, <2>1
<1>4. ASSUME NEW e \in Elder, NEW r \in Request, PutFails(e, r) PROVE Content'
  <2> HIDE DEF Fine, Undone
  <2> r.at \in Address
    OBVIOUS
  <2>1. PICK f \in {store[e][r.at], Absent, Partial} : store' = [store EXCEPT ![e][r.at] = f]
    BY <1>4 DEF PutFails, Fail
  <2>2. Fine(r.at, f)
    BY <1>a, <1>c
  <2>3. Undone(e, r.at) /\ packet' = packet
    BY <1>4 DEF PutFails, Fail, levels
  <2> QED BY <1>2, <2>1, <2>2, <2>3
<1>5. CASE Promote \/ BecomeElder \/ LevelDown
  BY <1>5, <1>e DEF Promote, BecomeElder, level_up, LevelDown
<1>6. ASSUME NEW o \in Oldie, SynchState(o) \/ FinishSync(o) PROVE Content'
  BY <1>6, <1>e DEF SynchState, FinishSync
<1>7. ASSUME NEW o \in Oldie, push_state(o) PROVE Content'
  <2>1. \A a \in Address : Fine(a, get_data_of(o)[a])
    <3> HIDE DEF Fine
    <3> QED BY <1>a, <1>c DEF get_data_of
  <2>2. \A p \in Oldie, a \in Address : Fine(a, packet'[p][a])
    <3> HIDE DEF Fine
    <3>1. packet' = [packet EXCEPT ![o] = get_data_of(o)]
      BY <1>7 DEF push_state
    <3> QED BY <1>b, <2>1, <3>1 DEF TypeOK
  <2>3. store' = store /\ accepted' = accepted
    BY <1>7 DEF push_state
  <2>4. \A e \in Elder : Keeps(e)
    BY <2>3 DEF Content
  <2>5. \A e \in Elder, a \in Address : Fine(a, store'[e][a])
    BY <1>a, <2>3
  <2> QED BY <1>d, <2>2, <2>4, <2>5
\* A push of which some is put.
<1>8. ASSUME NEW o \in Oldie, NEW puts \in SUBSET InPacket(o),
             NEW e \in Elder, NEW a \in Address
      PROVE  PutAll(o, puts)[e][a] =
               IF e = New /\ a \in puts THEN packet[o][a] ELSE store[e][a]
  BY DEF PutAll, TypeOK
<1>9. ASSUME NEW o \in Oldie, NEW puts \in SUBSET InPacket(o), NEW q \in Kept(o, puts)
      PROVE  /\ q.at \in Address
             /\ q \in PutAll(o, puts)[New][q.at].ops
             /\ PutAll(o, puts)[New][q.at].state = "whole"
  <2>1. q \in accepted[New] /\ (q.at \in puts => q \in packet[o][q.at].ops)
    BY DEF Kept
  <2>2. q.at \in Address
    BY <2>1 DEF TypeOK
  <2>3. q \in store[New][q.at].ops /\ store[New][q.at].state = "whole"
    BY <2>1 DEF Content
  <2>4. q.at \in puts => packet[o][q.at].state = "whole"
    BY DEF InPacket
  <2> QED BY <1>8, <2>1, <2>2, <2>3, <2>4
<1>10. ASSUME NEW o \in Oldie, update(o) PROVE Content'
  <2>1. store' = PutAll(o, InPacket(o)) /\ packet' = packet
        /\ accepted' = [accepted EXCEPT ![New] = Kept(o, InPacket(o))]
    BY <1>10 DEF update
  <2>2. \A e \in Elder, a \in Address : Fine(a, store'[e][a])
    <3> HIDE DEF Fine
    <3> QED BY <1>a, <1>b, <1>8, <2>1
  <2>3. ASSUME NEW d \in Elder, NEW q \in accepted'[d]
        PROVE q \in store'[d][q.at].ops /\ store'[d][q.at].state = "whole"
    <3>1. CASE d = New
      BY <1>9, <2>1, <2>3, <3>1 DEF TypeOK
    <3>2. CASE d # New
      <4>1. q \in accepted[d]
        BY <2>1, <2>3, <3>2 DEF TypeOK
      <4>2. q.at \in Address
        BY <4>1 DEF TypeOK
      <4>3. q \in store[d][q.at].ops /\ store[d][q.at].state = "whole"
        BY <4>1 DEF Content
      <4> QED BY <1>8, <2>1, <3>2, <4>2, <4>3
    <3> QED BY <3>1, <3>2
  <2> QED BY <1>b, <1>d, <2>1, <2>2, <2>3
<1>11. ASSUME NEW o \in Oldie, UpdateFails(o) PROVE Content'
  <2>1. PICK x \in InPacket(o), puts \in SUBSET InPacket(o) :
         /\ x \notin puts
         /\ \E f \in {store[New][x], Absent, Partial} :
              store' = [PutAll(o, puts) EXCEPT ![New][x] = f]
         /\ accepted' = [accepted EXCEPT ![New] = {r \in Kept(o, puts) : r.at # x}]
    BY <1>11 DEF UpdateFails
  <2>2. PICK f \in {store[New][x], Absent, Partial} :
              store' = [PutAll(o, puts) EXCEPT ![New][x] = f]
    BY <2>1
  <2>3. x \in Address /\ packet' = packet
    BY <1>11 DEF InPacket, UpdateFails
  <2>4. PutAll(o, puts) \in [Elder -> [Address -> File]]
    BY DEF PutAll, TypeOK
  <2>5. \A e \in Elder, a \in Address :
          store'[e][a] = IF e = New /\ a = x THEN f ELSE PutAll(o, puts)[e][a]
    BY <2>2, <2>3, <2>4
  <2>6. Fine(x, f)
    <3> HIDE DEF Fine
    <3> QED BY <1>a, <1>c, <2>3
  <2>7. \A e \in Elder, a \in Address : Fine(a, store'[e][a])
    <3> HIDE DEF Fine
    <3> QED BY <1>a, <1>b, <1>8, <2>5, <2>6
  <2>8. ASSUME NEW d \in Elder, NEW q \in accepted'[d]
        PROVE q \in store'[d][q.at].ops /\ store'[d][q.at].state = "whole"
    <3>1. CASE d = New
      <4>1. q \in Kept(o, puts) /\ q.at # x
        BY <2>1, <2>8, <3>1 DEF TypeOK
      <4> QED BY <1>9, <2>5, <3>1, <4>1
    <3>2. CASE d # New
      <4>1. q \in accepted[d]
        BY <2>1, <2>8, <3>2 DEF TypeOK
      <4>2. q.at \in Address
        BY <4>1 DEF TypeOK
      <4>3. q \in store[d][q.at].ops /\ store[d][q.at].state = "whole"
        BY <4>1 DEF Content
      <4> QED BY <1>8, <2>5, <3>2, <4>2, <4>3
    <3> QED BY <3>1, <3>2
  <2> QED BY <1>b, <1>d, <2>3, <2>7, <2>8
<1>12. CASE UNCHANGED vars
  BY <1>12, <1>e DEF vars
<1>13. clients \subseteq Request
  BY DEF TypeOK
<1> QED
  BY <1>13, <1>1, <1>3, <1>4, <1>5, <1>6, <1>7, <1>10, <1>11, <1>12 DEF Next, Write

-----------------------------------------------------------------------------
\* What a push has brought is there, action by action.
LEMMA DataSynced == DataInv /\ [Next]_vars => Synced'
<1> SUFFICES ASSUME DataInv, [Next]_vars PROVE Synced'
  OBVIOUS
<1> USE DataAssumption
<1> TypeOK /\ Content /\ Synced
  BY DEF DataInv
<1> New \in Elder /\ Oldie \subseteq Elder
  BY DEF Elder
\* A step that makes unreadable only what it counts as gone.
<1> DEFINE Safe == \A a \in Address \ gone' :
                     store[New][a].state = "whole" => store'[New][a].state = "whole"
<1>a. ASSUME NEW o \in Oldie, Covered(o), Safe, gone \subseteq gone', packet'[o] = packet[o]
      PROVE  Covered(o)'
  BY <1>a DEF Covered, InPacket
<1>b. ASSUME Safe, gone \subseteq gone', levels' = levels PROVE Synced'
  <2>1. \A o \in Oldie : Covered(o) => Covered(o)'
    BY <1>a, <1>b DEF levels
  <2> QED BY <1>b, <2>1 DEF Synced, levels
<1>1. ASSUME NEW e \in Elder, NEW r \in Request, Put(e, r) PROVE Synced'
  <2>1. r.at \in Address /\ store[e][r.at] \in File
    BY DEF TypeOK
  <2>2. Written(store[e][r.at], r).state = store[e][r.at].state
        \/ Written(store[e][r.at], r).state = "whole"
    BY <2>1 DEF Written, Apply, Fresh, Absent, File
  <2>3. Safe
    BY <1>1, <2>1, <2>2 DEF Put, TypeOK
  <2> QED BY <1>1, <1>b, <2>3 DEF Put, levels
<1>2. ASSUME NEW e \in Elder, NEW r \in Request, Delete(e, r) PROVE Synced'
  <2>1. Safe /\ gone \subseteq gone'
    BY <1>2 DEF Delete, GoneAt, TypeOK
  <2> QED BY <1>2, <1>b, <2>1 DEF Delete, levels
<1>3. ASSUME NEW e \in Elder, NEW r \in Request, PutFails(e, r) PROVE Synced'
  <2>1. PICK f : store' = [store EXCEPT ![e][r.at] = f]
    BY <1>3 DEF PutFails, Fail
  <2>2. gone' = IF e = New THEN gone \cup {r.at} ELSE gone
    BY <1>3 DEF PutFails, Fail, GoneAt
  <2>3. Safe /\ gone \subseteq gone'
    BY <2>1, <2>2 DEF TypeOK
  <2> QED BY <1>3, <1>b, <2>3 DEF PutFails, levels
<1>4. CASE Promote
  BY <1>4 DEF Promote, Synced, TypeOK
<1>5. CASE BecomeElder
  <2>1. \A o \in Oldie : task'[o] = task[o] /\ task[o] # "updated"
    BY <1>5 DEF BecomeElder, level_up, Synced
  <2>2. role' = "elder" /\ synced' # "yes"
    BY <1>5 DEF BecomeElder, level_up
  <2> QED BY <2>1, <2>2 DEF Synced
<1>6. CASE LevelDown
  <2>1. \A o \in Oldie : Covered(o)' <=> Covered(o)
    BY <1>6 DEF LevelDown, Covered, InPacket
  <2> QED BY <1>6, <2>1 DEF LevelDown, Synced
<1>7. ASSUME NEW o \in Oldie, push_state(o) PROVE Synced'
  <2>1. \A p \in Oldie : p # o => (Covered(p)' <=> Covered(p)) /\ task'[p] = task[p]
    BY <1>7 DEF push_state, Covered, InPacket, TypeOK
  <2>2. task[o] = "none" /\ task'[o] = "sent"
    BY <1>7 DEF push_state, TypeOK
  <2> QED BY <1>7, <2>1, <2>2 DEF push_state, Synced
<1>8. ASSUME NEW o \in Oldie, SynchState(o) PROVE Synced'
  <2>1. \A p \in Oldie : Covered(p)' <=> Covered(p)
    BY <1>8 DEF SynchState, Covered, InPacket
  <2>2. task[o] = "sent" /\ task'[o] \in {"checked", "done"}
        /\ (role = "promoted" => task'[o] = "done")
    BY <1>8 DEF SynchState, TypeOK
  <2>3. \A p \in Oldie : p # o => task'[p] = task[p]
    BY <1>8 DEF SynchState, TypeOK
  <2> QED BY <1>8, <2>1, <2>2, <2>3 DEF SynchState, Synced
<1>9. ASSUME NEW o \in Oldie, NEW puts \in SUBSET InPacket(o), NEW a \in Address
      PROVE  PutAll(o, puts)[New][a] =
               IF a \in puts THEN packet[o][a] ELSE store[New][a]
  BY DEF PutAll, TypeOK
<1>10. ASSUME NEW o \in Oldie, update(o) PROVE Synced'
  <2>1. store' = PutAll(o, InPacket(o)) /\ packet' = packet /\ gone' = gone
    BY <1>10 DEF update
  <2>2. Safe
    BY <1>9, <2>1 DEF InPacket
  <2>3. \A p \in Oldie : Covered(p) => Covered(p)'
    BY <1>a, <2>1, <2>2
  <2>4. Covered(o)'
    BY <1>9, <2>1 DEF Covered, InPacket
  <2>5. \A p \in Oldie : p # o => task'[p] = task[p]
    BY <1>10 DEF update, TypeOK
  <2>6. task[o] = "checked" /\ task'[o] = "updated" /\ role' = role /\ synced' = synced
    BY <1>10 DEF update, TypeOK
  <2> QED BY <2>3, <2>4, <2>5, <2>6 DEF Synced
<1>11. ASSUME NEW o \in Oldie, UpdateFails(o) PROVE Synced'
  <2>1. PICK x \in InPacket(o), puts \in SUBSET InPacket(o) :
         /\ \E f : store' = [PutAll(o, puts) EXCEPT ![New][x] = f]
         /\ gone' = gone \cup {x}
    BY <1>11 DEF UpdateFails
  <2>2. PutAll(o, puts) \in [Elder -> [Address -> File]]
    BY DEF PutAll, TypeOK
  <2>3. Safe
    BY <1>9, <2>1, <2>2 DEF InPacket
  <2>4. \A p \in Oldie : Covered(p) => Covered(p)'
    <3>1. packet' = packet
      BY <1>11 DEF UpdateFails
    <3> QED BY <1>a, <2>1, <2>3, <3>1
  <2>5. \A p \in Oldie : p # o => task'[p] = task[p]
    BY <1>11 DEF UpdateFails, TypeOK
  <2>6. task[o] = "checked" /\ task'[o] = "done" /\ role' = role /\ synced' = synced
    BY <1>11 DEF UpdateFails, TypeOK
  <2> QED BY <2>4, <2>5, <2>6 DEF Synced
<1>12. ASSUME NEW o \in Oldie, FinishSync(o) PROVE Synced'
  <2>1. \A p \in Oldie : Covered(p)' <=> Covered(p)
    BY <1>12 DEF FinishSync, Covered, InPacket
  <2>2. task[o] = "updated" /\ task'[o] = "done" /\ role' = role
    BY <1>12 DEF FinishSync, TypeOK
  <2>3. \A p \in Oldie : p # o => task'[p] = task[p]
    BY <1>12 DEF FinishSync, TypeOK
  <2> QED BY <2>1, <2>2, <2>3 DEF Synced
<1>13. CASE UNCHANGED vars
  <2>1. \A p \in Oldie : Covered(p)' <=> Covered(p)
    BY <1>13 DEF vars, Covered, InPacket
  <2> QED BY <1>13, <2>1 DEF vars, Synced
<1>14. clients \subseteq Request
  BY DEF TypeOK
<1> QED
  BY <1>14, <1>1, <1>2, <1>3, <1>4, <1>5, <1>6, <1>7, <1>8, <1>10, <1>11, <1>12, <1>13
  DEF Next, Write

-----------------------------------------------------------------------------
\* The inductive invariant holds in every state.
THEOREM DataInvariant == Spec => []DataInv
<1>1. DataInv /\ [Next]_vars => DataInv'
  BY DataTypes, DataContent, DataSynced DEF DataInv
<1> QED BY <1>1, DataInit, PTL DEF Spec

\* Whatever requests arrive in whatever order (write of the three storages),
\* an edit taken without an error is what the owner reads (get).
THEOREM AcceptedEditsAreRead == Spec => []AcceptedIsRead
<1>1. DataInv => AcceptedIsRead
  <2> SUFFICES ASSUME DataInv, NEW e \in Elder, NEW r \in accepted[e]
               PROVE r \in read(e, r.at, Owner[r.at], "Get", r.by).value
    BY DEF AcceptedIsRead
  <2>1. r \in store[e][r.at].ops /\ store[e][r.at].state = "whole"
    BY DEF DataInv, Content
  <2>2. get_chunk(e, r.at, Owner[r.at]) = "none"
    BY <2>1 DEF get_chunk, GetError, MayRead
  <2>3. read(e, r.at, Owner[r.at], "Get", r.by) = Ok(store[e][r.at].ops)
    BY <2>2 DEF read, SequenceQuery, RegisterQuery, MapEntries
  <2> QED BY <2>1, <2>3 DEF Ok
<1> QED BY <1>1, DataInvariant, PTL

\* Every entry of a sequenced map, at an elder and in a push, has one history,
\* whatever requests and pushes go where (edit_entries, update).
THEOREM MapsAreOneHistory == Spec => []MapIsOneHistory
<1>1. DataInv => MapIsOneHistory
  BY DEF DataInv, Content
<1> QED BY <1>1, DataInvariant, PTL

\* But for the first elders of a network, received_initial_sync is set only
\* with the maps and sequences of a push in place (synch_state, update).
THEOREM SyncBringsTheData == Spec => []SyncedHoldsTheData
<1>1. DataInv => SyncedHoldsTheData
  BY DEF DataInv, Synced, SyncedHoldsTheData, Covered
<1> QED BY <1>1, DataInvariant, PTL

\* In every state the files, packets and stints of the elders keep their types.
THEOREM TypeCorrect == Spec => []TypeOK
<1>1. DataInv => TypeOK
  BY DEF DataInv
<1> QED BY <1>1, DataInvariant, PTL
=============================================================================
