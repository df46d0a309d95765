------------------------- MODULE TransferFilesProofs -------------------------
(***************************************************************************)
(* Proofs about TransferFiles, for any number of tasks, workers, roles and *)
(* crashes.  A stored event is lost from the file only if another db was   *)
(* open or a load failed, and the tasks of a role share one db.            *)
(***************************************************************************)
EXTENDS TransferFiles, TLAPS

Pc == {"new", "guard", "sign", "block", "load", "got", "done"}

Shape ==
  /\ pc \in [Task -> Pc]
  /\ last \in Nat /\ last <= MaxRole /\ role \in Nat /\ role <= last
  /\ of \in [Task -> Nat] /\ \A t \in Task : of[t] <= last
  /\ open \subseteq Roles
  /\ db \in [Roles -> SUBSET Task]
  /\ spare \in [Task -> SUBSET Task]
  /\ stored \subseteq Task /\ file \subseteq Task

\* A task that has a store has the one in the map of its role.
Held ==
  \A t \in Task :
    /\ pc[t] \notin {"new", "done"} => of[t] # 0
    /\ pc[t] \in {"guard", "sign", "got"} => of[t] \in open
    /\ t \in stored => pc[t] = "done"

\* Whatever may be written to the file has all events but those at risk.
Complete ==
  /\ stored \ file \subseteq risked
  /\ \A r \in open : stored \ db[r] \subseteq risked
  /\ \A t \in Task : pc[t] = "load" => stored \ spare[t] \subseteq risked

\* A role that stored an event has its db for as long as tasks may ask for it.
Kept ==
  \A t \in stored :
    /\ of[t] \in open => t \in db[of[t]]
    /\ of[t] = role /\ role # 0 /\ ours = "yes" => role \in open
    /\ \A u \in Active(of[t]) : of[t] \in open

FilesInv == Shape /\ Held /\ Complete /\ Kept

LEMMA FilesInit == Init => FilesInv
BY FilesAssumption
   DEF Init, FilesInv, Shape, Held, Complete, Kept, Pc, Roles, Task, Active

\* A stored task is not active, and an active one has a role.
LEMMA ActiveFacts ==
  ASSUME FilesInv, NEW t \in Task, pc[t] \notin {"new", "done"}
  PROVE  /\ of[t] \in Roles /\ t \in Active(of[t]) /\ t \notin stored
         /\ (pc[t] \in {"guard", "sign", "got"} => of[t] \in open)
<1>1. of[t] # 0 /\ of[t] \in Nat /\ of[t] <= last /\ last \in Nat /\ last <= MaxRole
  BY DEF FilesInv, Held, Shape
<1>2. of[t] \in Roles
  BY <1>1, FilesAssumption DEF Roles
<1> QED
  BY <1>2 DEF FilesInv, Held, Active

LEMMA InsertKeeps ==
  ASSUME FilesInv, NEW t \in Task, Insert(t, of[t]),
         pc[t] \in {"sign", "got"}
  PROVE  FilesInv'
<1> DEFINE r == of[t]
<1>0. /\ r \in Roles /\ t \in Active(r) /\ t \notin stored /\ r \in open
  BY ActiveFacts
<1>1. /\ pc' = [pc EXCEPT ![t] = "done"]
      /\ of' = of /\ spare' = spare /\ role' = role /\ last' = last /\ ours' = ours
      /\ db' = [db EXCEPT ![r] = @ \cup {t}] /\ file' = db'[r]
      /\ open' = (IF r # role /\ Active(r) = {t} THEN open \ {r} ELSE open)
      /\ stored' = stored \cup {t}
      /\ risked' = (IF Rivals(r) THEN risked \cup {t} ELSE risked)
  BY DEF Insert, Finish, Go, levels
<1>2. Shape'
  BY <1>0, <1>1 DEF FilesInv, Shape, Pc
<1>3. \A u \in Task : u # t => pc'[u] = pc[u]
  BY <1>1 DEF FilesInv, Shape
<1>4. pc'[t] = "done"
  BY <1>1 DEF FilesInv, Shape
<1>5. \A q \in Roles : q # r => db'[q] = db[q]
  BY <1>0, <1>1 DEF FilesInv, Shape
<1>6. db'[r] = db[r] \cup {t}
  BY <1>0, <1>1 DEF FilesInv, Shape
<1>7. Held'
  <2> SUFFICES ASSUME NEW u \in Task
               PROVE  /\ pc'[u] \notin {"new", "done"} => of'[u] # 0
                      /\ pc'[u] \in {"guard", "sign", "got"} => of'[u] \in open'
                      /\ u \in stored' => pc'[u] = "done"
    BY DEF Held
  <2>1. CASE u = t
    BY <2>1, <1>4
  <2>2. CASE u # t /\ pc[u] \in {"new", "done"}
    BY <2>2, <1>3, <1>1 DEF FilesInv, Held
  <2>3. CASE u # t /\ pc[u] \notin {"new", "done"}
    <3>1. u \in Active(of[u]) /\ u \notin stored
          /\ (pc[u] \in {"guard", "sign", "got"} => of[u] \in open)
      BY <2>3, ActiveFacts
    <3>2. of[u] \in open => of[u] \in open'
      BY <3>1, <2>3, <1>1
    <3> QED
      BY <3>1, <3>2, <2>3, <1>1, <1>3 DEF FilesInv, Held
  <2> QED
    BY <2>1, <2>2, <2>3
<1>8. Complete'
  <2>1. stored \ db[r] \subseteq risked
    BY <1>0 DEF FilesInv, Complete
  <2>2. stored' \ file' \subseteq risked'
    BY <2>1, <1>1, <1>6
  <2>3. ASSUME NEW q \in open' PROVE stored' \ db'[q] \subseteq risked'
    <3>1. CASE q = r
      BY <3>1, <2>1, <1>1, <1>6
    <3>2. CASE q # r
      <4>1. q \in open /\ Rivals(r)
        BY <3>2, <1>1 DEF Rivals
      <4>2. db'[q] = db[q]
        BY <4>1, <3>2, <1>5 DEF FilesInv, Shape
      <4> QED
        BY <4>1, <4>2, <1>1 DEF FilesInv, Complete
    <3> QED
      BY <3>1, <3>2
  <2>4. ASSUME NEW u \in Task, pc'[u] = "load"
        PROVE  stored' \ spare'[u] \subseteq risked'
    <3>1. pc[u] = "load"
      BY <2>4, <1>3, <1>4
    <3>2. Rivals(r)
      BY <3>1 DEF Rivals
    <3> QED
      BY <3>1, <3>2, <1>1 DEF FilesInv, Complete
  <2> QED
    BY <2>2, <2>3, <2>4 DEF Complete
<1>9. Kept'
  <2>1. ASSUME NEW q PROVE Active(q)' \subseteq Active(q)
    BY <1>1, <1>3, <1>4 DEF Active
  <2>2. t \notin Active(r)'
    BY <1>4 DEF Active
  <2> SUFFICES ASSUME NEW u \in stored'
               PROVE  /\ of'[u] \in open' => u \in db'[of'[u]]
                      /\ of'[u] = role' /\ role' # 0 /\ ours' = "yes" => role' \in open'
                      /\ \A v \in Active(of[u])' : of[u] \in open'
    BY <1>1 DEF Kept, Active
  <2>3. u \in Task
    BY <1>1 DEF FilesInv, Shape
  <2>4. CASE of[u] = r
    <3>1. of'[u] \in open' => u \in db'[of'[u]]
      BY <2>4, <1>0, <1>1, <1>6 DEF FilesInv, Kept
    <3>2. role = r => r \in open'
      BY <1>0, <1>1
    <3>3. \A v \in Active(r)' : r \in open'
      BY <2>1, <2>2, <1>0, <1>1
    <3> QED
      BY <3>1, <3>2, <3>3, <2>4, <1>1
  <2>5. CASE of[u] # r
    <3>1. u \in stored /\ (of[u] \in open <=> of[u] \in open')
      BY <2>5, <1>1
    <3>2. of[u] \in open => db'[of[u]] = db[of[u]]
      BY <2>5, <1>5 DEF FilesInv, Shape
    <3>3. of'[u] \in open' => u \in db'[of'[u]]
      BY <3>1, <3>2, <1>1 DEF FilesInv, Kept
    <3>4. of[u] = role /\ role # 0 /\ ours = "yes" => role \in open
      BY <3>1 DEF FilesInv, Kept
    <3>5. \A v \in Active(of[u])' : of[u] \in open
      <4>1. Active(of[u])' \subseteq Active(of[u])
        BY <1>1, <1>3, <1>4 DEF Active
      <4> QED
        BY <4>1, <3>1 DEF FilesInv, Kept
    <3>6. of'[u] = role' /\ role' # 0 /\ ours' = "yes" => role' \in open'
      BY <3>1, <3>4, <1>1
    <3>7. \A v \in Active(of[u])' : of[u] \in open'
      BY <3>1, <3>5
    <3> QED
      BY <3>3, <3>6, <3>7
  <2> QED
    BY <2>4, <2>5
<1> QED
  BY <1>2, <1>7, <1>8, <1>9 DEF FilesInv

\* A task ends with nothing stored, and finds or leaves a file that has all
\* events but those at risk.
LEMMA EndKeeps ==
  ASSUME FilesInv, NEW t \in Task, pc[t] \notin {"new", "done"}, Finish(t),
         NEW found \in SUBSET Task, DropRole(of[t], Active(of[t]) \ {t}, found),
         db' = db, stored' = stored, risked \subseteq risked',
         stored \ found \subseteq risked'
  PROVE  FilesInv'
<1> DEFINE r == of[t]
<1>0. /\ r \in Roles /\ t \in Active(r) /\ t \notin stored
  BY ActiveFacts
<1>1. /\ pc' = [pc EXCEPT ![t] = "done"]
      /\ of' = of /\ spare' = spare /\ role' = role /\ last' = last /\ ours' = ours
      /\ IF r \in open /\ role # r /\ Active(r) \ {t} = {}
         THEN open' = open \ {r} /\ file' = db[r]
         ELSE open' = open /\ file' = found
  BY DEF DropRole, Finish, Go, levels
<1>2. Shape'
  <2>1. file' \subseteq Task /\ open' \subseteq Roles
    BY <1>0, <1>1 DEF FilesInv, Shape
  <2>2. pc' \in [Task -> Pc]
    BY <1>1 DEF FilesInv, Shape, Pc
  <2> QED
    BY <2>1, <2>2, <1>1 DEF FilesInv, Shape
<1>3. pc'[t] = "done" /\ \A u \in Task : u # t => pc'[u] = pc[u]
  BY <1>1 DEF FilesInv, Shape
<1>4. ASSUME NEW q PROVE Active(q)' = Active(q) \ {t}
  BY <1>1, <1>3 DEF Active
<1>5. Held'
  <2> SUFFICES ASSUME NEW u \in Task
               PROVE  /\ pc'[u] \notin {"new", "done"} => of'[u] # 0
                      /\ pc'[u] \in {"guard", "sign", "got"} => of'[u] \in open'
                      /\ u \in stored' => pc'[u] = "done"
    BY DEF Held
  <2>1. CASE u = t
    BY <2>1, <1>3
  <2>2. CASE u # t /\ pc[u] \in {"new", "done"}
    BY <2>2, <1>3, <1>1 DEF FilesInv, Held
  <2>3. CASE u # t /\ pc[u] \notin {"new", "done"}
    <3>1. u \in Active(of[u]) /\ u \notin stored
          /\ (pc[u] \in {"guard", "sign", "got"} => of[u] \in open)
      BY <2>3, ActiveFacts
    <3>2. of[u] \in open => of[u] \in open'
      BY <3>1, <2>3, <1>1
    <3> QED
      BY <3>1, <3>2, <2>3, <1>1, <1>3 DEF FilesInv, Held
  <2> QED
    BY <2>1, <2>2, <2>3
<1>6. Complete'
  <2>1. stored \ file' \subseteq risked'
    BY <1>1 DEF FilesInv, Complete
  <2>2. ASSUME NEW q \in open' PROVE stored \ db[q] \subseteq risked'
    BY <1>1 DEF FilesInv, Complete
  <2>3. ASSUME NEW u \in Task, pc'[u] = "load" PROVE stored \ spare[u] \subseteq risked'
    BY <2>3, <1>3 DEF FilesInv, Complete
  <2> QED
    BY <1>1, <2>1, <2>2, <2>3 DEF Complete
<1>7. Kept'
  <2> SUFFICES ASSUME NEW u \in stored
               PROVE  /\ of[u] \in open' => u \in db[of[u]]
                      /\ of[u] = role /\ role # 0 /\ ours = "yes" => role \in open'
                      /\ \A v \in Active(of[u])' : of[u] \in open'
    BY <1>1 DEF Kept, Active
  <2>1. \A v \in Active(of[u])' : of[u] \in open'
    BY <1>0, <1>1, <1>4 DEF FilesInv, Kept
  <2> QED
    BY <2>1, <1>1 DEF FilesInv, Kept
<1> QED
  BY <1>2, <1>5, <1>6, <1>7 DEF FilesInv

LEMMA RefuseKeeps ==
  ASSUME FilesInv, NEW t \in Task, Refuse(t), pc[t] \notin {"new", "done"}
  PROVE  FilesInv'
<1>1. file \in SUBSET Task /\ stored \ file \subseteq risked
  BY DEF FilesInv, Shape, Complete
<1>2. /\ Finish(t) /\ DropRole(of[t], Active(of[t]) \ {t}, file)
      /\ db' = db /\ stored' = stored /\ risked' = risked
  BY DEF Refuse
<1> QED
  BY <1>1, <1>2, EndKeeps

\* The steps that move a task before it has stored anything.
LEMMA MoveKeeps ==
  ASSUME FilesInv, NEW t \in Task, NEW to \in Pc \ {"new"},
         pc' = [pc EXCEPT ![t] = to],
         role' = role, last' = last, ours' = ours,
         stored' = stored, risked \subseteq risked',
         \/ file' = file
         \/ file' = spare[t] /\ pc[t] = "load"
         \/ file' = {} /\ stored \subseteq risked',
         of' \in [Task -> Nat], of'[t] \in 0..last,
         \A u \in Task : u # t => of'[u] = of[u],
         spare' \in [Task -> SUBSET Task],
         \A u \in Task : u # t => spare'[u] = spare[u],
         to = "load" => stored \ spare'[t] \subseteq risked',
         open' = open \cup {of[t]} \/ open' = open,
         open' # open => pc[t] = "load",
         db' \in [Roles -> SUBSET Task],
         \A q \in open : db'[q] = db[q],
         \A q \in open' \ open : db'[q] = spare[t],
         to \in {"guard", "sign", "got"} => of'[t] \in open',
         to # "done" => of'[t] # 0,
         pc[t] # "done", to # "done" /\ pc[t] = "new" => of'[t] = role /\ ours = "yes",
         pc[t] # "new" => of'[t] = of[t]
  PROVE  FilesInv'
<1>1. pc'[t] = to /\ \A u \in Task : u # t => pc'[u] = pc[u]
  BY DEF FilesInv, Shape
<1>2. t \notin stored
  BY DEF FilesInv, Held
<1>3. pc[t] = "load" => of[t] \in Roles /\ t \in Active(of[t])
  BY ActiveFacts
<1>4. Shape'
  <2>1. open' \subseteq Roles
    BY <1>3 DEF FilesInv, Shape
  <2>2. \A u \in Task : of'[u] <= last
    BY DEF FilesInv, Shape
  <2>3. pc' \in [Task -> Pc]
    BY DEF FilesInv, Shape
  <2> QED
    BY <2>1, <2>2, <2>3 DEF FilesInv, Shape
<1>5. Held'
  BY <1>1, <1>2 DEF FilesInv, Held
<1>6. Complete'
  BY <1>1 DEF FilesInv, Complete
<1>7. Kept'
  <2> SUFFICES ASSUME NEW u \in stored
               PROVE  /\ of'[u] \in open' => u \in db'[of'[u]]
                      /\ of'[u] = role /\ role # 0 /\ ours = "yes" => role \in open'
                      /\ \A v \in Active(of[u])' : of[u] \in open'
    <3>1. \A u \in stored : of'[u] = of[u]
      BY <1>2 DEF FilesInv, Shape
    <3> QED
      BY <3>1 DEF Kept, Active
  <2>1. u \in Task /\ u # t /\ of'[u] = of[u]
    BY <1>2 DEF FilesInv, Shape
  <2>2. of[u] \in open' => of[u] \in open
    BY <1>3 DEF FilesInv, Kept
  <2>3. of'[u] \in open' => u \in db'[of'[u]]
    BY <2>1, <2>2 DEF FilesInv, Kept
  <2>4. of'[u] = role /\ role # 0 /\ ours = "yes" => role \in open'
    BY <2>1 DEF FilesInv, Kept
  <2>5. ASSUME NEW v \in Active(of[u])' PROVE of[u] \in open'
    <3>0. v \in Task /\ of'[v] = of[u] /\ pc'[v] \notin {"new", "done"}
      BY <2>5, <2>1 DEF Active
    <3>1. CASE v # t \/ pc[t] # "new"
      <4>1. v \in Active(of[u])
        BY <3>0, <3>1, <1>1 DEF Active
      <4> QED
        BY <4>1 DEF FilesInv, Kept
    <3>2. CASE v = t /\ pc[t] = "new"
      <4>1. of[u] = role /\ role # 0 /\ ours = "yes"
        BY <3>0, <3>2, <1>1
      <4> QED
        BY <4>1 DEF FilesInv, Kept
    <3> QED
      BY <3>1, <3>2
  <2> QED
    BY <2>3, <2>4, <2>5
<1> QED
  BY <1>4, <1>5, <1>6, <1>7 DEF FilesInv

\* The steps that drop the dbs of roles without a task.
LEMMA DropKeeps ==
  ASSUME FilesInv,
         pc' \in [Task -> Pc],
         \A t \in Task : pc'[t] = pc[t] \/ (pc'[t] = "done" /\ pc[t] # "new"),
         of' = of, spare' = spare, db' = db, stored' = stored, risked' = risked,
         last' \in Nat, last <= last', last' <= MaxRole, role' \in Nat, role' <= last',
         role' \in {0, role} \/ last < role',
         ours' = ours \/ ours' = "no",
         open' \subseteq open, \A r \in open \ open' : Active(r)' = {},
         ours' = "yes" /\ role' = role => open' = open,
         file' = file \/ \E r \in open : file' = db[r]
  PROVE  FilesInv'
<1>1. Shape'
  <2>1. \A t \in Task : of[t] <= last'
    BY DEF FilesInv, Shape
  <2> QED
    BY <2>1 DEF FilesInv, Shape
<1>2. Held'
  <2> SUFFICES ASSUME NEW t \in Task
               PROVE  /\ pc'[t] \notin {"new", "done"} => of[t] # 0
                      /\ pc'[t] \in {"guard", "sign", "got"} => of[t] \in open'
                      /\ t \in stored => pc'[t] = "done"
    BY DEF Held
  <2>1. pc'[t] \in {"guard", "sign", "got"} => of[t] \in open /\ t \in Active(of[t])'
    BY DEF FilesInv, Held, Active
  <2> QED
    BY <2>1 DEF FilesInv, Held
<1>3. Complete'
  BY DEF FilesInv, Complete
<1>4. Kept'
  <2> SUFFICES ASSUME NEW t \in stored
               PROVE  /\ of[t] \in open' => t \in db[of[t]]
                      /\ of[t] = role' /\ role' # 0 /\ ours' = "yes" => role' \in open'
                      /\ \A u \in Active(of[t])' : of[t] \in open'
    BY DEF Kept, Active
  <2>1. of[t] \in Nat /\ of[t] <= last /\ last \in Nat
    BY DEF FilesInv, Shape
  <2>2. of[t] = role' /\ role' # 0 => role' = role
    BY <2>1
  <2>3. of[t] = role' /\ role' # 0 /\ ours' = "yes" => role' \in open'
    BY <2>2 DEF FilesInv, Kept
  <2>4. \A u \in Active(of[t])' : of[t] \in open'
    <3>1. Active(of[t])' \subseteq Active(of[t])
      BY DEF Active
    <3> QED
      BY <3>1 DEF FilesInv, Kept, Active
  <2> QED
    BY <2>3, <2>4 DEF FilesInv, Kept
<1> QED
  BY <1>1, <1>2, <1>3, <1>4 DEF FilesInv

LEMMA FilesStep == FilesInv /\ [Next]_vars => FilesInv'
<1> SUFFICES ASSUME FilesInv, [Next]_vars PROVE FilesInv'
  OBVIOUS
<1>1. ASSUME NEW t \in Task, GetStore(t) PROVE FilesInv'
  <2>1. role \in Nat /\ role <= last /\ last \in Nat /\ of \in [Task -> Nat]
    BY DEF FilesInv, Shape
  <2>2. /\ {"guard", "done"} \subseteq Pc \ {"new"} /\ pc[t] = "new"
        /\ pc' = [pc EXCEPT ![t] = IF role \in open THEN "guard" ELSE "done"]
    BY <1>1 DEF GetStore, Go, Pc
  <2>3. of' = [of EXCEPT ![t] = role]
    BY <1>1 DEF GetStore
  <2>4. of' \in [Task -> Nat] /\ of'[t] = role /\ of'[t] \in 0..last
        /\ \A u \in Task : u # t => of'[u] = of[u]
    BY <2>1, <2>3
  <2>5. UNCHANGED <<spare, file, open, db, stored, risked, role, last, ours>>
        /\ role # 0 /\ ours = "yes"
    BY <1>1 DEF GetStore, handles, levels
  <2>6. spare \in [Task -> SUBSET Task] /\ db \in [Roles -> SUBSET Task]
    BY DEF FilesInv, Shape
  <2>7. CASE role \in open
    <3>1. pc' = [pc EXCEPT ![t] = "guard"]
      BY <2>2, <2>7
    <3> QED
      BY <3>1, <2>2, <2>4, <2>5, <2>6, <2>7, MoveKeeps
  <2>8. CASE role \notin open
    <3>1. pc' = [pc EXCEPT ![t] = "done"]
      BY <2>2, <2>8
    <3> QED
      BY <3>1, <2>2, <2>4, <2>5, <2>6, MoveKeeps
  <2> QED
    BY <2>7, <2>8
<1>2. ASSUME NEW t \in Task, GetEntry(t) PROVE FilesInv'
  <2>1. role \in Nat /\ role <= last /\ last \in Nat /\ of \in [Task -> Nat]
    BY DEF FilesInv, Shape
  <2>2. "block" \in Pc \ {"new"} /\ pc' = [pc EXCEPT ![t] = "block"] /\ pc[t] = "new"
    BY <1>2 DEF GetEntry, Go, Pc
  <2>3. of' = [of EXCEPT ![t] = role]
    BY <1>2 DEF GetEntry
  <2>4. of' \in [Task -> Nat] /\ of'[t] = role /\ of'[t] \in 0..last
        /\ \A u \in Task : u # t => of'[u] = of[u]
    BY <2>1, <2>3
  <2>5. UNCHANGED <<spare, file, open, db, stored, risked, role, last, ours>>
        /\ role # 0 /\ ours = "yes"
    BY <1>2 DEF GetEntry, handles, levels
  <2>6. spare \in [Task -> SUBSET Task] /\ db \in [Roles -> SUBSET Task]
    BY DEF FilesInv, Shape
  <2> QED
    BY <2>1, <2>2, <2>4, <2>5, <2>6, MoveKeeps
<1>3. ASSUME NEW t \in Task, LockToSign(t) PROVE FilesInv'
  <2>1. CASE Refuse(t)
    BY <2>1, <1>3, RefuseKeeps DEF LockToSign
  <2>2. CASE Go(t, "sign") /\ UNCHANGED <<handles, of, spare, levels>>
    <3>1. "sign" \in Pc \ {"new"} /\ pc' = [pc EXCEPT ![t] = "sign"] /\ pc[t] = "guard"
      BY <1>3, <2>2 DEF LockToSign, Go, Pc
    <3>2. UNCHANGED <<of, spare, file, open, db, stored, risked, role, last, ours>>
      BY <2>2 DEF handles, levels
    <3>3. of[t] \in open /\ of[t] # 0
      BY <3>1 DEF FilesInv, Held
    <3>4. /\ of \in [Task -> Nat] /\ of[t] \in 0..last
          /\ spare \in [Task -> SUBSET Task] /\ db \in [Roles -> SUBSET Task]
      BY DEF FilesInv, Shape
    <3> QED
      BY <3>1, <3>2, <3>3, <3>4, MoveKeeps
  <2> QED
    BY <2>1, <2>2, <1>3 DEF LockToSign
<1>4. ASSUME NEW t \in Task, Signed(t) PROVE FilesInv'
  BY <1>4, InsertKeeps, RefuseKeeps DEF Signed
<1>5. ASSUME NEW t \in Task, LoadSpare(t) PROVE FilesInv'
  <2>1. "load" \in Pc \ {"new"} /\ pc' = [pc EXCEPT ![t] = "load"] /\ pc[t] = "block"
    BY <1>5 DEF LoadSpare, ShardFree, Go, Pc
  <2>2. UNCHANGED <<of, file, open, db, stored, risked, role, last, ours>>
        /\ spare' = [spare EXCEPT ![t] = file]
    BY <1>5 DEF LoadSpare, handles, levels
  <2>3. of[t] # 0
    BY <2>1 DEF FilesInv, Held
  <2>4. /\ of \in [Task -> Nat] /\ of[t] \in 0..last
        /\ spare \in [Task -> SUBSET Task] /\ db \in [Roles -> SUBSET Task]
    BY DEF FilesInv, Shape
  <2>5. /\ spare' \in [Task -> SUBSET Task] /\ spare'[t] = file
        /\ \A u \in Task : u # t => spare'[u] = spare[u]
    BY <2>2, <2>4 DEF FilesInv, Shape
  <2>6. stored \ spare'[t] \subseteq risked
    BY <2>5 DEF FilesInv, Complete
  <2> QED
    BY <2>1, <2>2, <2>3, <2>4, <2>5, <2>6, MoveKeeps
<1>6. ASSUME NEW t \in Task, OrInsert(t) PROVE FilesInv'
  <2>1. "got" \in Pc \ {"new"} /\ pc' = [pc EXCEPT ![t] = "got"] /\ pc[t] = "load"
    BY <1>6 DEF OrInsert, Go, Pc
  <2>2. UNCHANGED <<of, spare, stored, risked, role, last, ours>>
    BY <1>6 DEF OrInsert, levels
  <2>3. of[t] # 0 /\ of[t] \in Roles
    BY <2>1, ActiveFacts DEF FilesInv, Held
  <2>4. /\ of \in [Task -> Nat] /\ of[t] \in 0..last
        /\ spare \in [Task -> SUBSET Task] /\ db \in [Roles -> SUBSET Task]
        /\ open \subseteq Roles
    BY DEF FilesInv, Shape
  <2>5. CASE of[t] \in open
    <3>1. file' = spare[t] /\ open' = open /\ db' = db
      BY <2>5, <1>6 DEF OrInsert
    <3> QED
      BY <3>1, <2>1, <2>2, <2>3, <2>4, <2>5, MoveKeeps
  <2>6. CASE of[t] \notin open
    <3>1. /\ file' = file /\ open' = open \cup {of[t]}
          /\ db' = [db EXCEPT ![of[t]] = spare[t]]
      BY <2>6, <1>6 DEF OrInsert
    <3>2. /\ db' \in [Roles -> SUBSET Task] /\ db'[of[t]] = spare[t]
          /\ \A q \in open : db'[q] = db[q]
      BY <3>1, <2>3, <2>4, <2>6
    <3>3. \A q \in open' \ open : db'[q] = spare[t]
      BY <3>1, <3>2
    <3> QED
      BY <3>1, <3>2, <3>3, <2>1, <2>2, <2>3, <2>4, MoveKeeps
  <2> QED
    BY <2>5, <2>6
<1>a. ASSUME NEW t \in Task, LoadFails(t) PROVE FilesInv'
  <2>1. /\ pc[t] = "block" /\ db' = db /\ stored' = stored
        /\ risked' = risked \cup stored
    BY <1>a DEF LoadFails, ShardFree
  <2>2. CASE /\ file' = {} /\ spare' = [spare EXCEPT ![t] = {}]
             /\ Go(t, "load") /\ UNCHANGED <<of, open, levels>>
    <3>1. "load" \in Pc \ {"new"} /\ pc' = [pc EXCEPT ![t] = "load"]
      BY <2>2 DEF Go, Pc
    <3>2. UNCHANGED <<of, open, db, stored, role, last, ours>>
      BY <2>1, <2>2 DEF levels
    <3>3. of[t] # 0
      BY <2>1 DEF FilesInv, Held
    <3>4. /\ of \in [Task -> Nat] /\ of[t] \in 0..last
          /\ spare \in [Task -> SUBSET Task] /\ db \in [Roles -> SUBSET Task]
      BY DEF FilesInv, Shape
    <3>5. /\ spare' \in [Task -> SUBSET Task]
          /\ \A u \in Task : u # t => spare'[u] = spare[u]
      BY <2>2, <3>4
    <3>6. /\ risked \subseteq risked' /\ stored \ spare'[t] \subseteq risked'
          /\ file' = {} /\ stored \subseteq risked'
      BY <2>1, <2>2
    <3>7. pc[t] = "block" /\ stored' = stored
      BY <2>1
    <3> QED
      BY <3>7, <3>1, <3>2, <3>3, <3>4, <3>5, <3>6, MoveKeeps
  <2>3. CASE /\ Finish(t)
             /\ \E found \in {file, {}} : DropRole(of[t], Active(of[t]) \ {t}, found)
    <3>1. PICK found \in {file, {}} : DropRole(of[t], Active(of[t]) \ {t}, found)
      BY <2>3
    <3>2. found \in SUBSET Task
      BY DEF FilesInv, Shape
    <3>3. risked \subseteq risked' /\ stored \ found \subseteq risked'
      BY <2>1
    <3> QED
      BY <2>1, <2>3, <3>1, <3>2, <3>3, EndKeeps
  <2> QED
    BY <1>a, <2>2, <2>3 DEF LoadFails
<1>7. ASSUME NEW t \in Task, Credit(t) PROVE FilesInv'
  BY <1>7, InsertKeeps, RefuseKeeps DEF Credit
<1> DEFINE Levels == /\ pc \in [Task -> Pc] /\ last \in Nat /\ last <= MaxRole
                     /\ role \in Nat /\ role <= last
<1>8. Levels
  BY DEF FilesInv, Shape
<1>9. CASE level_up
  <2>1. role = 0 /\ role' = last + 1 /\ last' = last + 1 /\ last < MaxRole
        /\ UNCHANGED <<ours, pc, of, spare, file, open, db, stored, risked>>
    BY <1>9 DEF level_up, handles
  <2> QED
    BY <2>1, <1>8, FilesAssumption, DropKeeps
<1>10. CASE LevelDown
  <2>1. role' = 0 /\ UNCHANGED <<db, stored, risked, last, ours, pc, of, spare>>
        /\ role # 0 /\ DropRole(role, Active(role), file)
    BY <1>10 DEF LevelDown
  <2>2. CASE role \in open /\ Active(role) = {}
    <3>1. open' = open \ {role} /\ file' = db[role]
      BY <2>1, <2>2 DEF DropRole
    <3>2. \A r \in open \ open' : Active(r)' = {}
      BY <3>1, <2>1, <2>2 DEF Active
    <3> QED
      BY <3>1, <3>2, <2>1, <2>2, <1>8, DropKeeps
  <2>3. CASE ~(role \in open /\ Active(role) = {})
    <3>1. open' = open /\ file' = file
      BY <2>1, <2>3 DEF DropRole
    <3> QED
      BY <3>1, <2>1, <1>8, DropKeeps
  <2> QED
    BY <2>2, <2>3
<1>11. CASE keep_keys_of
  <2>1. /\ ours' = "no" /\ Active(role) = {} /\ open' = open \ {role}
        /\ file' = (IF role \in open THEN db[role] ELSE file)
        /\ UNCHANGED <<db, stored, risked, role, last, pc, of, spare>>
    BY <1>11 DEF keep_keys_of
  <2>2. \A r \in open \ open' : Active(r)' = {}
    BY <2>1 DEF Active
  <2> QED
    BY <2>1, <2>2, <1>8, DropKeeps
<1>12. CASE Crash
  <2>1. /\ role' = 0 /\ open' = {}
        /\ pc' = [t \in Task |-> IF pc[t] = "new" THEN "new" ELSE "done"]
        /\ UNCHANGED <<file, db, stored, risked, last, ours, of, spare>>
    BY <1>12 DEF Crash
  <2>2. pc' \in [Task -> Pc]
        /\ \A t \in Task : pc'[t] = pc[t] \/ (pc'[t] = "done" /\ pc[t] # "new")
    BY <2>1 DEF Pc
  <2>3. \A r \in open \ open' : Active(r)' = {}
    BY <2>1 DEF Active
  <2>4. role' = role => FilesInv'
    <3>1. Shape'
      BY <2>1, <2>2, <1>8 DEF FilesInv, Shape
    <3>2. Held'
      BY <2>1 DEF FilesInv, Held
    <3>3. Complete'
      BY <2>1 DEF FilesInv, Complete
    <3>4. Kept'
      BY <2>1 DEF FilesInv, Kept, Active
    <3> QED
      BY <3>1, <3>2, <3>3, <3>4 DEF FilesInv
  <2> QED
    BY <2>1, <2>2, <2>3, <2>4, <1>8, DropKeeps
<1>13. CASE UNCHANGED vars
  BY <1>13 DEF vars, FilesInv, Shape, Held, Complete, Kept, Active
<1> QED
  BY <1>1, <1>2, <1>3, <1>4, <1>5, <1>6, <1>a, <1>7, <1>9, <1>10, <1>11, <1>12, <1>13
     DEF Next, Step

\* The wallet files' invariant: every db that may still be written to the file
\* has the events that were not at risk (get_load_or_create_store, try_insert).
THEOREM FilesInvariant == Spec => []FilesInv
BY FilesInit, FilesStep, PTL DEF Spec

\* Promotions, demotions, splits and crashes alone lose no stored event; only
\* a second db of the same file does, or a failing load, after which an empty
\* db is written (get_load_or_create_store, new_auto_dump_db).
THEOREM OnlyRiskedIsLost == Spec => []LostWasAtRisk
<1>1. FilesInv => LostWasAtRisk
  BY DEF FilesInv, Complete, LostWasAtRisk
<1> QED
  BY <1>1, FilesInvariant, PTL

\* "Access to the specific wallet is now serialised!": the tasks of a role
\* store into one db.
THEOREM TasksShareTheStore == Spec => []WalletIsSerialised
<1>1. FilesInv => WalletIsSerialised
  BY DEF FilesInv, Kept, WalletIsSerialised
<1> QED
  BY <1>1, FilesInvariant, PTL
=============================================================================
