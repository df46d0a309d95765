-------------------------- MODULE BlobRecordsProofs --------------------------
(***************************************************************************)
(* What an elder charges its adults with, and what it sends to a client,   *)
(* for any adults, chunks, reads and answers.                              *)
(***************************************************************************)
EXTENDS BlobRecords, FiniteSetTheorems, TLAPS

Shape ==
  /\ members \in SUBSET Adult /\ snapshot \in SUBSET Adult /\ full \in SUBSET Adult
  /\ tracked \in SUBSET Adult /\ proposed \in SUBSET Adult
  /\ targets \in [MsgId -> SUBSET Adult]
  /\ responded \in [MsgId -> BOOLEAN] /\ served \in [MsgId -> BOOLEAN]
  /\ again \in [MsgId -> BOOLEAN]
  /\ pending \in [Adult -> Nat]

\* A read has not more targets than there are copies, and closest_adults has a
\* key for each.
TargetsOK ==
  \A m \in MsgId :
    /\ targets[m] \subseteq tracked
    /\ Cardinality(targets[m]) <= CHUNK_COPY_COUNT

\* The success of a target is noted, and leaves fewer targets than copies.
ServedOK ==
  \A m \in MsgId :
    served[m] => responded[m] /\ Cardinality(targets[m]) < CHUNK_COPY_COUNT

RecordsInv == Shape /\ TargetsOK /\ PendingIsOwed /\ ServedOK /\ SuccessIsFinal

-----------------------------------------------------------------------------
(* ClosestTo *)

\* The closer of two adults has fewer adults that are closer still.
LEMMA CloserHasLowerRank ==
  ASSUME NEW x \in Chunk \cup Adult, NEW adults \in SUBSET Adult,
         NEW a \in adults, NEW b \in adults, Distance[x][a] < Distance[x][b]
  PROVE  Cardinality({c \in adults : Distance[x][c] < Distance[x][a]})
           < Cardinality({c \in adults : Distance[x][c] < Distance[x][b]})
<1> DEFINE A == {c \in adults : Distance[x][c] < Distance[x][a]}
           B == {c \in adults : Distance[x][c] < Distance[x][b]}
<1>1. \A c \in adults : Distance[x][c] \in Nat
  BY DistanceAssumption
<1>2. A \in SUBSET B /\ a \in B /\ a \notin A
  BY <1>1
<1>3. IsFiniteSet(B)
  BY FS_Subset, RecordsAssumption
<1> HIDE DEF A, B
<1>4. Cardinality(A) <= Cardinality(B) /\ Cardinality(A) # Cardinality(B)
  BY <1>2, <1>3, FS_Subset
<1>5. Cardinality(A) \in Nat /\ Cardinality(B) \in Nat
  BY <1>2, <1>3, FS_Subset, FS_CardinalityType
<1>6. Cardinality(A) < Cardinality(B)
  BY <1>4, <1>5
<1> QED BY <1>6 DEF A, B

\* adult_reader's our_adults_sorted_by_distance_to, cut off after count.
LEMMA ClosestIsSmall ==
  ASSUME NEW x \in Chunk \cup Adult, NEW adults \in SUBSET Adult, NEW count \in Nat
  PROVE  /\ ClosestTo(x, adults, count) \subseteq adults
         /\ Cardinality(ClosestTo(x, adults, count)) <= count
<1> DEFINE C == ClosestTo(x, adults, count)
           Closer(a) == {b \in adults : Distance[x][b] < Distance[x][a]}
           rank == [a \in C |-> Cardinality(Closer(a)) + 1]
<1>1. C \subseteq adults /\ \A a \in C : Cardinality(Closer(a)) < count
  BY DEF ClosestTo
<1>2. ASSUME NEW a \in C PROVE Cardinality(Closer(a)) \in Nat
  <2>1. IsFiniteSet(adults) /\ Closer(a) \in SUBSET adults
    BY FS_Subset, RecordsAssumption
  <2> QED BY <2>1, FS_Subset, FS_CardinalityType
<1>3. rank \in [C -> 1..count]
  BY <1>1, <1>2
<1>4. ASSUME NEW a \in C, NEW b \in C, rank[a] = rank[b] PROVE a = b
  <2>1. Cardinality(Closer(a)) = Cardinality(Closer(b))
    BY <1>2, <1>4
  <2>2. a \in adults /\ b \in adults
    BY <1>1
  <2>3. Distance[x][a] \in Nat /\ Distance[x][b] \in Nat
    BY <2>2, DistanceAssumption
  <2>4. Cardinality(Closer(a)) \in Nat /\ Cardinality(Closer(b)) \in Nat
    BY <1>2
  <2>5. Distance[x][a] < Distance[x][b] => Cardinality(Closer(a)) < Cardinality(Closer(b))
    BY <2>2, CloserHasLowerRank
  <2>6. Distance[x][b] < Distance[x][a] => Cardinality(Closer(b)) < Cardinality(Closer(a))
    BY <2>2, CloserHasLowerRank
  <2> HIDE DEF Closer
  <2>7. Distance[x][a] = Distance[x][b]
    BY <2>1, <2>3, <2>4, <2>5, <2>6
  <2> QED BY <2>2, <2>7, DistanceAssumption
<1>5. rank \in Injection(C, 1..count)
  BY <1>3, <1>4 DEF Injection, IsInjective
<1>6. Cardinality(C) <= Cardinality(1..count)
  BY <1>5, FS_Injection, FS_Interval
<1>7. Cardinality(1..count) = count
  BY FS_Interval
<1> QED BY <1>1, <1>6, <1>7

-----------------------------------------------------------------------------
(* The invariant *)

\* The first state: nothing is owed or served.
LEMMA RecordsInit == Init => RecordsInv
<1> SUFFICES ASSUME Init PROVE RecordsInv
  OBVIOUS
<1>1. Shape
  BY DEF Init, Shape
<1>2. TargetsOK
  BY FS_EmptySet, RecordsAssumption DEF Init, TargetsOK
<1>3. ASSUME NEW a \in Adult PROVE pending[a] <= Cardinality(Owed(a))
  <2>1. Owed(a) = {} /\ pending[a] = 0
    BY DEF Init, Owed
  <2> QED BY <2>1, FS_EmptySet
<1>4. ServedOK /\ SuccessIsFinal
  BY DEF Init, ServedOK, SuccessIsFinal
<1> QED BY <1>1, <1>2, <1>3, <1>4 DEF RecordsInv, PendingIsOwed

\* How many answers an adult owes can be counted.
LEMMA OwedIsFinite ==
  ASSUME NEW a
  PROVE  IsFiniteSet(Owed(a)) /\ Cardinality(Owed(a)) \in Nat
<1>1. Owed(a) \in SUBSET MsgId
  BY DEF Owed
<1> QED BY <1>1, FS_Subset, FS_CardinalityType, RecordsAssumption

\* Steps that change neither the operations nor what the client was sent.
LEMMA RecordsQuiet ==
  ASSUME RecordsInv, Shape', UNCHANGED <<ops, client>>
  PROVE  RecordsInv'
BY DEF RecordsInv, ops, client, TargetsOK, PendingIsOwed, Owed, ServedOK, SuccessIsFinal

\* A read adds itself to what its targets owe.
LEMMA RecordsRead ==
  ASSUME RecordsInv, NEW m \in MsgId, NEW c \in Chunk, Read(m, c)
  PROVE  RecordsInv'
<1> DEFINE holders == get_chunk_holder_adults(c)
<1>1. holders \in SUBSET Adult /\ Cardinality(holders) <= CHUNK_COPY_COUNT
  BY ClosestIsSmall, RecordsAssumption DEF get_chunk_holder_adults, RecordsInv, Shape
<1>2. /\ targets[m] = {}
      /\ targets' = [targets EXCEPT ![m] = holders]
      /\ responded' = [responded EXCEPT ![m] = FALSE]
      /\ pending' = [a \in Adult |-> pending[a] + IF a \in holders THEN 1 ELSE 0]
      /\ tracked' = tracked \cup holders
      /\ served' = [served EXCEPT ![m] = FALSE]
      /\ UNCHANGED <<members, snapshot, full, again, proposed>>
  BY DEF Read, new_read
<1> HIDE DEF holders
<1>3. Shape'
  BY <1>1, <1>2 DEF RecordsInv, Shape
<1>4. TargetsOK'
  BY <1>1, <1>2 DEF RecordsInv, Shape, TargetsOK
<1>5. ASSUME NEW a \in Adult PROVE pending'[a] <= Cardinality(Owed(a)')
  <2>1. pending[a] \in Nat /\ pending[a] <= Cardinality(Owed(a))
    BY DEF RecordsInv, Shape, PendingIsOwed
  <2>2. m \notin Owed(a)
    BY <1>2 DEF Owed
  <2>3. CASE a \in holders
    <3>1. Owed(a)' = Owed(a) \cup {m} /\ pending'[a] = pending[a] + 1
      BY <2>3, <1>2 DEF RecordsInv, Shape, Owed
    <3>2. Cardinality(Owed(a) \cup {m}) = Cardinality(Owed(a)) + 1
      BY <2>2, OwedIsFinite, FS_AddElement
    <3> QED BY <2>1, <3>1, <3>2, OwedIsFinite
  <2>4. CASE a \notin holders
    <3>1. Owed(a)' = Owed(a) /\ pending'[a] = pending[a] + 0
      BY <2>2, <2>4, <1>2 DEF RecordsInv, Shape, Owed
    <3> QED BY <2>1, <3>1
  <2> QED BY <2>3, <2>4
<1>6. ServedOK' /\ SuccessIsFinal'
  BY <1>2 DEF RecordsInv, Shape, ServedOK, SuccessIsFinal
<1> QED BY <1>3, <1>4, <1>5, <1>6 DEF RecordsInv, PendingIsOwed

\* An adult less, and the targets are not more.
LEMMA FewerTargets ==
  ASSUME RecordsInv, NEW m \in MsgId, NEW S \in SUBSET targets[m]
  PROVE  /\ Cardinality(S) \in Nat /\ Cardinality(S) <= Cardinality(targets[m])
         /\ Cardinality(targets[m]) \in Nat
         /\ S # targets[m] => Cardinality(S) < Cardinality(targets[m])
<1>1. IsFiniteSet(targets[m])
  BY FS_Subset, RecordsAssumption DEF RecordsInv, Shape
<1>2. IsFiniteSet(S) /\ Cardinality(S) <= Cardinality(targets[m])
  BY <1>1, FS_Subset
<1>3. Cardinality(S) \in Nat /\ Cardinality(targets[m]) \in Nat
  BY <1>1, <1>2, FS_CardinalityType
<1>4. S # targets[m] => Cardinality(S) # Cardinality(targets[m])
  BY <1>1, FS_Subset
<1> QED BY <1>2, <1>3, <1>4

\* After a success the answers that follow are not handed on.
LEMMA ServedIsNotForwarded ==
  ASSUME RecordsInv, NEW m \in MsgId, NEW a \in Adult, served[m]
  PROVE  ~Forwards(m, a)
<1>1. responded[m] /\ Cardinality(targets[m]) < CHUNK_COPY_COUNT
  BY DEF RecordsInv, ServedOK
<1> DEFINE left == targets[m] \ {a}
<1>2. Cardinality(left) \in Nat /\ Cardinality(left) <= Cardinality(targets[m])
      /\ Cardinality(targets[m]) \in Nat
  BY FewerTargets
<1> HIDE DEF left
<1>3. Cardinality(left) < CHUNK_COPY_COUNT
  BY <1>1, <1>2, RecordsAssumption
<1> QED BY <1>1, <1>3 DEF left, Forwards

\* An answer takes one off what its sender owes, and off its count.
LEMMA RecordsAnswer ==
  ASSUME RecordsInv, NEW m \in MsgId, NEW a \in Adult, NEW success \in BOOLEAN,
         Answer(m, a, success)
  PROVE  RecordsInv'
<1>1. /\ pending' = [pending EXCEPT ![a] = IF @ > 0 THEN @ - 1 ELSE 0]
      /\ targets' = [targets EXCEPT ![m] = @ \ {a}]
      /\ responded' = [responded EXCEPT ![m] = IF Forwards(m, a) THEN success ELSE @]
      /\ proposed' = proposed \cup find_unresponsive_adults(tracked, pending')
      /\ UNCHANGED <<members, snapshot, full, tracked>>
  BY DEF Answer, remove_target
<1>2. \E send \in BOOLEAN :
        /\ send => Forwards(m, a)
        /\ again' = [again EXCEPT ![m] = @ \/ (send /\ served[m])]
        /\ served' = [served EXCEPT ![m] = @ \/ (send /\ success /\ a \in targets[m])]
  BY DEF Answer
<1>3. PICK send \in BOOLEAN :
        /\ send => Forwards(m, a)
        /\ again' = [again EXCEPT ![m] = @ \/ (send /\ served[m])]
        /\ served' = [served EXCEPT ![m] = @ \/ (send /\ success /\ a \in targets[m])]
  BY <1>2
<1>4. Shape'
  <2>1. find_unresponsive_adults(tracked, pending') \subseteq tracked
    BY DEF find_unresponsive_adults
  <2>2. pending' \in [Adult -> Nat] /\ targets' \in [MsgId -> SUBSET Adult]
    BY <1>1 DEF RecordsInv, Shape
  <2>3. responded' \in [MsgId -> BOOLEAN]
    BY <1>1, Zenon DEF RecordsInv, Shape, Forwards
  <2>4. served' \in [MsgId -> BOOLEAN] /\ again' \in [MsgId -> BOOLEAN]
    BY <1>3, Zenon DEF RecordsInv, Shape
  <2> QED BY <1>1, <2>1, <2>2, <2>3, <2>4 DEF RecordsInv, Shape
<1>5. TargetsOK'
  <2> SUFFICES ASSUME NEW k \in MsgId
               PROVE  /\ targets'[k] \subseteq tracked'
                      /\ Cardinality(targets'[k]) <= CHUNK_COPY_COUNT
    BY DEF TargetsOK
  <2>1. targets'[k] \in SUBSET targets[k] /\ tracked' = tracked
    BY <1>1 DEF RecordsInv, Shape
  <2>2. targets[k] \subseteq tracked /\ Cardinality(targets[k]) <= CHUNK_COPY_COUNT
    BY DEF RecordsInv, TargetsOK
  <2>3. /\ Cardinality(targets'[k]) \in Nat /\ Cardinality(targets[k]) \in Nat
        /\ Cardinality(targets'[k]) <= Cardinality(targets[k])
    BY <2>1, FewerTargets
  <2> QED BY <2>1, <2>2, <2>3, RecordsAssumption
<1>6. ASSUME NEW b \in Adult PROVE pending'[b] <= Cardinality(Owed(b)')
  <2>1. pending[b] \in Nat /\ pending[b] <= Cardinality(Owed(b))
    BY DEF RecordsInv, Shape, PendingIsOwed
  <2>2. CASE b = a
    <3>1. Owed(b)' = Owed(b) \ {m}
      BY <2>2, <1>1 DEF RecordsInv, Shape, Owed
    <3>2. pending'[b] = IF pending[b] > 0 THEN pending[b] - 1 ELSE 0
      BY <2>2, <1>1 DEF RecordsInv, Shape
    <3>3. /\ Cardinality(Owed(b) \ {m}) \in {Cardinality(Owed(b)), Cardinality(Owed(b)) - 1}
          /\ Cardinality(Owed(b) \ {m}) \in Nat
      BY OwedIsFinite, FS_RemoveElement, FS_CardinalityType
    <3> QED BY <2>1, <3>1, <3>2, <3>3, OwedIsFinite
  <2>3. CASE b # a
    <3>1. Owed(b)' = Owed(b) /\ pending'[b] = pending[b]
      BY <2>3, <1>1 DEF RecordsInv, Shape, Owed
    <3> QED BY <2>1, <3>1
  <2> QED BY <2>2, <2>3
<1>7. ASSUME NEW k \in MsgId, served'[k]
      PROVE  responded'[k] /\ Cardinality(targets'[k]) < CHUNK_COPY_COUNT
  <2>1. CASE k # m
    <3>1. served[k] /\ responded'[k] = responded[k] /\ targets'[k] = targets[k]
      BY <2>1, <1>1, <1>3, <1>7 DEF RecordsInv, Shape
    <3> QED BY <3>1 DEF RecordsInv, ServedOK
  <2>2. CASE k = m
    <3> DEFINE left == targets[m] \ {a}
    <3>1. targets'[m] = left
      BY <1>1 DEF RecordsInv, Shape
    <3>2. /\ Cardinality(left) \in Nat /\ Cardinality(targets[m]) \in Nat
          /\ Cardinality(left) <= Cardinality(targets[m])
          /\ a \in targets[m] => Cardinality(left) < Cardinality(targets[m])
      BY FewerTargets
    <3> HIDE DEF left
    <3>3. CASE served[m]
      <4>1. ~Forwards(m, a)
        BY <3>3, ServedIsNotForwarded
      <4>2. responded'[m] = responded[m]
        BY <4>1, <1>1 DEF RecordsInv, Shape
      <4>3. responded[m] /\ Cardinality(targets[m]) < CHUNK_COPY_COUNT
        BY <3>3 DEF RecordsInv, ServedOK
      <4> QED BY <2>2, <3>1, <3>2, <4>2, <4>3, RecordsAssumption
    <3>4. CASE ~served[m]
      <4>1. send /\ success /\ a \in targets[m]
        BY <2>2, <3>4, <1>3, <1>7 DEF RecordsInv, Shape
      <4>2. responded'[m]
        BY <4>1, <1>1, <1>3 DEF RecordsInv, Shape
      <4>3. Cardinality(targets[m]) <= CHUNK_COPY_COUNT
        BY DEF RecordsInv, TargetsOK
      <4> QED BY <2>2, <3>1, <3>2, <4>1, <4>2, <4>3, RecordsAssumption
    <3> QED BY <3>3, <3>4
  <2> QED BY <2>1, <2>2
<1>8. SuccessIsFinal'
  <2>1. send => ~served[m]
    BY <1>3, ServedIsNotForwarded
  <2> QED BY <2>1, <1>3 DEF RecordsInv, Shape, SuccessIsFinal
<1> QED BY <1>4, <1>5, <1>6, <1>7, <1>8 DEF RecordsInv, PendingIsOwed, ServedOK

\* An adult that is gone owes nothing; for the others nothing changes.
LEMMA RecordsRetain ==
  ASSUME RecordsInv, retain_members_only
  PROVE  RecordsInv'
<1> DEFINE gone == tracked \ snapshot
<1>1. /\ full' = full \cap snapshot
      /\ pending' = [a \in Adult |-> IF a \in gone THEN 0 ELSE pending[a]]
      /\ tracked' = tracked \ gone
      /\ targets' = [m \in MsgId |-> targets[m] \ gone]
      /\ UNCHANGED <<members, snapshot, responded, client, proposed>>
  BY DEF retain_members_only
<1> HIDE DEF gone
<1>2. Shape'
  BY <1>1 DEF RecordsInv, Shape, client
<1>3. ASSUME NEW m \in MsgId
      PROVE  /\ targets'[m] \subseteq tracked'
             /\ Cardinality(targets'[m]) <= CHUNK_COPY_COUNT
             /\ Cardinality(targets[m]) < CHUNK_COPY_COUNT
                  => Cardinality(targets'[m]) < CHUNK_COPY_COUNT
  <2>1. targets'[m] = targets[m] \ gone /\ tracked' = tracked \ gone
    BY <1>1
  <2>2. targets[m] \subseteq tracked /\ Cardinality(targets[m]) <= CHUNK_COPY_COUNT
    BY DEF RecordsInv, TargetsOK
  <2>3. /\ Cardinality(targets'[m]) \in Nat /\ Cardinality(targets[m]) \in Nat
        /\ Cardinality(targets'[m]) <= Cardinality(targets[m])
    BY <2>1, FewerTargets
  <2> QED BY <2>1, <2>2, <2>3, RecordsAssumption
<1>4. ASSUME NEW a \in Adult PROVE pending'[a] <= Cardinality(Owed(a)')
  <2>1. CASE a \in gone
    <3>1. Owed(a)' = {} /\ pending'[a] = 0
      BY <2>1, <1>1 DEF Owed
    <3> QED BY <3>1, FS_EmptySet
  <2>2. CASE a \notin gone
    <3>1. Owed(a)' = Owed(a) /\ pending'[a] = pending[a]
      BY <2>2, <1>1 DEF Owed
    <3> QED BY <3>1 DEF RecordsInv, PendingIsOwed
  <2> QED BY <2>1, <2>2
<1>5. ServedOK' /\ SuccessIsFinal'
  BY <1>1, <1>3 DEF RecordsInv, ServedOK, SuccessIsFinal, client
<1> QED BY <1>2, <1>3, <1>4, <1>5 DEF RecordsInv, PendingIsOwed, TargetsOK

\* Every step of the elder, of routing and of the adults keeps the invariant.
LEMMA RecordsStep == RecordsInv /\ [Next]_vars => RecordsInv'
<1> SUFFICES ASSUME RecordsInv, [Next]_vars PROVE RecordsInv'
  OBVIOUS
<1>1. CASE UNCHANGED vars
  <2>1. Shape' /\ UNCHANGED <<ops, client>>
    BY <1>1 DEF vars, RecordsInv, Shape, ops, client
  <2> QED BY <2>1, RecordsQuiet
<1>2. ASSUME NEW m \in MsgId, NEW c \in Chunk, Read(m, c) PROVE RecordsInv'
  BY <1>2, RecordsRead
<1>3. ASSUME NEW m \in MsgId, NEW a \in Adult, NEW success \in BOOLEAN,
             Answer(m, a, success)
      PROVE  RecordsInv'
  BY <1>3, RecordsAnswer
<1>4. ASSUME NEW a \in Mobile, insert_full_adults({a}) \/ Leave(a) \/ Join(a)
      PROVE  RecordsInv'
  <2>1. a \in Adult
    BY RecordsAssumption
  <2>2. Shape' /\ UNCHANGED <<ops, client>>
    BY <1>4, <2>1 DEF insert_full_adults, Leave, Join, RecordsInv, Shape, ops, client
  <2> QED BY <2>2, RecordsQuiet
<1>5. CASE our_adults
  <2>1. Shape' /\ UNCHANGED <<ops, client>>
    BY <1>5 DEF our_adults, RecordsInv, Shape, ops, client
  <2> QED BY <2>1, RecordsQuiet
<1>6. CASE retain_members_only
  BY <1>6, RecordsRetain
<1> QED BY <1>1, <1>2, <1>3, <1>4, <1>5, <1>6 DEF Next

\* The counts, targets and answers of reads stay consistent at every step.
THEOREM RecordsInvariant == Spec => []RecordsInv
BY RecordsInit, RecordsStep, PTL DEF Spec

-----------------------------------------------------------------------------
(* The properties *)

\* remove_target and retain_members_only never let the count of an adult get
\* above the reads that wait for it.
THEOREM ChargedOnlyWithDebts == Spec => []PendingIsOwed
<1>1. RecordsInv => PendingIsOwed
  BY DEF RecordsInv
<1> QED BY <1>1, RecordsInvariant, PTL

\* find_unresponsive_adults proposes none but adults that owe answers.
THEOREM NoneProposedInVain == Spec => ProposedOwes
<1>1. ASSUME RecordsInv', [Next]_vars
      PROVE  [\A a \in proposed' \ proposed : Cardinality(Owed(a)') > MIN_PENDING_OPS]_vars
  <2> SUFFICES ASSUME Next, NEW a \in proposed' \ proposed
               PROVE  Cardinality(Owed(a)') > MIN_PENDING_OPS
    BY <1>1
  <2>1. PICK m \in MsgId, b \in Adult, success \in BOOLEAN : Answer(m, b, success)
    BY DEF Next, Read, insert_full_adults, Leave, Join, our_adults, retain_members_only
  <2>2. a \in find_unresponsive_adults(tracked, pending')
    BY <2>1 DEF Answer
  <2>3. pending'[a] > MIN_PENDING_OPS
    BY <2>2 DEF find_unresponsive_adults
  <2>4. a \in Adult /\ pending'[a] \in Nat /\ pending'[a] <= Cardinality(Owed(a)')
    BY <1>1 DEF RecordsInv, Shape, PendingIsOwed
  <2>5. Owed(a)' \in SUBSET MsgId
    BY DEF Owed
  <2>6. Cardinality(Owed(a)') \in Nat
    BY <2>5, FS_Subset, FS_CardinalityType, RecordsAssumption
  <2> QED BY <2>3, <2>4, <2>6, RecordsAssumption
<1> QED BY <1>1, RecordsInvariant, PTL DEF ProposedOwes, Spec

\* responded_with_success keeps the client from another answer once an adult that
\* was asked has delivered the chunk, whoever else answers.
THEOREM OneSuccess == Spec => []SuccessIsFinal
<1>1. RecordsInv => SuccessIsFinal
  BY DEF RecordsInv
<1> QED BY <1>1, RecordsInvariant, PTL

\* No read waits for an adult after retain_members_only has dropped it.
THEOREM GoneAreForgotten == Spec => RetainForgetsTheGone
<1>1. ASSUME RecordsInv, [Next]_vars
      PROVE  [retain_members_only => \A m \in MsgId : targets'[m] \subseteq snapshot]_vars
  BY <1>1 DEF retain_members_only, RecordsInv, TargetsOK
<1> QED BY <1>1, RecordsInvariant, PTL DEF RetainForgetsTheGone, Spec

\* In every state the open reads and owed answers of an elder keep their types.
THEOREM TypeCorrect == Spec => []TypeOK
<1>1. RecordsInv => TypeOK
  BY DEF RecordsInv, Shape, TypeOK
<1> QED BY <1>1, RecordsInvariant, PTL
=============================================================================
