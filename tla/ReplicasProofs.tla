--------------------------- MODULE ReplicasProofs ---------------------------
(***************************************************************************)
(* Proofs about Replicas for every section: any set of elders with         *)
(* intersecting quorums, any wallets, any transfers.                       *)
(*                                                                         *)
(* An event enters a log in four places (Validate, Register,               *)
(* ReceivePropagated and, twice, ProcessPayment).  The invariant is stated *)
(* over a log L and a set of shares S, and lemma Insert shows once that    *)
(* storing an event keeps it, provided the event is Sound; each action     *)
(* then only has to show that what it stores is Sound.                     *)
(***************************************************************************)
EXTENDS Replicas, TLAPS

Logs == [Elder -> [Wallet -> Seq(Event)]]

\* An event sits in the log of the wallet it changes.
AtHome(L) ==
  \A e \in Elder, w \in Wallet : \A i \in DOMAIN L[e][w] :
    w = IF L[e][w][i].kind = "propagated" THEN L[e][w][i].t.to
                                          ELSE L[e][w][i].t.from

\* No log holds two events of one kind for one debit or credit.
NoRepeats(L) ==
  \A e \in Elder, w \in Wallet : \A i, j \in DOMAIN L[e][w] :
    /\ L[e][w][i].kind = L[e][w][j].kind
    /\ Id(L[e][w][i].t) = Id(L[e][w][j].t)
    => i = j

\* A share that left an elder is backed by its stored pending debit.
SharesStored(L, S) ==
  \A e \in Elder, t \in Transfer :
    <<e, t>> \in S => Holds(L[e][t.from], TransferValidated(t))

\* Only proven debits are registered, each after all earlier ones.
Proven(L, S) ==
  \A e \in Elder, w \in Wallet : \A i \in DOMAIN L[e][w] :
    L[e][w][i].kind = "registered" => Signed(S, L[e][w][i].t)

Ordered(L) ==
  \A e \in Elder, w \in Wallet : \A i \in DOMAIN L[e][w] :
    L[e][w][i].kind = "registered" =>
      \A c \in 0..(L[e][w][i].t.ctr - 1) :
        \E j \in 1..(i - 1) : /\ L[e][w][j].kind = "registered"
                              /\ Id(L[e][w][j].t) = <<w, c>>

\* Some elder has registered the debit of t.
Debited(L, t) == \E f \in Elder : Holds(L[f][t.from], TransferRegistered(t))

Backed(L, S) ==
  \A e \in Elder, w \in Wallet : \A i \in DOMAIN L[e][w] :
    L[e][w][i].kind = "propagated" /\ L[e][w][i].t \notin ForeignCredit =>
      Signed(S, L[e][w][i].t) /\ Debited(L, L[e][w][i].t)

LogInv(L, S) ==
  /\ L \in Logs
  /\ AtHome(L)
  /\ NoRepeats(L)
  /\ SharesStored(L, S)
  /\ Proven(L, S)
  /\ Ordered(L)
  /\ Backed(L, S)

\* The inductive invariant.  A propagated credit comes from a registration.
IInv ==
  /\ TypeOK
  /\ LogInv(log, shares)
  /\ \A e \in Elder, t \in Transfer :
       <<e, t>> \in propagated => Holds(log[e][t.from], TransferRegistered(t))

\* What elder e may store for wallet w in logs L, given the shares S.
Sound(L, S, w, e, event) ==
  /\ ~Knows(L[e][w], event.kind, Id(event.t))
  /\ w = IF event.kind = "propagated" THEN event.t.to ELSE event.t.from
  /\ event.kind = "registered" =>
       /\ Signed(S, event.t)
       /\ IsNextDebit(L[e][w], event.t)
  /\ event.kind = "propagated" /\ event.t \notin ForeignCredit =>
       /\ Signed(S, event.t)
       /\ Debited(L, event.t)

Insert(L, e, w, event) == [L EXCEPT ![e][w] = try_insert(@, event)]

-----------------------------------------------------------------------------
\* Storing an event adds it at the end of one log, and nothing else.
LEMMA InsertShape ==
  ASSUME NEW L \in Logs, NEW e \in Elder, NEW w \in Wallet, NEW event \in Event
  PROVE  LET M == Insert(L, e, w, event) IN
         /\ M \in Logs
         /\ \A f \in Elder, v \in Wallet :
              /\ DOMAIN L[f][v] \subseteq DOMAIN M[f][v]
              /\ \A i \in DOMAIN L[f][v] : M[f][v][i] = L[f][v][i]
              /\ \A i \in DOMAIN M[f][v] :
                   \/ i \in DOMAIN L[f][v]
                   \/ /\ f = e /\ v = w /\ i = Len(L[e][w]) + 1
                      /\ M[f][v][i] = event
              /\ DOMAIN L[f][v] = 1..Len(L[f][v])
              /\ Len(L[f][v]) \in Nat
         /\ Len(L[e][w]) + 1 \in DOMAIN M[e][w]
         /\ M[e][w][Len(L[e][w]) + 1] = event
<1> DEFINE M == Insert(L, e, w, event)
<1>1. \A f \in Elder, v \in Wallet : L[f][v] \in Seq(Event)
  BY DEF Logs
<1>2. \A f \in Elder, v \in Wallet :
        M[f][v] = IF f = e /\ v = w THEN Append(L[f][v], event) ELSE L[f][v]
  BY DEF Logs, Insert, try_insert
<1>3. M \in Logs
  BY <1>1 DEF Logs, Insert, try_insert
<1>4. ASSUME NEW s \in Seq(Event)
      PROVE  /\ DOMAIN s = 1..Len(s) /\ Len(s) \in Nat
             /\ DOMAIN Append(s, event) = 1..(Len(s) + 1)
             /\ \A i \in 1..Len(s) : Append(s, event)[i] = s[i]
             /\ Append(s, event)[Len(s) + 1] = event
  OBVIOUS
<1> HIDE DEF M
<1> DEFINE s == L[e][w]
           r == M[e][w]
<1>5. s \in Seq(Event) /\ r = Append(s, event)
  BY <1>1, <1>2
<1> HIDE DEF s, r
<1>6. /\ DOMAIN s = 1..Len(s) /\ Len(s) \in Nat
      /\ DOMAIN r = 1..(Len(s) + 1)
      /\ \A i \in 1..Len(s) : r[i] = s[i]
      /\ r[Len(s) + 1] = event
  BY <1>4, <1>5
<1>7. /\ DOMAIN s \subseteq DOMAIN r
      /\ \A i \in DOMAIN r : i \in DOMAIN s \/ i = Len(s) + 1
      /\ Len(s) + 1 \in DOMAIN r
  BY <1>6
<1>8. ASSUME NEW f \in Elder, NEW v \in Wallet
      PROVE  /\ DOMAIN L[f][v] \subseteq DOMAIN M[f][v]
             /\ \A i \in DOMAIN L[f][v] : M[f][v][i] = L[f][v][i]
             /\ \A i \in DOMAIN M[f][v] :
                  \/ i \in DOMAIN L[f][v]
                  \/ /\ f = e /\ v = w /\ i = Len(L[e][w]) + 1
                     /\ M[f][v][i] = event
             /\ DOMAIN L[f][v] = 1..Len(L[f][v])
             /\ Len(L[f][v]) \in Nat
  <2>1. CASE f = e /\ v = w
    BY <1>6, <1>7, <2>1 DEF s, r
  <2>2. CASE ~(f = e /\ v = w)
    BY <1>1, <1>2, <1>4, <2>2
  <2> QED BY <2>1, <2>2
<1> QED BY <1>3, <1>6, <1>7, <1>8 DEF M, s, r

\* A log that has grown still holds what it held.
LEMMA InsertKeeps ==
  ASSUME NEW L \in Logs, NEW e \in Elder, NEW w \in Wallet, NEW event \in Event,
         NEW f \in Elder, NEW v \in Wallet, NEW x
  PROVE  /\ Holds(L[f][v], x) => Holds(Insert(L, e, w, event)[f][v], x)
         /\ Holds(Insert(L, e, w, event)[e][w], event)
<1> DEFINE M == Insert(L, e, w, event)
<1>1. /\ \A i \in DOMAIN L[f][v] : i \in DOMAIN M[f][v] /\ M[f][v][i] = L[f][v][i]
      /\ Len(L[e][w]) + 1 \in DOMAIN M[e][w]
      /\ M[e][w][Len(L[e][w]) + 1] = event
  BY InsertShape
<1> QED BY <1>1 DEF Holds

\* The heart of the argument: a sound event keeps the invariant of the logs,
\* also when the elder hands out its share for it.
LEMMA InsertSound ==
  ASSUME NEW L \in Logs, NEW e \in Elder, NEW w \in Wallet, NEW event \in Event,
         NEW S, NEW S2,
         LogInv(L, S), Sound(L, S, w, e, event),
         S \subseteq S2,
         \/ S2 = S
         \/ event.kind = "validated" /\ S2 = S \cup {<<e, event.t>>}
  PROVE  LogInv(Insert(L, e, w, event), S2)
<1> DEFINE M == Insert(L, e, w, event)
           n == Len(L[e][w]) + 1
<1>1. /\ M \in Logs
      /\ \A f \in Elder, v \in Wallet :
           /\ DOMAIN L[f][v] \subseteq DOMAIN M[f][v]
           /\ \A i \in DOMAIN L[f][v] : M[f][v][i] = L[f][v][i]
           /\ \A i \in DOMAIN M[f][v] :
                \/ i \in DOMAIN L[f][v]
                \/ f = e /\ v = w /\ i = n /\ M[f][v][i] = event
           /\ DOMAIN L[f][v] = 1..Len(L[f][v])
           /\ Len(L[f][v]) \in Nat
      /\ n \in DOMAIN M[e][w] /\ M[e][w][n] = event
  BY InsertShape
<1>2. \A f \in Elder, v \in Wallet : \A x : Holds(L[f][v], x) => Holds(M[f][v], x)
  BY InsertKeeps
<1>3. Holds(M[e][w], event)
  BY <1>1 DEF Holds
<1>4. \A t : Signed(S, t) => Signed(S2, t)
  BY DEF Signed
<1>5. \A f \in Elder, v \in Wallet : \A i \in DOMAIN L[f][v] :
        L[f][v][i] \in Event /\ L[f][v][i].t \in Transfer
  <2>1. \A x \in Event : x.t \in Transfer
    BY DEF Event, EventOf
  <2>2. \A f \in Elder, v \in Wallet : L[f][v] \in Seq(Event)
    BY DEF Logs
  <2> QED BY <2>1, <2>2
<1>6. \A t \in Transfer :
        /\ t.from \in Wallet /\ t.to \in Wallet /\ t.ctr \in Nat
        /\ Debited(L, t) => Debited(M, t)
  BY <1>2, TransferAssumption DEF TransferOf, Debited
<1>7. event.t \in Transfer
  BY DEF Event, EventOf
<1> HIDE DEF M
<1>8. AtHome(M)
  <2> SUFFICES ASSUME NEW f \in Elder, NEW v \in Wallet, NEW i \in DOMAIN M[f][v]
               PROVE  v = IF M[f][v][i].kind = "propagated"
                          THEN M[f][v][i].t.to ELSE M[f][v][i].t.from
    BY DEF AtHome
  <2>1. CASE i \in DOMAIN L[f][v]
    BY <1>1, <2>1 DEF AtHome, LogInv
  <2>2. CASE i \notin DOMAIN L[f][v]
    <3>1. v = w /\ M[f][v][i] = event
      BY <1>1, <2>2
    <3>2. w = IF event.kind = "propagated" THEN event.t.to ELSE event.t.from
      BY DEF Sound
    <3> QED BY <3>1, <3>2
  <2> QED BY <2>1, <2>2
<1>9. NoRepeats(M)
  <2> SUFFICES ASSUME NEW f \in Elder, NEW v \in Wallet,
                      NEW i \in DOMAIN M[f][v], NEW j \in DOMAIN M[f][v],
                      M[f][v][i].kind = M[f][v][j].kind,
                      Id(M[f][v][i].t) = Id(M[f][v][j].t)
               PROVE  i = j
    BY DEF NoRepeats
  <2>1. CASE i \in DOMAIN L[f][v] /\ j \in DOMAIN L[f][v]
    BY <1>1, <2>1 DEF LogInv, NoRepeats
  <2>2. \A k \in DOMAIN L[e][w] :
          ~(L[e][w][k].kind = event.kind /\ Id(L[e][w][k].t) = Id(event.t))
    BY DEF Sound, Knows
  <2> QED BY <1>1, <2>1, <2>2
<1>10. SharesStored(M, S2)
  <2> SUFFICES ASSUME NEW f \in Elder, NEW t \in Transfer, <<f, t>> \in S2
               PROVE  Holds(M[f][t.from], TransferValidated(t))
    BY DEF SharesStored
  <2>1. CASE <<f, t>> \in S
    BY <1>2, <1>6, <2>1 DEF LogInv, SharesStored
  <2>2. CASE <<f, t>> \notin S
    <3>1. event.kind = "validated" /\ f = e /\ t = event.t
      BY <2>2
    <3>2. w = t.from
      BY <3>1 DEF Sound
    <3>3. event = TransferValidated(t)
      BY <3>1 DEF TransferValidated, Event, EventOf
    <3> QED BY <1>3, <3>1, <3>2, <3>3
  <2> QED BY <2>1, <2>2
<1>11. Proven(M, S2)
  <2>1. \A f \in Elder, v \in Wallet : \A i \in DOMAIN L[f][v] :
          L[f][v][i].kind = "registered" => Signed(S2, L[f][v][i].t)
    BY <1>4 DEF LogInv, Proven
  <2>2. event.kind = "registered" => Signed(S2, event.t)
    BY <1>4 DEF Sound
  <2> QED BY <1>1, <2>1, <2>2 DEF Proven
<1>12. Ordered(M)
  <2> SUFFICES ASSUME NEW f \in Elder, NEW v \in Wallet,
                      NEW i \in DOMAIN M[f][v], M[f][v][i].kind = "registered",
                      NEW c \in 0..(M[f][v][i].t.ctr - 1)
               PROVE  \E j \in 1..(i - 1) : /\ M[f][v][j].kind = "registered"
                                            /\ Id(M[f][v][j].t) = <<v, c>>
    BY DEF Ordered
  <2>1. CASE i \in DOMAIN L[f][v]
    <3>1. PICK j \in 1..(i - 1) : /\ L[f][v][j].kind = "registered"
                                  /\ Id(L[f][v][j].t) = <<v, c>>
      BY <1>1, <2>1 DEF LogInv, Ordered
    <3>2. j \in DOMAIN L[f][v]
      BY <1>1, <2>1
    <3> QED BY <1>1, <3>1, <3>2
  <2>2. CASE i \notin DOMAIN L[f][v]
    <3>1. f = e /\ v = w /\ i = n /\ M[f][v][i] = event
      BY <1>1, <2>2
    <3>2. Knows(L[e][w], "registered", <<event.t.from, c>>) /\ w = event.t.from
      BY <3>1 DEF Sound, IsNextDebit
    <3>3. PICK j \in DOMAIN L[e][w] : /\ L[e][w][j].kind = "registered"
                                      /\ Id(L[e][w][j].t) = <<w, c>>
      BY <3>2 DEF Knows
    <3>4. j \in 1..(i - 1)
      BY <1>1, <3>1
    <3> QED BY <1>1, <3>1, <3>3, <3>4
  <2> QED BY <2>1, <2>2
<1>13. Backed(M, S2)
  <2>1. \A f \in Elder, v \in Wallet : \A i \in DOMAIN L[f][v] :
          L[f][v][i].kind = "propagated" /\ L[f][v][i].t \notin ForeignCredit
            => Signed(S2, L[f][v][i].t) /\ Debited(M, L[f][v][i].t)
    BY <1>4, <1>5, <1>6 DEF LogInv, Backed
  <2>2. event.kind = "propagated" /\ event.t \notin ForeignCredit
          => Signed(S2, event.t) /\ Debited(M, event.t)
    BY <1>4, <1>6, <1>7 DEF Sound
  <2> QED BY <1>1, <2>1, <2>2 DEF Backed
<1> QED BY <1>1, <1>8, <1>9, <1>10, <1>11, <1>12, <1>13 DEF LogInv, M

-----------------------------------------------------------------------------
(* What the invariant says of a state *)

\* Agreement: two proofs for one debit share an elder, which has stored both
\* as its pending debit, and so has stored the same one.
LEMMA SignedOnce ==
  ASSUME NEW L, NEW S, LogInv(L, S),
         NEW t \in Transfer, NEW u \in Transfer,
         Signed(S, t), Signed(S, u), Id(t) = Id(u)
  PROVE  t = u
<1>1. PICK Q \in Quorum : \A e \in Q : <<e, t>> \in S
  BY DEF Signed
<1>2. PICK R \in Quorum : \A e \in R : <<e, u>> \in S
  BY DEF Signed
<1>3. PICK e \in Elder : e \in Q /\ e \in R
  BY SectionAssumption
<1>4. t.from = u.from /\ t.from \in Wallet
  BY TransferAssumption DEF Id, TransferOf
<1>5. /\ Holds(L[e][t.from], TransferValidated(t))
      /\ Holds(L[e][t.from], TransferValidated(u))
  BY <1>1, <1>2, <1>3, <1>4 DEF LogInv, SharesStored
<1>6. PICK i \in DOMAIN L[e][t.from] : L[e][t.from][i] = TransferValidated(t)
  BY <1>5 DEF Holds
<1>7. PICK j \in DOMAIN L[e][t.from] : L[e][t.from][j] = TransferValidated(u)
  BY <1>5 DEF Holds
<1>8. i = j
  BY <1>4, <1>6, <1>7 DEF LogInv, NoRepeats, TransferValidated
<1> QED BY <1>6, <1>7, <1>8 DEF TransferValidated

\* The properties that the runs check follow from the invariant.
LEMMA InvImplies ==
  IInv => /\ OneTransferPerDebit
          /\ ReplicasAgree
          /\ DebitsInOrder
          /\ NoDoubleCredit
          /\ CreditIsBacked
<1> SUFFICES ASSUME IInv
             PROVE  /\ OneTransferPerDebit
                    /\ ReplicasAgree
                    /\ DebitsInOrder
                    /\ NoDoubleCredit
                    /\ CreditIsBacked
  OBVIOUS
<1>1. LogInv(log, shares)
  BY DEF IInv
<1>2. OneTransferPerDebit
  BY <1>1, SignedOnce DEF OneTransferPerDebit, Certified
<1>3. ReplicasAgree
  <2> SUFFICES ASSUME NEW e \in Elder, NEW f \in Elder, NEW w \in Wallet,
                      NEW i \in DOMAIN log[e][w], NEW j \in DOMAIN log[f][w],
                      log[e][w][i].kind = "registered",
                      log[f][w][j].kind = "registered",
                      Id(log[e][w][i].t) = Id(log[f][w][j].t)
               PROVE  log[e][w][i].t = log[f][w][j].t /\ (e = f => i = j)
    BY DEF ReplicasAgree
  <2>1. Signed(shares, log[e][w][i].t) /\ Signed(shares, log[f][w][j].t)
    BY <1>1 DEF LogInv, Proven
  <2>2. log[e][w][i].t \in Transfer /\ log[f][w][j].t \in Transfer
    <3>1. \A x \in Event : x.t \in Transfer
      BY DEF Event, EventOf
    <3>2. log[e][w] \in Seq(Event) /\ log[f][w] \in Seq(Event)
      BY <1>1 DEF LogInv, Logs
    <3> QED BY <3>1, <3>2
  <2>3. log[e][w][i].t = log[f][w][j].t
    BY <1>1, <2>1, <2>2, SignedOnce
  <2>4. e = f => i = j
    BY <1>1 DEF LogInv, NoRepeats
  <2> QED BY <2>3, <2>4
<1>4. DebitsInOrder
  BY <1>1 DEF LogInv, Ordered, DebitsInOrder
<1>5. NoDoubleCredit
  BY <1>1 DEF LogInv, NoRepeats, NoDoubleCredit
<1>6. CreditIsBacked
  BY <1>1 DEF LogInv, Backed, Debited, CreditIsBacked, Certified
<1> QED BY <1>2, <1>3, <1>4, <1>5, <1>6

-----------------------------------------------------------------------------
(* The invariant is inductive *)

\* The events of a transfer, and the wallets it names, have their types.
LEMMA EventTypes ==
  ASSUME NEW t \in Transfer
  PROVE  /\ TransferValidated(t) \in Event
         /\ TransferRegistered(t) \in Event
         /\ TransferPropagated(t) \in Event
         /\ t.from \in Wallet /\ t.to \in Wallet
BY TransferAssumption
   DEF TransferValidated, TransferRegistered, TransferPropagated, Event,
       EventOf, TransferOf

\* Step 1 stores a sound event: the next debit, and no other one is pending.
LEMMA ValidateSound ==
  ASSUME IInv, NEW e \in Elder, NEW t \in Transfer, Validate(e, t)
  PROVE  Sound(log, shares, t.from, e, TransferValidated(t))
BY DEF Validate, CanValidate, ValidateOk, Sound, TransferValidated

\* Step 2 stores a proven debit, the next one of its wallet.
LEMMA RegisterSound ==
  ASSUME NEW e \in Elder, NEW t \in Transfer, CanRegister(e, t)
  PROVE  Sound(log, shares, t.from, e, TransferRegistered(t))
<1>1. IsNextDebit(log[e][t.from], t) /\ Signed(shares, t)
  BY DEF CanRegister, RegisterOutcome, Certified
<1> QED BY <1>1 DEF Sound, TransferRegistered, IsNextDebit

\* Step 3 stores a credit the log does not hold yet.
LEMMA PropagateSound ==
  ASSUME NEW L \in Logs, NEW e \in Elder, NEW t \in Transfer,
         PropagateOutcome(L[e][t.to], t) = "some",
         t \in ForeignCredit \/ (Signed(shares, t) /\ Debited(L, t))
  PROVE  Sound(L, shares, t.to, e, TransferPropagated(t))
BY DEF Sound, TransferPropagated, PropagateOutcome

\* A credit that a quorum has propagated is proven and debited.
LEMMA PropagatedIsDebited ==
  ASSUME IInv, NEW t \in Transfer, Signed(propagated, t)
  PROVE  Signed(shares, t) /\ Debited(log, t)
<1>1. PICK Q \in Quorum : \A e \in Q : <<e, t>> \in propagated
  BY DEF Signed
<1>2. PICK f \in Elder : f \in Q
  BY SectionAssumption
<1>3. Holds(log[f][t.from], TransferRegistered(t))
  BY <1>1, <1>2 DEF IInv
<1>4. t.from \in Wallet
  BY EventTypes
<1>5. PICK i \in DOMAIN log[f][t.from] : log[f][t.from][i] = TransferRegistered(t)
  BY <1>3 DEF Holds
<1>6. Signed(shares, t)
  BY <1>4, <1>5 DEF IInv, LogInv, Proven, TransferRegistered
<1> QED BY <1>3, <1>6 DEF Debited

\* Crediting one elder's wallets is storing the credit, or doing nothing.
LEMMA CreditedShape ==
  ASSUME NEW L \in Logs, NEW e \in Elder, NEW t \in Transfer
  PROVE  [L EXCEPT ![e] = Credited(@, t)] =
           IF PropagateOutcome(L[e][t.to], t) = "some"
           THEN Insert(L, e, t.to, TransferPropagated(t)) ELSE L
<1>1. L[e] \in [Wallet -> Seq(Event)] /\ t.to \in Wallet
  BY EventTypes DEF Logs
<1>2. CASE PropagateOutcome(L[e][t.to], t) = "some"
  BY <1>1, <1>2 DEF Credited, Insert, Logs
<1>3. CASE PropagateOutcome(L[e][t.to], t) # "some"
  <2>1. [L EXCEPT ![e] = Credited(@, t)] = [L EXCEPT ![e] = L[e]]
    BY <1>3 DEF Credited
  <2>2. [L EXCEPT ![e] = L[e]] = L
    BY DEF Logs
  <2> QED BY <1>3, <2>1, <2>2
<1> QED BY <1>2, <1>3

\* Crediting keeps the invariant of the logs, and whatever they held.
LEMMA CreditedKeeps ==
  ASSUME NEW L \in Logs, NEW S, LogInv(L, S), S = shares,
         NEW e \in Elder, NEW t \in Transfer,
         t \in ForeignCredit \/ (Signed(S, t) /\ Debited(L, t))
  PROVE  LET M == [L EXCEPT ![e] = Credited(@, t)] IN
         /\ LogInv(M, S)
         /\ \A f \in Elder, v \in Wallet : \A x :
              Holds(L[f][v], x) => Holds(M[f][v], x)
<1>1. TransferPropagated(t) \in Event /\ t.to \in Wallet
  BY EventTypes
<1>2. CASE PropagateOutcome(L[e][t.to], t) = "some"
  <2>1. Sound(L, S, t.to, e, TransferPropagated(t))
    BY <1>2, PropagateSound
  <2>2. LogInv(Insert(L, e, t.to, TransferPropagated(t)), S)
    BY <1>1, <2>1, InsertSound
  <2>3. [L EXCEPT ![e] = Credited(@, t)]
          = Insert(L, e, t.to, TransferPropagated(t))
    BY <1>2, CreditedShape
  <2>4. \A f \in Elder, v \in Wallet : \A x :
          Holds(L[f][v], x)
            => Holds(Insert(L, e, t.to, TransferPropagated(t))[f][v], x)
    BY <1>1, InsertKeeps
  <2> QED BY <2>2, <2>3, <2>4
<1>3. CASE PropagateOutcome(L[e][t.to], t) # "some"
  BY <1>3, CreditedShape
<1> QED BY <1>2, <1>3

\* Registering keeps the invariant of the logs, and whatever they held.
LEMMA RegisteredKeeps ==
  ASSUME IInv, NEW e \in Elder, NEW t \in Transfer, CanRegister(e, t)
  PROVE  /\ LogInv(Registered(e, t), shares)
         /\ Holds(Registered(e, t)[e][t.from], TransferRegistered(t))
         /\ \A f \in Elder, v \in Wallet : \A x :
              Holds(log[f][v], x) => Holds(Registered(e, t)[f][v], x)
<1>1. log \in Logs /\ LogInv(log, shares)
  BY DEF IInv, LogInv
<1>2. TransferRegistered(t) \in Event /\ t.from \in Wallet
  BY EventTypes
<1>3. Registered(e, t) = Insert(log, e, t.from, TransferRegistered(t))
  BY DEF Registered, Store, Insert
<1>4. Sound(log, shares, t.from, e, TransferRegistered(t))
  BY RegisterSound
<1>5. LogInv(Insert(log, e, t.from, TransferRegistered(t)), shares)
  BY <1>1, <1>2, <1>4, InsertSound
<1>6. /\ Holds(Insert(log, e, t.from, TransferRegistered(t))[e][t.from],
               TransferRegistered(t))
      /\ \A f \in Elder, v \in Wallet : \A x :
           Holds(log[f][v], x)
             => Holds(Insert(log, e, t.from, TransferRegistered(t))[f][v], x)
  BY <1>1, <1>2, InsertKeeps
<1> QED BY <1>3, <1>5, <1>6

\* IInv' from what a step does to the logs and to propagated.
LEMMA Preserved ==
  ASSUME IInv, TypeOK', LogInv(log', shares'),
         \A f \in Elder, v \in Wallet : \A x :
           Holds(log[f][v], x) => Holds(log'[f][v], x),
         \A f \in Elder, u \in Transfer :
           <<f, u>> \in propagated' =>
             \/ <<f, u>> \in propagated
             \/ Holds(log'[f][u.from], TransferRegistered(u))
  PROVE  IInv'
<1>1. \A u \in Transfer : u.from \in Wallet
  BY EventTypes
<1> QED BY <1>1 DEF IInv

\* Empty logs, and nothing sent: the invariant holds initially.
LEMMA InvInit == Init => IInv
<1> SUFFICES ASSUME Init PROVE IInv
  OBVIOUS
<1>1. log \in Logs /\ \A e \in Elder, w \in Wallet : log[e][w] = << >>
  BY DEF Init, Logs
<1>2. \A e \in Elder, w \in Wallet : DOMAIN log[e][w] = {}
  BY <1>1
<1>3. TypeOK
  BY <1>1 DEF Init, TypeOK, Logs
<1>4. LogInv(log, shares)
  BY <1>1, <1>2 DEF Init, LogInv, AtHome, NoRepeats, SharesStored, Proven,
                    Ordered, Backed
<1> QED BY <1>3, <1>4 DEF IInv, Init

\* Every step of an elder, and every crash, keeps the invariant.
LEMMA InvNext == IInv /\ [Next]_vars => IInv'
<1> SUFFICES ASSUME IInv, [Next]_vars PROVE IInv'
  OBVIOUS
<1>1. log \in Logs /\ LogInv(log, shares) /\ TypeOK
  BY DEF IInv, LogInv
<1>2. CASE UNCHANGED vars
  <2>1. /\ log' = log /\ shares' = shares /\ propagated' = propagated
        /\ TypeOK'
    BY <1>1, <1>2 DEF vars, TypeOK
  <2> QED BY <1>1, <2>1, Preserved
<1>3. ASSUME NEW e \in Elder, Crash(e) PROVE IInv'
  <2>1. /\ log' = log /\ shares' = shares /\ propagated' = propagated
        /\ TypeOK'
    BY <1>1, <1>3 DEF Crash, TypeOK
  <2> QED BY <1>1, <2>1, Preserved
<1>4. ASSUME NEW e \in Elder, NEW t \in Transfer, Validate(e, t) PROVE IInv'
  <2>1. TransferValidated(t) \in Event /\ t.from \in Wallet
    BY EventTypes
  <2>2. log' = Insert(log, e, t.from, TransferValidated(t))
    BY <1>4 DEF Validate, Store, Insert
  <2>3. Sound(log, shares, t.from, e, TransferValidated(t))
    BY <1>4, ValidateSound
  <2>4. /\ shares' = shares \cup {<<e, t>>}
        /\ propagated' = propagated
    BY <1>4 DEF Validate
  <2>5. LogInv(Insert(log, e, t.from, TransferValidated(t)), shares \cup {<<e, t>>})
    <3>1. TransferValidated(t).kind = "validated" /\ TransferValidated(t).t = t
      BY DEF TransferValidated
    <3> QED BY <1>1, <2>1, <2>3, <3>1, InsertSound
  <2>6. \A f \in Elder, v \in Wallet : \A x : Holds(log[f][v], x) => Holds(log'[f][v], x)
    BY <1>1, <2>1, <2>2, InsertKeeps
  <2>7. TypeOK'
    BY <1>1, <1>4, <2>2, <2>4, <2>5 DEF TypeOK, Validate, LogInv, Logs
  <2> QED BY <2>2, <2>4, <2>5, <2>6, <2>7, Preserved
<1>5. ASSUME NEW e \in Elder, NEW t \in Transfer, Register(e, t) PROVE IInv'
  <2>1. CanRegister(e, t) /\ log' = Registered(e, t) /\ shares' = shares
    BY <1>5 DEF Register
  <2>2. \A f \in Elder, u \in Transfer :
          <<f, u>> \in propagated' => <<f, u>> \in propagated \/ (f = e /\ u = t)
    BY <1>5 DEF Register
  <2>3. TypeOK'
    BY <1>1, <1>5, <2>1, RegisteredKeeps DEF TypeOK, Register, LogInv, Logs
  <2> QED BY <2>1, <2>2, <2>3, RegisteredKeeps, Preserved
<1>6. ASSUME NEW e \in Elder, NEW t \in Transfer, ReceivePropagated(e, t)
      PROVE  IInv'
  <2>1. shares' = shares /\ propagated' = propagated
    BY <1>6 DEF ReceivePropagated
  <2>2. t \in ForeignCredit \/ (Signed(shares, t) /\ Debited(log, t))
    BY <1>6, PropagatedIsDebited DEF ReceivePropagated
  <2>3. CASE log' = log
    <3>1. TypeOK'
      BY <1>1, <1>6, <2>3 DEF TypeOK, ReceivePropagated
    <3> QED BY <1>1, <2>1, <2>3, <3>1, Preserved
  <2>4. CASE log' = [log EXCEPT ![e] = Credited(@, t)]
    <3>1. /\ LogInv(log', shares)
          /\ \A f \in Elder, v \in Wallet : \A x :
               Holds(log[f][v], x) => Holds(log'[f][v], x)
      BY <1>1, <2>2, <2>4, CreditedKeeps
    <3>2. TypeOK'
      BY <1>1, <1>6, <3>1 DEF TypeOK, ReceivePropagated, LogInv, Logs
    <3> QED BY <2>1, <3>1, <3>2, Preserved
  <2> QED BY <1>6, <2>3, <2>4 DEF ReceivePropagated
<1>7. ASSUME NEW e \in Elder, NEW t \in Transfer, CrashInPayment(e, t)
      PROVE  IInv'
  <2>1. /\ CanRegister(e, t) /\ log' = Registered(e, t) /\ shares' = shares
        /\ propagated' = propagated
    BY <1>7 DEF CrashInPayment
  <2>2. TypeOK'
    BY <1>1, <1>7, <2>1, RegisteredKeeps DEF TypeOK, CrashInPayment, LogInv, Logs
  <2> QED BY <2>1, <2>2, RegisteredKeeps, Preserved
<1>8. ASSUME NEW e \in Elder, NEW t \in Transfer, NEW d \in DataCmd,
             NEW covered \in BOOLEAN, ProcessPayment(e, t, d, covered)
      PROVE  IInv'
  <2> DEFINE R == Registered(e, t)
  <2>1. CanRegister(e, t) /\ shares' = shares /\ propagated' = propagated
    BY <1>8 DEF ProcessPayment
  <2>2. /\ LogInv(R, shares) /\ R \in Logs
        /\ Holds(R[e][t.from], TransferRegistered(t))
        /\ \A f \in Elder, v \in Wallet : \A x : Holds(log[f][v], x) => Holds(R[f][v], x)
    BY <2>1, RegisteredKeeps DEF LogInv
  <2>3. CASE log' = R
    <3>1. TypeOK'
      BY <1>1, <1>8, <2>2, <2>3 DEF TypeOK, ProcessPayment, Logs
    <3> QED BY <2>1, <2>2, <2>3, <3>1, Preserved
  <2>4. CASE log' = [log EXCEPT ![e] = Credited(R[e], t)]
    <3>1. log' = [R EXCEPT ![e] = Credited(@, t)]
      BY <2>4 DEF Registered, Store, Logs
    <3>2. Signed(shares, t) /\ Debited(R, t)
      BY <2>1, <2>2 DEF CanRegister, Certified, Debited
    <3> HIDE DEF R
    <3>3. /\ LogInv(log', shares)
          /\ \A f \in Elder, v \in Wallet : \A x :
               Holds(R[f][v], x) => Holds(log'[f][v], x)
      BY <2>2, <3>1, <3>2, CreditedKeeps
    <3>4. TypeOK'
      BY <1>1, <1>8, <3>3 DEF TypeOK, ProcessPayment, LogInv, Logs
    <3> QED BY <2>1, <2>2, <3>3, <3>4, Preserved
  <2> QED BY <1>8, <2>3, <2>4 DEF ProcessPayment
<1> QED BY <1>2, <1>3, <1>4, <1>5, <1>6, <1>7, <1>8 DEF Next

-----------------------------------------------------------------------------
\* In every reachable state the variables have their types, and the
\* strengthened invariant of logs, shares and propagations holds.
THEOREM Invariance == Spec => []IInv
<1>1. Init => IInv
  BY InvInit
<1>2. IInv /\ [Next]_vars => IInv'
  BY InvNext
<1> QED BY <1>1, <1>2, PTL DEF Spec

\* Type correctness of the elders' logs and of the messages they send.
THEOREM TypeCorrect == Spec => []TypeOK
BY Invariance, PTL DEF IInv

\* Agreement: at most one transfer per debit ever gathers a proof
\* (validate stores the pending debit before it answers).
THEOREM Agreement == Spec => []OneTransferPerDebit
BY Invariance, InvImplies, PTL

\* Consistency: the registrations of all elders agree, debit by debit.
THEOREM Consistency == Spec => []ReplicasAgree
BY Invariance, InvImplies, PTL

\* Registration follows the debit counters without gaps.
THEOREM Order == Spec => []DebitsInOrder
BY Invariance, InvImplies, PTL

\* A credit is stored once per elder, on whichever path it arrives.
THEOREM SingleCredit == Spec => []NoDoubleCredit
BY Invariance, InvImplies, PTL

\* No credit without an agreed and registered debit.
THEOREM BackedCredit == Spec => []CreditIsBacked
BY Invariance, InvImplies, PTL

-----------------------------------------------------------------------------
(* Payments *)

\* A write that an elder passed on has its payment registered there, and is
\* the only one with this payment.
PaidOnce ==
  \A e \in Elder, t \in Transfer, c \in DataCmd :
    <<e, t, c>> \in forwarded =>
      /\ Holds(log[e][t.from], TransferRegistered(t))
      /\ \A d \in DataCmd : <<e, t, d>> \in forwarded => c = d

\* Steps that pass on no write: logs only grow.
LEMMA PaidKeeps ==
  ASSUME PaidOnce, forwarded' = forwarded,
         \A f \in Elder, v \in Wallet : \A x :
           Holds(log[f][v], x) => Holds(log'[f][v], x)
  PROVE  PaidOnce'
<1>1. \A u \in Transfer : u.from \in Wallet
  BY EventTypes
<1> QED BY <1>1 DEF PaidOnce

\* process_payment registers the debit, which it could not do a second time.
LEMMA PaidNext == IInv /\ PaidOnce /\ [Next]_vars => PaidOnce'
<1> SUFFICES ASSUME IInv, PaidOnce, [Next]_vars PROVE PaidOnce'
  OBVIOUS
<1>1. log \in Logs /\ LogInv(log, shares)
  BY DEF IInv, LogInv
<1>2. CASE UNCHANGED vars \/ \E e \in Elder : Crash(e)
  <2>1. log' = log /\ forwarded' = forwarded
    BY <1>2 DEF vars, Crash
  <2> QED BY <2>1, PaidKeeps
<1>3. ASSUME NEW e \in Elder, NEW t \in Transfer, Validate(e, t) PROVE PaidOnce'
  <2>1. TransferValidated(t) \in Event /\ t.from \in Wallet
    BY EventTypes
  <2>2. log' = Insert(log, e, t.from, TransferValidated(t)) /\ forwarded' = forwarded
    BY <1>3 DEF Validate, Store, Insert
  <2> QED BY <1>1, <2>1, <2>2, InsertKeeps, PaidKeeps
<1>4. ASSUME NEW e \in Elder, NEW t \in Transfer,
             Register(e, t) \/ CrashInPayment(e, t)
      PROVE  PaidOnce'
  <2>1. CanRegister(e, t) /\ log' = Registered(e, t) /\ forwarded' = forwarded
    BY <1>4 DEF Register, CrashInPayment
  <2> QED BY <2>1, RegisteredKeeps, PaidKeeps
<1>5. ASSUME NEW e \in Elder, NEW t \in Transfer, ReceivePropagated(e, t)
      PROVE  PaidOnce'
  <2>1. t \in ForeignCredit \/ (Signed(shares, t) /\ Debited(log, t))
    BY <1>5, PropagatedIsDebited DEF ReceivePropagated
  <2>2. log' = log \/ log' = [log EXCEPT ![e] = Credited(@, t)]
    BY <1>5 DEF ReceivePropagated
  <2>3. \A f \in Elder, v \in Wallet : \A x : Holds(log[f][v], x) => Holds(log'[f][v], x)
    <3>1. CASE log' = log
      BY <3>1
    <3>2. CASE log' = [log EXCEPT ![e] = Credited(@, t)]
      BY <1>1, <2>1, <3>2, CreditedKeeps
    <3> QED BY <2>2, <3>1, <3>2
  <2> QED BY <1>5, <2>3, PaidKeeps DEF ReceivePropagated
<1>6. ASSUME NEW e \in Elder, NEW t \in Transfer, NEW d \in DataCmd,
             NEW covered \in BOOLEAN, ProcessPayment(e, t, d, covered)
      PROVE  PaidOnce'
  <2> DEFINE R == Registered(e, t)
  <2>1. CanRegister(e, t)
    BY <1>6 DEF ProcessPayment
  <2>2. /\ LogInv(R, shares) /\ R \in Logs
        /\ Holds(R[e][t.from], TransferRegistered(t))
        /\ \A f \in Elder, v \in Wallet : \A x : Holds(log[f][v], x) => Holds(R[f][v], x)
    BY <2>1, RegisteredKeeps DEF LogInv
  <2>3. \A f \in Elder, v \in Wallet : \A x : Holds(R[f][v], x) => Holds(log'[f][v], x)
    <3>1. CASE log' = R
      BY <3>1
    <3>2. CASE log' = [log EXCEPT ![e] = Credited(R[e], t)]
      <4>1. log' = [R EXCEPT ![e] = Credited(@, t)]
        BY <3>2, <1>1 DEF Registered, Store, Logs
      <4>2. Signed(shares, t) /\ Debited(R, t)
        BY <2>1, <2>2 DEF CanRegister, Certified, Debited
      <4> HIDE DEF R
      <4> QED BY <2>2, <4>1, <4>2, CreditedKeeps
    <3> QED BY <1>6, <3>1, <3>2 DEF ProcessPayment
  <2>4. forwarded' \subseteq forwarded \cup {<<e, t, d>>}
    BY <1>6 DEF ProcessPayment
  <2>5. ASSUME NEW c \in DataCmd PROVE <<e, t, c>> \notin forwarded
    <3>1. ~Knows(log[e][t.from], "registered", Id(t))
      BY <2>1 DEF CanRegister, RegisterOutcome
    <3>2. ~Holds(log[e][t.from], TransferRegistered(t))
      BY <3>1 DEF Knows, Holds, TransferRegistered
    <3> QED BY <3>2 DEF PaidOnce
  <2> HIDE DEF R
  <2>6. \A f \in Elder, u \in Transfer, c \in DataCmd :
          <<f, u, c>> \in forwarded' =>
            <<f, u, c>> \in forwarded \/ (f = e /\ u = t /\ c = d)
    BY <2>4
  <2>7. t.from \in Wallet /\ \A u \in Transfer : u.from \in Wallet
    BY EventTypes
  <2> QED BY <2>2, <2>3, <2>5, <2>6, <2>7 DEF PaidOnce
<1> QED BY <1>2, <1>3, <1>4, <1>5, <1>6 DEF Next

\* A payment buys one write: two quorums that passed on writes for it share an
\* elder, which passed on one of them only.
THEOREM OneWrite == Spec => []OneWritePerPayment
<1>1. Init => PaidOnce
  BY DEF Init, PaidOnce
<1>2. PaidOnce => OneWritePerPayment
  <2> SUFFICES ASSUME PaidOnce, NEW t \in Transfer, NEW c \in DataCmd, NEW d \in DataCmd,
                      NEW Q \in Quorum, \A e \in Q : <<e, t, c>> \in forwarded,
                      NEW R \in Quorum, \A e \in R : <<e, t, d>> \in forwarded
               PROVE  c = d
    BY DEF OneWritePerPayment
  <2>1. PICK e \in Elder : e \in Q /\ e \in R
    BY SectionAssumption
  <2> QED BY <2>1 DEF PaidOnce
<1> QED BY <1>1, <1>2, PaidNext, Invariance, PTL DEF Spec

=============================================================================
