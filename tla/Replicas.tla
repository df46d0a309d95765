------------------------------ MODULE Replicas ------------------------------
(***************************************************************************)
(* The AT2 replicas of one section: every elder keeps one log per wallet   *)
(* (transfers/replicas.rs, transfers/store.rs) and answers the three steps *)
(* of a transfer and the payment of a data write (transfers/mod.rs).       *)
(*                                                                         *)
(*   1. a client asks every elder to validate a transfer and collects      *)
(*      their signature shares,                                            *)
(*   2. a quorum of shares is a proof, with which the client registers     *)
(*      the debit, or pays for a data write, at every elder,               *)
(*   3. an elder that registered a debit sends the credit to the           *)
(*      recipient's section, where it counts once a quorum has sent it.    *)
(*                                                                         *)
(* Each operation is one step: it holds the write lock of the wallet's     *)
(* store from load_wallet to try_insert.  Messages are sets that only      *)
(* grow, so any message may be lost for ever (never used), delayed,        *)
(* reordered or delivered again.  A client is free to ask for conflicting  *)
(* transfers, as one does that retries after losing its state.             *)
(***************************************************************************)
EXTENDS WalletReplica, FiniteSets

CONSTANTS
  Elder,          \* the elders of the section, for one section key
  Quorum,         \* sets of elders whose shares combine under that key
  Wallet,         \* the keys of all wallets
  SectionWallet,  \* the wallet named by the section key
  Transfer,       \* the transfers clients ask for, and those from elsewhere
  ForeignCredit,  \* the transfers whose debit another section has registered
  DataCmd,        \* the data writes a payment can come with
  MaxDown         \* how many elders may crash

ASSUME SectionAssumption ==
  /\ Quorum \subseteq SUBSET Elder
  /\ \A Q, R \in Quorum : Q \cap R # {}

ASSUME TransferAssumption ==
  /\ SectionWallet \in Wallet
  /\ Transfer \subseteq TransferOf(Wallet, Nat)
  /\ ForeignCredit \subseteq Transfer
  /\ MaxDown \in Nat

VARIABLES
  log,         \* log[e][w]: the events elder e has stored for wallet w
  shares,      \* <<e, t>>: e's TransferValidated for t reached the client
  propagated,  \* <<e, t>>: e sent PropagateTransfer for t
  refused,     \* <<e, t>>: e answered the credit of t with an error
  forwarded,   \* <<e, t, d>>: e passed on data write d, paid with t
  down         \* the elders that have crashed

vars == <<log, shares, propagated, refused, forwarded, down>>

Event == EventOf(Transfer)

TypeOK ==
  /\ log \in [Elder -> [Wallet -> Seq(Event)]]
  /\ shares \subseteq Elder \X Transfer
  /\ propagated \subseteq Elder \X Transfer
  /\ refused \subseteq Elder \X Transfer
  /\ forwarded \subseteq Elder \X Transfer \X DataCmd
  /\ down \subseteq Elder

\* Enough elders have sent the same statement for it to carry the section's
\* signature: a TransferAgreementProof, or an aggregated node message.
Signed(sent, t) == \E Q \in Quorum : \A e \in Q : <<e, t>> \in sent

\* Faulty variant of Certified: one share is taken for a proof.
CertifiedByOne(t) == \E e \in Elder : <<e, t>> \in shares

Certified(t) == Signed(shares, t)

Store(e, w, event) == [log EXCEPT ![e][w] = try_insert(@, event)]

\* stores.get(key): a wallet's store comes into being with its first credit,
\* so an elder has one exactly when its log is not empty.
HasStore(e, w) == log[e][w] # << >>

Init ==
  /\ log = [e \in Elder |-> [w \in Wallet |-> << >>]]
  /\ shares = {}
  /\ propagated = {}
  /\ refused = {}
  /\ forwarded = {}
  /\ down = {}

-----------------------------------------------------------------------------
\* replicas.validate gets as far as storing the event.
CanValidate(e, t) ==
  /\ HasStore(e, t.from)
  /\ Loadable(log[e][t.from])
  /\ ValidateOk(log[e][t.from], t)

\* Faulty variant of Validate: the pending debit is not stored.
ValidateUnstored(e, t) ==
  /\ e \notin down
  /\ CanValidate(e, t)
  /\ shares' = shares \cup {<<e, t>>}
  /\ UNCHANGED <<log, propagated, refused, forwarded, down>>

\* Step 1.  The pending debit is on disk before the share leaves the elder.
Validate(e, t) ==
  /\ e \notin down
  /\ CanValidate(e, t)
  /\ log' = Store(e, t.from, TransferValidated(t))
  /\ shares' = shares \cup {<<e, t>>}
  /\ UNCHANGED <<propagated, refused, forwarded, down>>

\* Faulty variant of CanRegister: the outcome of step 2 is ignored.
CanRegisterAnyway(e, t) ==
  /\ Certified(t)
  /\ HasStore(e, t.from)
  /\ Loadable(log[e][t.from])

\* replicas.register gets as far as storing the event.
CanRegister(e, t) ==
  /\ Certified(t)
  /\ HasStore(e, t.from)
  /\ Loadable(log[e][t.from])
  /\ RegisterOutcome(log[e][t.from], t) = "some"

Registered(e, t) == Store(e, t.from, TransferRegistered(t))

\* Applying the stored event to the wallet is the last step of register.
Applies(e, t) == Loadable(Registered(e, t)[e][t.from])

\* Faulty variant of Register: the credit is not propagated.
RegisterSilently(e, t) ==
  /\ e \notin down
  /\ CanRegister(e, t)
  /\ log' = Registered(e, t)
  /\ UNCHANGED <<shares, propagated, refused, forwarded, down>>

\* Step 2.  The event is stored first; when it cannot be applied, register
\* answers with the error and nothing is propagated, but the event stays.
Register(e, t) ==
  /\ e \notin down
  /\ CanRegister(e, t)
  /\ log' = Registered(e, t)
  /\ propagated' = IF Applies(e, t) THEN propagated \cup {<<e, t>>}
                                    ELSE propagated
  /\ UNCHANGED <<shares, refused, forwarded, down>>

\* Faulty variant of Credited: a known credit is stored again.
CreditedAgain(ls, t) == [ls EXCEPT ![t.to] = try_insert(@, TransferPropagated(t))]

\* replicas.receive_propagated on the wallets ls of one elder: the new
\* wallets, the same ones for a known credit.
Credited(ls, t) ==
  IF PropagateOutcome(ls[t.to], t) = "some"
  THEN [ls EXCEPT ![t.to] = try_insert(@, TransferPropagated(t))]
  ELSE ls

\* Faulty variant of ReceivePropagated: a share of the debit is taken for a proven credit.
ReceiveUnsigned(e, t) ==
  /\ e \notin down
  /\ t \in ForeignCredit \/ \E f \in Elder : <<f, t>> \in shares
  /\ Loadable(log[e][t.to])
  /\ log' = [log EXCEPT ![e] = Credited(@, t)]
  /\ UNCHANGED <<shares, propagated, refused, forwarded, down>>

\* Step 3.  An elder that cannot load the wallet answers with an error.
ReceivePropagated(e, t) ==
  /\ e \notin down
  /\ t \in ForeignCredit \/ Signed(propagated, t)
  /\ IF Loadable(log[e][t.to])
     THEN /\ log' = [log EXCEPT ![e] = Credited(@, t)]
          /\ UNCHANGED refused
     ELSE /\ refused' = refused \cup {<<e, t>>}
          /\ UNCHANGED log
  /\ UNCHANGED <<shares, propagated, forwarded, down>>

-----------------------------------------------------------------------------
\* A data write with its payment.  The debit and the credit are two stores;
\* the transfers write lock keeps every other operation of the elder out.
\* Too low a payment is kept and the write is dropped, as it is when the
\* section is full; only a write whose price is covered is passed on.
ProcessPayment(e, t, d, covered) ==
  /\ e \notin down
  /\ t.to = SectionWallet
  /\ CanRegister(e, t)
  /\ IF Applies(e, t) /\ Loadable(log[e][t.to])
     THEN /\ log' = [log EXCEPT ![e] = Credited(Registered(e, t)[e], t)]
          /\ forwarded' = IF covered THEN forwarded \cup {<<e, t, d>>}
                                     ELSE forwarded
     ELSE /\ log' = Registered(e, t)
          /\ UNCHANGED forwarded
  /\ UNCHANGED <<shares, propagated, refused, down>>

\* The same, cut short by a crash between the debit and the credit.
CrashInPayment(e, t) ==
  /\ e \notin down
  /\ Cardinality(down) < MaxDown
  /\ t.to = SectionWallet
  /\ CanRegister(e, t)
  /\ log' = Registered(e, t)
  /\ down' = down \cup {e}
  /\ UNCHANGED <<shares, propagated, refused, forwarded>>

\* A crashed elder does not come back under this section key: a node that
\* restarts joins again as an adult.
Crash(e) ==
  /\ e \notin down
  /\ Cardinality(down) < MaxDown
  /\ down' = down \cup {e}
  /\ UNCHANGED <<log, shares, propagated, refused, forwarded>>

Next ==
  \E e \in Elder :
    \/ Crash(e)
    \/ \E t \in Transfer :
         \/ Validate(e, t)
         \/ Register(e, t)
         \/ ReceivePropagated(e, t)
         \/ CrashInPayment(e, t)
         \/ \E d \in DataCmd, covered \in BOOLEAN :
              ProcessPayment(e, t, d, covered)

Spec == Init /\ [][Next]_vars

-----------------------------------------------------------------------------
(* Safety *)

\* Agreement: no two different transfers ever both gather a proof for the
\* same debit of a wallet.  It rests on validate storing the pending debit
\* before it hands out the share (replicas.rs, "first store to disk"), on
\* every elder, and on quorums that intersect.
OneTransferPerDebit ==
  \A t, u \in Transfer :
    Certified(t) /\ Certified(u) /\ Id(t) = Id(u) => t = u

\* Consistency of the replicas: whatever the order in which elders hear of
\* registrations and payments, no two of them ever hold different transfers
\* under the same debit, and none holds the same debit twice.
ReplicasAgree ==
  \A e, f \in Elder, w \in Wallet :
    \A i \in DOMAIN log[e][w], j \in DOMAIN log[f][w] :
      /\ log[e][w][i].kind = "registered"
      /\ log[f][w][j].kind = "registered"
      /\ Id(log[e][w][i].t) = Id(log[f][w][j].t)
      => log[e][w][i].t = log[f][w][j].t /\ (e = f => i = j)

\* A wallet's debits are registered in the order of their counters without a
\* gap, so that an elder's history of a wallet is always a prefix of what
\* the section agreed on.
DebitsInOrder ==
  \A e \in Elder, w \in Wallet : \A i \in DOMAIN log[e][w] :
    log[e][w][i].kind = "registered" =>
      \A c \in 0..(log[e][w][i].t.ctr - 1) :
        \E j \in 1..(i - 1) : /\ log[e][w][j].kind = "registered"
                              /\ Id(log[e][w][j].t) = <<w, c>>

\* No double credit: however often and along whichever path (propagation,
\* payment) a credit reaches an elder, its log holds it once.
NoDoubleCredit ==
  \A e \in Elder, w \in Wallet : \A i, j \in DOMAIN log[e][w] :
    /\ log[e][w][i].kind = "propagated"
    /\ log[e][w][j].kind = "propagated"
    /\ Id(log[e][w][i].t) = Id(log[e][w][j].t)
    => i = j

\* No money from nothing: a credit from within the section that any elder
\* holds has its debit agreed on, and registered by at least one elder.
CreditIsBacked ==
  \A e \in Elder, w \in Wallet : \A i \in DOMAIN log[e][w] :
    LET t == log[e][w][i].t IN
    log[e][w][i].kind = "propagated" /\ t \notin ForeignCredit =>
      /\ Certified(t)
      /\ \E f \in Elder : Holds(log[f][t.from], TransferRegistered(t))

\* A payment buys one write: a proof sent along with different writes gets
\* at most one of them past a quorum, because a registered debit cannot be
\* registered again by process_payment.
OneWritePerPayment ==
  \A t \in Transfer, c, d \in DataCmd :
    /\ \E Q \in Quorum : \A e \in Q : <<e, t, c>> \in forwarded
    /\ \E Q \in Quorum : \A e \in Q : <<e, t, d>> \in forwarded
    => c = d

\* "Since this leads to a credit, there is no requirement on order"
\* (receive_propagated): an elder never answers a proven credit with an
\* error because of the order in which it heard of credits and debits.  The
\* code does not keep this.
CreditNeedsNoOrder == refused = {}
-----------------------------------------------------------------------------
(* What the section promises *)

\* Elder e holds the credit of t.
HoldsCredit(e, t) == Holds(log[e][t.to], TransferPropagated(t))

SectionLedger ==
  INSTANCE Ledger WITH
    agreed   <- {t \in Transfer : Certified(t)},
    credited <- {t \in Transfer : \E e \in Elder : HoldsCredit(e, t)}

\* Seen from outside, the elders are one ledger: debits are agreed on in
\* counter order, each covered by what the wallet was credited before, and
\* a credit follows its agreed debit, once.
ImplementsLedger == SectionLedger!Spec

-----------------------------------------------------------------------------
(* Liveness *)

\* Clients send a request again until it is answered, routing delivers what
\* is sent, and an elder keeps handling what is delivered to it.
Handle(e) ==
  \E t \in Transfer :
    Validate(e, t) \/ Register(e, t) \/ ReceivePropagated(e, t)

Fairness == \A e \in Elder : WF_vars(Handle(e))

FairSpec == Spec /\ Fairness

\* A debit that the section agreed on reaches its recipient: a quorum of the
\* elders ends up holding the credit, even if others of them have refused
\* it.
AgreedIsSettled ==
  \A t \in Transfer :
    Certified(t) ~> \E Q \in Quorum : \A e \in Q : HoldsCredit(e, t)
=============================================================================
