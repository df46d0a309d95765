--------------------------- MODULE WalletReplica ---------------------------
(***************************************************************************)
(* One wallet's event log, as an elder keeps it in a TransferStore, and    *)
(* the AT2 rules applied to it.  The log is the whole state of a wallet:   *)
(* every operation of Replicas rebuilds the wallet from it (load_wallet)   *)
(* before it decides anything.                                             *)
(*                                                                         *)
(* The rules themselves live in the sn_transfers crate, outside this       *)
(* repository.  They are modelled from what replicas.rs asks of them:      *)
(* step 1 is the "main business logic validation of a debit", step 2       *)
(* checks "agreement, and order at debit source", step 3 checks "credit    *)
(* idempotency at credit destination"; a wallet admits one pending debit   *)
(* at a time, and its amounts are unsigned.                                *)
(***************************************************************************)
EXTENDS Integers, Sequences

(***************************************************************************)
(* A transfer debits `from' under its counter `ctr' and credits `to'.  The *)
(* pair (from, ctr) is the DebitId; the credit carries the same identity.  *)
(***************************************************************************)
TransferOf(Wallet, Amount) ==
  [from : Wallet, ctr : Nat, to : Wallet, amt : Amount]

Id(t) == <<t.from, t.ctr>>

\* sn_data_types::ReplicaEvent.
TransferValidated(t)  == [kind |-> "validated",  t |-> t]
TransferRegistered(t) == [kind |-> "registered", t |-> t]
TransferPropagated(t) == [kind |-> "propagated", t |-> t]

EventOf(Transfer) ==
  [kind : {"validated", "registered", "propagated"}, t : Transfer]

Holds(log, event) == \E i \in DOMAIN log : log[i] = event

Knows(log, kind, id) ==
  \E i \in DOMAIN log : log[i].kind = kind /\ Id(log[i].t) = id

-----------------------------------------------------------------------------
(* TransferStore *)

\* The key of a new event is the number of events, so the log only grows at
\* its end, and get_all returns it sorted by key: in insertion order.
try_insert(log, event) == Append(log, event)

-----------------------------------------------------------------------------
(* WalletReplica *)

Effect(event) ==
  CASE event.kind = "propagated" -> event.t.amt
    [] event.kind = "registered" -> 0 - event.t.amt
    [] event.kind = "validated"  -> 0

\* The running balance: Running(log)[n] is the sum of the first n effects.
Running(log) ==
  LET run[n \in 0..Len(log)] ==
        IF n = 0 THEN 0 ELSE run[n - 1] + Effect(log[n])
  IN  run

Balance(log) == Running(log)[Len(log)]

\* from_history applies the events one by one and stops with an error at the
\* first one that overdraws the wallet: amounts are unsigned.
Loadable(log) ==
  LET run == Running(log) IN \A n \in 1..Len(log) : run[n] >= 0

\* Every earlier debit of the sender is registered and this one is not.
IsNextDebit(log, t) ==
  /\ \A c \in 0..(t.ctr - 1) : Knows(log, "registered", <<t.from, c>>)
  /\ ~Knows(log, "registered", Id(t))

\* Step 1: a positive amount to someone else, in order, with no other debit
\* pending under this counter, and covered by the balance.
ValidateOk(log, t) ==
  /\ t.from # t.to
  /\ t.amt > 0
  /\ IsNextDebit(log, t)
  /\ ~Knows(log, "validated", Id(t))
  /\ t.amt <= Balance(log)

\* Step 2: order at the debit source.  "none" is the library's Ok(None).
RegisterOutcome(log, t) ==
  IF Knows(log, "registered", Id(t)) THEN "none"
  ELSE IF IsNextDebit(log, t) THEN "some" ELSE "err"

\* Step 3: credit idempotency.
PropagateOutcome(log, t) ==
  IF Knows(log, "propagated", Id(t)) THEN "none" ELSE "some"
=============================================================================
