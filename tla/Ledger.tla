------------------------------- MODULE Ledger -------------------------------
(***************************************************************************)
(* What a section promises the owners of its wallets: one ledger, in which *)
(* each wallet spends, debit by debit, no more than it was credited, and   *)
(* each credit is made once.                                               *)
(***************************************************************************)
EXTENDS Integers, FiniteSetsExt

CONSTANTS Transfer, ForeignCredit

VARIABLES
  agreed,   \* the debits the section has agreed on
  credited  \* the transfers credited to their recipients

Amount(S) == MapThenSumSet(LAMBDA t : t.amt, S)

\* What wallet w has been credited and has not spent.
Funds(w) == Amount({t \in credited : t.to = w})
              - Amount({t \in agreed : t.from = w})

Init == agreed = {} /\ credited = {}

Agree(t) ==
  /\ \A u \in agreed : u.from = t.from => u.ctr < t.ctr
  /\ \A c \in 0..(t.ctr - 1) : \E u \in agreed : u.from = t.from /\ u.ctr = c
  /\ t.amt <= Funds(t.from)
  /\ agreed' = agreed \cup {t}
  /\ UNCHANGED credited

Credit(t) ==
  /\ t \in agreed \cup ForeignCredit
  /\ t \notin credited
  /\ credited' = credited \cup {t}
  /\ UNCHANGED agreed

Next == \E t \in Transfer : Agree(t) \/ Credit(t)

Spec == Init /\ [][Next]_<<agreed, credited>>
=============================================================================
