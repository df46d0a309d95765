----------------------------- MODULE RewardCalc -----------------------------
(***************************************************************************)
(* How much is paid out in rewards, and to whom                            *)
(* (section_funds/reward_calc.rs).  nodes[n] is the age of node n; the     *)
(* wallet of a node stands for itself.  Amounts are nanos, below 2^64.     *)
(***************************************************************************)
EXTENDS Integers, FiniteSetsExt, SequencesExt

CONSTANT MIN_REWARD_AGE

\* Payments plus at most as much newly minted, up to the section's supply; above
\* that supply payments are burned.
get_reward_and_mint_amount(payments, section_managed, max_supply) ==
  IF max_supply > section_managed
    THEN payments + Min({payments, max_supply - section_managed})
    ELSE Max({payments - (section_managed - max_supply), 0})

get_buckets(nodes) ==
  LET ages == {age \in Range(nodes) : age >= MIN_REWARD_AGE} IN
  [age \in ages |-> {n \in DOMAIN nodes : nodes[n] = age}]

\* The number of decimal digits.
DigitCount[n \in Nat] == IF n < 10 THEN 1 ELSE 1 + DigitCount[n \div 10]

\* Shortens the iterations.
bucket_multiplier(amount, buckets) ==
  LET max_age    == Max(DOMAIN buckets)
      node_count == Cardinality(UNION Range(buckets))
      share      == amount \div (max_age * node_count)
  IN  Max({1, share \div (max_age * DigitCount[amount])})

\* What each bucket gets.  The loop pays in rounds, from the youngest bucket to
\* the oldest, each the work of its nodes, which doubles with every year; in the
\* last round the buckets get what is left, in that order.
Counters(amount, buckets) ==
  LET multiplier   == bucket_multiplier(amount, buckets)
      Work(age)    == 2^age * Cardinality(buckets[age]) * multiplier
      Younger(age) == MapThenSumSet(Work, {a \in DOMAIN buckets : a < age})
      round        == MapThenSumSet(Work, DOMAIN buckets)
      LastTurn(age) == Min({Work(age), Max({(amount % round) - Younger(age), 0})})
  IN  [age \in DOMAIN buckets |-> (amount \div round) * Work(age) + LastTurn(age)]

\* Faulty variant of PerWallet: the remainder is dropped.
PerWalletRounded(n, reward, bucket) == reward \div Cardinality(bucket)

\* The first node of a bucket gets the remainder.
PerWallet(n, reward, bucket) ==
  reward \div Cardinality(bucket)
    + IF n = Min(bucket) THEN reward % Cardinality(bucket) ELSE 0

\* The credits, for the nodes of the buckets that got anything.
distribute_rewards(amount, nodes) ==
  LET buckets  == get_buckets(nodes)
      counters == Counters(amount, buckets)
      paid     == {n \in UNION Range(buckets) : counters[nodes[n]] > 0}
  IN  IF DOMAIN buckets = {} THEN <<>>
      ELSE [n \in paid |->
             [age    |-> nodes[n],
              amount |-> PerWallet(n, counters[nodes[n]], buckets[nodes[n]])]]
=============================================================================
