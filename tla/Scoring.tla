------------------------------- MODULE Scoring -------------------------------
(***************************************************************************)
(* The arithmetic of scoring.py in fixed point.  Scores are rounded to six *)
(* decimals by the code, so a score is an integer number of score units    *)
(* and One units are 1.0; the instances choose a coarse unit.              *)
(***************************************************************************)
EXTENDS Integers, FiniteSetsExt

CONSTANTS
  One,        \* 1.0 in score units
  AlphaNum,   \* ema_alpha is AlphaNum / AlphaDen
  AlphaDen

ASSUME ScoringAssumption ==
  /\ One \in Nat \ {0}
  /\ AlphaNum \in Nat /\ AlphaDen \in Nat \ {0} /\ AlphaNum <= AlphaDen

NoRate == -1   \* no measurement: None in the code

Clip(x) == Max({0, Min({One, x})})

\* n / d to the nearest unit, halves to even, as round() does.
RoundDiv(n, d) ==
  LET q == n \div d
      twice == 2 * (n % d)
  IN IF twice > d \/ (twice = d /\ q % 2 = 1) THEN q + 1 ELSE q

\* The sum of a miner's k best values, which are given by their position.
top_k_epoch_score(values, k) ==
  LET ahead(i) == {j \in DOMAIN values :
                     values[j] > values[i] \/ (values[j] = values[i] /\ j < i)}
      best == {i \in DOMAIN values : Cardinality(ahead(i)) < k}
  IN SumFunctionOnSet([i \in DOMAIN values |-> Max({0, values[i]})], best)

\* One miner's EMA step.  An infrastructure failure of the whole epoch leaves
\* the miner's score where it was.
update_ema_score_always(previous, current, infraOnly) ==  \* mutant: outages count as zero
  RoundDiv(AlphaNum * current + (AlphaDen - AlphaNum) * previous, AlphaDen)

update_ema_score(previous, current, infraOnly) ==
  IF infraOnly
    THEN previous
    ELSE RoundDiv(AlphaNum * current + (AlphaDen - AlphaNum) * previous, AlphaDen)

\* A cached measurement replaces the frontier term of a positive value, and
\* never turns a zero into a credit.  A measured rate is given by the value it
\* has in the task value.
recalibrated_from_zero(value, frontier, rate) ==  \* mutant: a failed package is rescued
  IF rate = NoRate THEN value ELSE Clip(value + (rate - frontier))

recalibrated_task_value(value, frontier, rate) ==
  IF rate = NoRate \/ value <= 0 THEN value ELSE Clip(value + (rate - frontier))

=============================================================================
