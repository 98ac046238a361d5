------------------------ MODULE EpochEvaluationProofs ------------------------
(***************************************************************************)
(* The safety of EpochEvaluation for every set of miners, packages, quotas *)
(* and budgets: what earns a credit, what the panel budget pays for, what  *)
(* stays in the archive and how scores and EMA follow from the rows.       *)
(***************************************************************************)
EXTENDS EpochEvaluation, FiniteSetTheorems, SequenceTheorems, WellFoundedInduction, TLAPS

-----------------------------------------------------------------------------
(***************************************************************************)
(* Sums over finite sets.                                                  *)
(***************************************************************************)

\* Every nonempty set of natural numbers has a least element: the induction
\* the lemmas on sums rest on.
LEMMA LeastNat ==
  ASSUME NEW T, T \subseteq Nat, T # {}
  PROVE  \E n \in T : \A m \in T : n <= m
  <1> DEFINE R == {ss \in Nat \X Nat : ss[1] < ss[2]}
  <1>1. IsWellFoundedOn(R, Nat)
    BY NatLessThanWellFounded DEF OpToRel
  <1> HIDE DEF R
  <1>2. PICK n \in T : \A m \in T : ~(<<m, n>> \in R)
    BY <1>1, WFMin
  <1>3. \A a, b \in Nat : a < b => <<a, b>> \in R
    BY DEF R
  <1> HIDE DEF R
  <1>4. ASSUME NEW m \in T PROVE n <= m
    <2>1. n \in Nat /\ m \in Nat
      OBVIOUS
    <2>2. ~(m < n)
      BY <1>2, <1>3, <2>1
    <2>3. QED
      BY <2>1, <2>2
  <1>5. QED
    BY <1>4

\* The equation that g, a sum of f over the subsets of a set, satisfies at s.
SumStep(f, g, s) ==
  IF s = {} THEN 0 ELSE f[CHOOSE x \in s : TRUE] + g[s \ {CHOOSE x \in s : TRUE}]

\* The recursion behind a sum has a solution over the subsets of a finite set.
LEMMA SumExists ==
  ASSUME NEW S, IsFiniteSet(S), NEW f, \A x \in S : f[x] \in Nat
  PROVE  \E g \in [SUBSET S -> Nat] : \A s \in SUBSET S : g[s] = SumStep(f, g, s)
  <1> DEFINE Small(n) == {s \in SUBSET S : Cardinality(s) <= n}
             Sum(n, g) == g \in [Small(n) -> Nat] /\ \A s \in Small(n) : g[s] = SumStep(f, g, s)
             Bad == {n \in Nat : ~ \E g : Sum(n, g)}
  <1>1. \A s \in SUBSET S : IsFiniteSet(s) /\ Cardinality(s) \in Nat /\ Cardinality(s) <= Cardinality(S)
    BY FS_Subset, FS_CardinalityType
  <1>2. \A s \in SUBSET S : s # {} =>
          LET x == CHOOSE x \in s : TRUE
          IN  x \in S /\ s \ {x} \in SUBSET S /\ Cardinality(s \ {x}) = Cardinality(s) - 1
    BY <1>1, FS_RemoveElement
  <1>3. Bad = {}
    <2>1. SUFFICES ASSUME Bad # {} PROVE FALSE
      OBVIOUS
    <2>2. PICK n \in Bad : \A m \in Bad : n <= m
      BY <2>1, LeastNat
    <2>3. n \in Nat /\ ~ \E g : Sum(n, g)
      BY <2>2
    <2>4. n # 0
      <3>1. Small(0) = {{}}
        BY <1>1, FS_EmptySet
      <3>2. Sum(0, [s \in Small(0) |-> 0])
        BY <3>1 DEF SumStep
      <3>3. QED
        BY <2>3, <3>2
    <2>5. PICK g : Sum(n - 1, g)
      <3>1. n - 1 \in Nat /\ n - 1 \notin Bad
        <4> HIDE DEF Bad
        <4> QED
          BY <2>2, <2>3, <2>4
      <3> HIDE DEF Sum, Small
      <3>2. QED
        BY <3>1
    <2> DEFINE h == [s \in Small(n) |-> SumStep(f, g, s)]
    <2>6. \A s \in Small(n) : s # {} => s \ {CHOOSE x \in s : TRUE} \in Small(n - 1)
      BY <1>1, <1>2, <2>3
    <2>7. \A s \in Small(n) : SumStep(f, g, s) \in Nat
      <3>1. SUFFICES ASSUME NEW s \in Small(n), s # {} PROVE SumStep(f, g, s) \in Nat
        BY DEF SumStep
      <3> DEFINE x == CHOOSE x \in s : TRUE
      <3>2. x \in S /\ s \ {x} \in Small(n - 1)
        BY <1>2, <2>6, <3>1
      <3>3. f[x] \in Nat /\ g[s \ {x}] \in Nat
        BY <2>5, <3>2
      <3>4. SumStep(f, g, s) = f[x] + g[s \ {x}]
        BY <3>1 DEF SumStep
      <3>5. QED
        BY <3>3, <3>4
    <2>8. \A s \in Small(n - 1) : h[s] = g[s]
      <3>1. \A s \in Small(n - 1) : s \in Small(n)
        BY <1>1, <2>3
      <3>2. QED
        BY <2>5, <3>1
    <2>9. \A s \in Small(n) : SumStep(f, h, s) = SumStep(f, g, s)
      <3>1. SUFFICES ASSUME NEW s \in Small(n), s # {} PROVE SumStep(f, h, s) = SumStep(f, g, s)
        BY DEF SumStep
      <3> HIDE DEF h, Small
      <3>2. h[s \ {CHOOSE x \in s : TRUE}] = g[s \ {CHOOSE x \in s : TRUE}]
        BY <2>6, <2>8, <3>1
      <3>3. QED
        BY <3>1, <3>2 DEF SumStep
    <2>10. Sum(n, h)
      <3>1. h \in [Small(n) -> Nat]
        <4> HIDE DEF Small
        <4> QED
          BY <2>7
      <3>2. \A s \in Small(n) : h[s] = SumStep(f, h, s)
        <4> HIDE DEF Small
        <4> QED
          BY <2>9
      <3>3. QED
        BY <3>1, <3>2
    <2>11. QED
      BY <2>3, <2>10
  <1>4. PICK g : Sum(Cardinality(S), g)
    BY <1>1, <1>3
  <1>5. Small(Cardinality(S)) = SUBSET S
    BY <1>1
  <1>6. QED
    BY <1>4, <1>5

\* A sum of natural numbers is one, and a sum of zeros is 0.
LEMMA SumFacts ==
  ASSUME NEW S, IsFiniteSet(S), NEW f, \A x \in S : f[x] \in Nat
  PROVE  /\ SumFunctionOnSet(f, S) \in Nat
         /\ (\A x \in S : f[x] = 0) => SumFunctionOnSet(f, S) = 0
  <1>1. PICK g0 \in [SUBSET S -> Nat] : \A s \in SUBSET S : g0[s] = SumStep(f, g0, s)
    BY SumExists
  <1> DEFINE G == CHOOSE iter : iter = [s \in SUBSET S |-> SumStep(f, iter, s)]
  <1>2. g0 = [s \in SUBSET S |-> SumStep(f, g0, s)]
    BY <1>1
  <1>3. G = [s \in SUBSET S |-> SumStep(f, G, s)]
    BY <1>2
  <1>4. SumFunctionOnSet(f, S) = G[S]
    BY DEF SumFunctionOnSet, FoldFunctionOnSet, MapThenFoldSet, SumStep
  <1> HIDE DEF G
  <1> DEFINE Bad(z) == {n \in Nat : \E s \in SUBSET S : Cardinality(s) = n /\ ~(G[s] \in Nat /\ (z => G[s] = 0))}
  <1>5. \A s \in SUBSET S : IsFiniteSet(s) /\ Cardinality(s) \in Nat
    BY FS_Subset, FS_CardinalityType
  <1>6. ASSUME NEW z \in BOOLEAN, z => \A x \in S : f[x] = 0 PROVE Bad(z) = {}
    <2>1. SUFFICES ASSUME Bad(z) # {} PROVE FALSE
      OBVIOUS
    <2>2. PICK n \in Bad(z) : \A m \in Bad(z) : n <= m
      BY <2>1, LeastNat
    <2>3. PICK s \in SUBSET S : Cardinality(s) = n /\ ~(G[s] \in Nat /\ (z => G[s] = 0))
      BY <2>2
    <2>4. G[s] = SumStep(f, G, s)
      BY <1>3
    <2>5. s # {}
      BY <2>3, <2>4 DEF SumStep
    <2> DEFINE x == CHOOSE x \in s : TRUE
    <2>6. x \in s /\ x \in S /\ s \ {x} \in SUBSET S
      BY <2>5
    <2>7. Cardinality(s \ {x}) = n - 1
      BY <1>5, <2>3, <2>6, FS_RemoveElement
    <2>8. G[s \ {x}] \in Nat /\ (z => G[s \ {x}] = 0)
      BY <1>5, <2>2, <2>6, <2>7
    <2>9. G[s] = f[x] + G[s \ {x}]
      BY <2>4, <2>5 DEF SumStep
    <2>10. QED
      BY <1>6, <2>3, <2>6, <2>8, <2>9
  <1>7. QED
    BY <1>4, <1>5, <1>6

-----------------------------------------------------------------------------
(***************************************************************************)
(* The arithmetic of scoring.                                              *)
(***************************************************************************)

\* Clipping lands between 0 and 1.0.
LEMMA ClipRange == ASSUME NEW x \in Int PROVE Clip(x) \in 0..One
  <1>1. One \in Nat
    BY ScoringAssumption
  <1>2. Min({One, x}) \in Int /\ Min({One, x}) <= One
    BY <1>1 DEF Min
  <1>3. Max({0, Min({One, x})}) \in {0, Min({One, x})} /\ Max({0, Min({One, x})}) >= 0
    BY <1>2 DEF Max
  <1>4. QED
    BY <1>1, <1>2, <1>3 DEF Clip

\* Rounding keeps to the naturals and does not pass a whole upper bound.
LEMMA RoundFacts ==
  ASSUME NEW n \in Nat, NEW d \in Nat \ {0}
  PROVE  /\ RoundDiv(n, d) \in Nat
         /\ \A p \in Nat : n <= d * p => RoundDiv(n, d) <= p
  <1>1. n \div d \in Nat /\ n % d \in 0..(d - 1) /\ n = (d * (n \div d)) + (n % d)
    OBVIOUS
  <1>2. RoundDiv(n, d) \in {n \div d, n \div d + 1}
    BY DEF RoundDiv
  <1>3. ASSUME NEW p \in Nat, n <= d * p PROVE RoundDiv(n, d) <= p
    <2> DEFINE q == n \div d
    <2>1. d * q <= d * p /\ q \in Nat
      BY <1>1, <1>3
    <2>2. q <= p
      <3>1. SUFFICES ASSUME q >= p + 1 PROVE FALSE
        BY <2>1
      <3>2. d * q >= d * (p + 1)
        BY <2>1, <3>1
      <3>3. QED
        BY <2>1, <3>2
    <2>3. CASE q < p
      BY <1>1, <1>2, <2>3
    <2>4. CASE q = p
      <3>1. n % d = 0
        BY <1>1, <1>3, <2>4
      <3>2. RoundDiv(n, d) = q
        BY <1>1, <3>1 DEF RoundDiv
      <3>3. QED
        BY <2>4, <3>2
    <2>5. QED
      BY <2>1, <2>2, <2>3, <2>4
  <1>4. QED
    BY <1>1, <1>2, <1>3

\* The EMA stays a natural number, and a score of 0 never raises it.
LEMMA EmaFacts ==
  ASSUME NEW prev \in Nat, NEW current \in Nat, NEW infraOnly \in BOOLEAN
  PROVE  /\ update_ema_score(prev, current, infraOnly) \in Nat
         /\ current = 0 => update_ema_score(prev, current, infraOnly) <= prev
  <1> DEFINE a == AlphaNum
             b == AlphaDen - AlphaNum
             n == a * current + b * prev
  <1>1. a \in Nat /\ b \in Nat /\ b <= AlphaDen /\ AlphaDen \in Nat \ {0}
    BY ScoringAssumption
  <1>2. a * current \in Nat /\ b * prev \in Nat
    BY <1>1
  <1>3. n \in Nat
    BY <1>2
  <1>4. current = 0 => n <= AlphaDen * prev
    <2>1. b * prev <= AlphaDen * prev
      BY <1>1
    <2>2. current = 0 => a * current = 0
      BY <1>1
    <2>3. QED
      BY <1>1, <1>2, <2>1, <2>2
  <1>5. RoundDiv(n, AlphaDen) \in Nat /\ (current = 0 => RoundDiv(n, AlphaDen) <= prev)
    BY <1>1, <1>3, <1>4, RoundFacts
  <1>6. QED
    BY <1>5 DEF update_ema_score

\* A score is a natural number, and 0 when no value is positive, so also when
\* there is none.
LEMMA ScoreFacts ==
  ASSUME NEW D, IsFiniteSet(D), NEW values \in [D -> Int], NEW k \in Nat
  PROVE  /\ top_k_epoch_score(values, k) \in Nat
         /\ (\A i \in D : values[i] <= 0) => top_k_epoch_score(values, k) = 0
  <1> DEFINE ahead(i) == {j \in DOMAIN values :
                            values[j] > values[i] \/ (values[j] = values[i] /\ j < i)}
             best == {i \in DOMAIN values : Cardinality(ahead(i)) < k}
             gains == [i \in DOMAIN values |-> Max({0, values[i]})]
  <1>1. IsFiniteSet(best)
    BY FS_Subset
  <1>2. \A i \in D : Max({0, values[i]}) \in Nat /\ (values[i] <= 0 => Max({0, values[i]}) = 0)
    BY DEF Max
  <1>3. \A i \in best : gains[i] \in Nat /\ (values[i] <= 0 => gains[i] = 0)
    BY <1>2
  <1> HIDE DEF best, gains
  <1>4. /\ SumFunctionOnSet(gains, best) \in Nat
        /\ (\A i \in best : gains[i] = 0) => SumFunctionOnSet(gains, best) = 0
    BY <1>1, <1>3, SumFacts
  <1>5. best \subseteq D
    BY DEF best
  <1>6. top_k_epoch_score(values, k) = SumFunctionOnSet(gains, best)
    BY DEF top_k_epoch_score, best, gains
  <1>7. QED
    BY <1>3, <1>4, <1>5, <1>6

-----------------------------------------------------------------------------
(***************************************************************************)
(* The verdict on a package.                                               *)
(***************************************************************************)

\* The types of what the engine reports, and that it accepts only what passed
\* verification, and what the holdout passed only if it was proven.
Reported(r) ==
  /\ r.containerized \in BOOLEAN /\ r.proven \in BOOLEAN
  /\ r.lifecycle \in {"rejected", "review", "accepted"}
  /\ r.value \in 0..One /\ r.frontier \in 0..One
  /\ r.rate \in Frontiers \cup {NoRate}
  /\ r.holdout \in HoldoutStatus
  /\ r.lifecycle = "accepted" => r.passed /\ (r.holdout = "passed" => r.proven)

\* The holdout passes only a package it has proven.
LEMMA EvidenceFacts ==
  ASSUME NEW h \in Evidence
  PROVE  /\ h.status \in HoldoutStatus /\ h.proven \in BOOLEAN
         /\ h.status = "passed" => h.proven
  <1>1. PICK t \in Supported : \E reference \in RunResult, probes \in [ProbeCandidates(t) -> RunResult] :
          h = HoldoutResult(t, reference, probes)
    BY DEF Evidence
  <1>2. PICK reference \in RunResult, probes \in [ProbeCandidates(t) -> RunResult] :
          h = HoldoutResult(t, reference, probes)
    BY <1>1
  <1>3. evaluate_holdout(t, TRUE, reference, probes) \in HoldoutStatus
    BY DEF evaluate_holdout, build_holdout_plan, HoldoutStatus
  <1>4. Proven(reference, probes) \in BOOLEAN
    BY DEF Proven
  <1>5. evaluate_holdout(t, TRUE, reference, probes) = "passed" => Proven(reference, probes)
    BY DEF evaluate_holdout, build_holdout_plan, Proven, Isolated, ProbeCaught, RunResult
  <1>6. h.status = evaluate_holdout(t, TRUE, reference, probes) /\ h.proven = Proven(reference, probes)
    BY <1>2, <1>4 DEF HoldoutResult
  <1>7. QED
    BY <1>3, <1>4, <1>5, <1>6

\* Every report is one of the above.
LEMMA EngineFacts == ASSUME NEW r \in EngineResult PROVE Reported(r)
  <1> USE EvaluationAssumption, ScoringAssumption DEF Reported, NotRun, HoldoutStatus
  <1>1. CASE r \in NotVerified
    <2>1. CASE r = [NotRun EXCEPT !.supported = FALSE]
      BY <2>1
    <2>2. CASE r = [NotRun EXCEPT !.error = TRUE]
      BY <2>2
    <2>3. CASE r = [NotRun EXCEPT !.executed = TRUE, !.containerized = TRUE]
      BY <2>3
    <2>4. CASE r = [Passed EXCEPT !.error = TRUE, !.holdout = "passed", !.proven = TRUE]
      <3>1. /\ r.passed /\ r.containerized \in BOOLEAN /\ r.proven \in BOOLEAN
            /\ r.lifecycle = "rejected" /\ r.value = 0 /\ r.frontier = 0
            /\ r.rate = NoRate /\ r.holdout = "passed"
        BY <2>4 DEF Passed
      <3>2. QED
        BY <3>1
    <2> HIDE DEF Reported, NotRun
    <2>5. QED
      BY <1>1, <2>1, <2>2, <2>3, <2>4 DEF NotVerified
  <1>2. CASE r \in NoVerifier
    <2>1. PICK f \in BOOLEAN : r = [NotRun EXCEPT !.fallback = TRUE, !.findings = f]
      BY <1>2 DEF NoVerifier
    <2>2. QED
      BY <2>1
  <1>3. CASE r \in Scored
    <2>1. PICK c \in BOOLEAN, v \in Values \cup {0}, f \in Frontiers, p \in BOOLEAN,
               t \in Frontiers \cup {NoRate}, h \in Evidence : r = Verified(c, v, f, p, t, h)
      BY <1>3 DEF Scored
    <2>2. h.status \in HoldoutStatus /\ h.proven \in BOOLEAN /\ (h.status = "passed" => h.proven)
      BY EvidenceFacts
    <2>3. v \in 0..One /\ f \in 0..One /\ (c \/ h.status # "passed") \in BOOLEAN
      OBVIOUS
    <2>4. /\ r.passed
          /\ r.containerized = (c \/ h.status # "passed") /\ r.proven = h.proven
          /\ r.lifecycle = IF v = 0 THEN "review" ELSE "accepted"
          /\ r.value = v /\ r.frontier = f /\ r.rate = (IF p THEN t ELSE NoRate)
          /\ r.holdout = h.status
      BY <2>1 DEF Passed, Verified
    <2>5. QED
      BY <2>2, <2>3, <2>4
  <1> HIDE DEF Reported, NotRun
  <1>4. QED
    BY <1>1, <1>2, <1>3 DEF EngineResult

\* A package completes with a value only when it was accepted: verified, in a
\* container under Docker, and proven where the holdout is required.
LEMMA ValueIsEarned ==
  ASSUME NEW r \in EngineResult, NEW m, NEW h, PipelineOutcome(m, h, r).value > 0
  PROVE  /\ PipelineOutcome(m, h, r).status = "accepted"
         /\ Docker => PipelineOutcome(m, h, r).containerized
         /\ HoldoutRequired => PipelineOutcome(m, h, r).proven
  <1>1. Completes(r) /\ r.lifecycle = "accepted"
    BY DEF PipelineOutcome, task_value_from_score
  <1>2. r.passed /\ (r.holdout = "passed" => r.proven)
    BY <1>1, EngineFacts DEF Reported
  <1>3. Verdict(r) = "accepted"
    BY <1>1 DEF Verdict, Completes
  <1>4. Docker => r.containerized
    BY <1>1 DEF Completes, Uncontainerized
  <1>5. HoldoutRequired => HoldoutApplies(r) /\ r.proven
    BY <1>1, <1>2 DEF Completes, HoldoutApplies
  <1>6. QED
    BY <1>3, <1>4, <1>5 DEF PipelineOutcome

\* The records of an evaluation have the types of an outcome.
LEMMA OutcomeTypes ==
  ASSUME NEW m \in Miner, NEW h \in Hash \cup {0}
  PROVE  /\ \A status \in {"unreachable", "invalid"} : TerminalOutcome(m, status) \in Outcome
         /\ GateFailure(m, h) \in Outcome
         /\ \A r \in EngineResult : PipelineOutcome(m, h, r) \in Outcome
  <1>1. 0 \in 0..One
    BY ScoringAssumption
  <1>2. \A status \in {"unreachable", "invalid"} : TerminalOutcome(m, status) \in Outcome
    BY <1>1 DEF TerminalOutcome, Outcome, Status, HoldoutStatus
  <1>3. GateFailure(m, h) \in Outcome
    BY <1>1 DEF GateFailure, Outcome, Status, HoldoutStatus
  <1>4. ASSUME NEW r \in EngineResult PROVE PipelineOutcome(m, h, r) \in Outcome
    <2>1. Reported(r)
      BY EngineFacts
    <2>2. Verdict(r) \in Status
      BY <2>1 DEF Verdict, Status, Reported
    <2>3. HoldoutRecord(r) \in HoldoutStatus
      BY <2>1 DEF HoldoutRecord, HoldoutStatus, Reported
    <2>4. (IF Completes(r) THEN task_value_from_score(r) ELSE 0) \in 0..One
      BY <1>1, <2>1 DEF task_value_from_score, Reported
    <2>5. (HoldoutApplies(r) /\ r.proven) \in BOOLEAN /\ r.containerized \in BOOLEAN
      BY <2>1 DEF Reported
    <2>6. QED
      BY <2>2, <2>3, <2>4, <2>5 DEF PipelineOutcome, Outcome
  <1>5. QED
    BY <1>2, <1>3, <1>4

-----------------------------------------------------------------------------
(***************************************************************************)
(* The invariant.                                                          *)
(***************************************************************************)

Unverified(row) == row.status = "infra_error" \/ row.holdout \in {"failed", "infra_error"}

\* What earned a credit, and what failed verification, went through the gates,
\* which let no hash through twice.
GateInv ==
  /\ \A i \in DOMAIN rows :
       rows[i].value > 0 \/ Unverified(rows[i]) => rows[i].hash \in seen
  /\ OneCreditPerHash
  /\ UnverifiedNotArchived

\* What the scoring of the epoch computed it from the outcomes in memory, which
\* are the rows on disk.
ScoreInv ==
  /\ rows = outcomes
  /\ stage = "scored" =>
       /\ scores = EpochScores
       /\ newEma = [m \in Miner |->
            update_ema_score(ema[m], IF m \in active THEN scores[m] ELSE 0, InfraOnly(m))]

EvalInd ==
  /\ EvalTypeOK
  /\ GateInv
  /\ CreditIsEarned
  /\ BudgetAccounted
  /\ ScoreInv

-----------------------------------------------------------------------------
(***************************************************************************)
(* The session's plan and the outcome of one package.                      *)
(***************************************************************************)

\* A live plan has budget left and no measurement yet; a cached one has one.
LEMMA PlanFacts ==
  ASSUME EvalTypeOK, NEW h \in Hash \cup {0}
  PROVE  /\ Plan(h) \in {"mock", "cache", "dry_run", "budget_exhausted", "live"}
         /\ Plan(h) = "live" => budget > 0 /\ (h = 0 \/ cache[h] = NoRate)
         /\ Plan(h) = "cache" => h \in Hash /\ cache[h] \in Frontiers
  <1>1. budget \in Int /\ \A g \in Hash : cache[g] \in Frontiers \cup {NoRate}
    BY EvaluationAssumption DEF EvalTypeOK
  <1>2. PanelMode \in {"mock", "dry_run", "calibrate"}
    BY EvaluationAssumption
  <1>3. QED
    BY <1>1, <1>2 DEF Plan

\* A cached measurement keeps a value in range and makes nothing of zero.
LEMMA RecalibrateFacts ==
  ASSUME NEW v \in 0..One, NEW f \in 0..One, NEW rate \in 0..One
  PROVE  /\ recalibrated_task_value(v, f, rate) \in 0..One
         /\ recalibrated_task_value(v, f, rate) > 0 => v > 0
  <1>1. One \in Nat
    BY ScoringAssumption
  <1>2. Clip(v + (rate - f)) \in 0..One
    BY <1>1, ClipRange
  <1>3. QED
    BY <1>1, <1>2 DEF recalibrated_task_value

\* The outcome of a package that the gates let through or refused.
PackageOutcome(m, h, passes, r) ==
  LET verdict == IF passes THEN PipelineOutcome(m, h, r) ELSE GateFailure(m, h)
  IN  IF Plan(h) = "cache"
        THEN [verdict EXCEPT !.value = recalibrated_task_value(@, r.frontier, cache[h])]
        ELSE verdict

\* It is an outcome; a value or a missing verification says that the gates let
\* the package through; a value is earned, and a missing verification purges.
LEMMA OutcomeFacts ==
  ASSUME EvalTypeOK, NEW m \in Miner, NEW h \in Hash \cup {0}, NEW passes \in BOOLEAN,
         NEW r, IF passes THEN r \in EngineResult ELSE r = NotRun
  PROVE  LET o == PackageOutcome(m, h, passes, r)
         IN  /\ o \in Outcome /\ o.hash = h /\ o.miner = m
             /\ o.value > 0 => /\ passes
                               /\ o.status = "accepted"
                               /\ Docker => o.containerized
                               /\ HoldoutRequired => o.proven
             /\ Unverified(o) => passes /\ PipelineRuns(r) /\ Purges(r)
  <1> DEFINE verdict == IF passes THEN PipelineOutcome(m, h, r) ELSE GateFailure(m, h)
             o == PackageOutcome(m, h, passes, r)
  <1>1. verdict \in Outcome /\ verdict.hash = h /\ verdict.miner = m
    BY OutcomeTypes DEF PipelineOutcome, GateFailure
  <1>2. r.frontier \in 0..One
    <2>1. CASE passes
      BY <2>1, EngineFacts DEF Reported
    <2>2. CASE ~passes
      BY <2>2, ScoringAssumption DEF NotRun
    <2>3. QED
      BY <2>1, <2>2
  <1>3. verdict.value > 0 =>
          /\ passes
          /\ verdict.status = "accepted"
          /\ Docker => verdict.containerized
          /\ HoldoutRequired => verdict.proven
    <2>1. CASE passes
      BY <2>1, ValueIsEarned
    <2>2. CASE ~passes
      BY <2>2 DEF GateFailure
    <2>3. QED
      BY <2>1, <2>2
  <1>4. Unverified(verdict) => passes /\ PipelineRuns(r) /\ Purges(r)
    <2>1. CASE passes
      <3>1. Verdict(r) = "infra_error" => PipelineRuns(r) /\ Purges(r)
        BY DEF Verdict, Purges
      <3>2. HoldoutRecord(r) \in {"failed", "infra_error"} => PipelineRuns(r) /\ Purges(r)
        BY DEF HoldoutRecord, Purges
      <3>3. QED
        BY <2>1, <3>1, <3>2 DEF Unverified, PipelineOutcome
    <2>2. CASE ~passes
      BY <2>2 DEF GateFailure, Unverified
    <2>3. QED
      BY <2>1, <2>2
  <1>5. CASE Plan(h) # "cache"
    BY <1>1, <1>3, <1>4, <1>5 DEF PackageOutcome
  <1>6. CASE Plan(h) = "cache"
    <2> DEFINE v == recalibrated_task_value(verdict.value, r.frontier, cache[h])
    <2>1. cache[h] \in 0..One /\ verdict.value \in 0..One
      BY <1>1, <1>6, PlanFacts, EvaluationAssumption DEF Outcome
    <2>2. v \in 0..One /\ (v > 0 => verdict.value > 0)
      BY <1>2, <2>1, RecalibrateFacts
    <2>3. o = [verdict EXCEPT !.value = v]
      BY <1>6 DEF PackageOutcome
    <2> HIDE DEF v, o, verdict
    <2>4. o \in Outcome /\ o.value = v /\ o.status = verdict.status /\ o.hash = verdict.hash
          /\ o.miner = verdict.miner /\ o.containerized = verdict.containerized
          /\ o.proven = verdict.proven /\ o.holdout = verdict.holdout
      BY <1>1, <2>2, <2>3 DEF Outcome
    <2>5. QED
      BY <1>1, <1>3, <1>4, <2>2, <2>4 DEF Unverified, o
  <1>7. QED
    BY <1>5, <1>6

-----------------------------------------------------------------------------
(***************************************************************************)
(* Each action preserves the invariant.                                    *)
(***************************************************************************)

\* An evaluation that has not begun.
LEMMA EvalInitInd == EvalInit => EvalInd
  <1> SUFFICES ASSUME EvalInit PROVE EvalInd
    OBVIOUS
  <1> USE EvaluationAssumption, ScoringAssumption
  <1>1. EvalTypeOK
    BY DEF EvalInit, EvalTypeOK, Zeros, NoFunction, NoRate
  <1>2. GateInv /\ CreditIsEarned /\ ScoreInv
    BY DEF EvalInit, GateInv, OneCreditPerHash, UnverifiedNotArchived, CreditIsEarned, ScoreInv
  <1>3. BudgetAccounted
    <2>1. {i \in DOMAIN entries : entries[i] = "live"} = {}
      BY DEF EvalInit
    <2>2. QED
      BY <2>1, FS_EmptySet DEF EvalInit, BudgetAccounted
  <1>4. QED
    BY <1>1, <1>2, <1>3 DEF EvalInd

\* The rows of a new epoch are those of the miners without an answer.
LEMMA BeginEpochInd ==
  ASSUME EvalInd, BeginEpoch
  PROVE  EvalInd'
  <1> USE EvaluationAssumption, ScoringAssumption
  <1>1. PICK miners \in SUBSET Miner \ {{}}, down \in SUBSET Miner :
          /\ down \subseteq miners
          /\ \E order \in Sorted(down), status \in [down -> {"unreachable", "invalid"}] :
               /\ active' = miners /\ terminal' = down
               /\ outcomes' = [i \in DOMAIN order |-> TerminalOutcome(order[i], status[order[i]])]
               /\ rows' = outcomes'
    BY DEF BeginEpoch
  <1>2. PICK order \in Sorted(down), status \in [down -> {"unreachable", "invalid"}] :
          /\ active' = miners /\ terminal' = down
          /\ outcomes' = [i \in DOMAIN order |-> TerminalOutcome(order[i], status[order[i]])]
          /\ rows' = outcomes'
    BY <1>1
  <1>3. Cardinality(down) \in Nat /\ order \in [1..Cardinality(down) -> down]
    BY FS_Subset, FS_CardinalityType DEF Sorted
  <1>4. \A i \in DOMAIN order : order[i] \in Miner /\ status[order[i]] \in {"unreachable", "invalid"}
    BY <1>3
  <1>5. \A i \in DOMAIN order : TerminalOutcome(order[i], status[order[i]]) \in Outcome
    BY <1>4, OutcomeTypes
  <1>6. rows' \in [1..Cardinality(down) -> Outcome]
    BY <1>2, <1>3, <1>5
  <1>7. rows' \in Seq(Outcome)
    BY <1>3, <1>6, SeqDef
  <1>8. \A i \in DOMAIN rows' : ~(rows'[i].value > 0) /\ rows'[i].status \in {"unreachable", "invalid"}
                                  /\ rows'[i].holdout = "none"
    BY <1>2, <1>4 DEF TerminalOutcome
  <1>9. /\ epoch' = epoch + 1 /\ epoch < MaxEpoch /\ stage' = "evaluating"
        /\ UNCHANGED <<last, taken, gates, panel, liveRuns, cache, archived, artifact, ema>>
    BY DEF BeginEpoch
  <1>10. EvalTypeOK'
    BY <1>1, <1>2, <1>7, <1>9 DEF EvalInd, EvalTypeOK, gates, panel, artifact
  <1>11. GateInv' /\ CreditIsEarned'
    BY <1>8 DEF GateInv, OneCreditPerHash, UnverifiedNotArchived, CreditIsEarned, Unverified
  <1>12. BudgetAccounted' /\ ScoreInv'
    BY <1>2, <1>9 DEF EvalInd, BudgetAccounted, ScoreInv, panel
  <1>13. QED
    BY <1>10, <1>11, <1>12 DEF EvalInd

\* Leaving an epoch keeps only its number, the cache, the archive and an EMA.
LEMMA LeaveEpochInd ==
  ASSUME EvalInd, LeaveEpoch, ema' \in {ema, newEma}
  PROVE  EvalInd'
  <1> USE EvaluationAssumption, ScoringAssumption
  <1>1. EvalTypeOK'
    BY DEF EvalInd, EvalTypeOK, LeaveEpoch, Zeros, NoFunction
  <1>2. GateInv' /\ CreditIsEarned' /\ ScoreInv'
    BY DEF LeaveEpoch, GateInv, OneCreditPerHash, UnverifiedNotArchived, CreditIsEarned, ScoreInv
  <1>3. BudgetAccounted'
    <2>1. {i \in DOMAIN entries : entries[i] = "live"}' = {}
      BY DEF LeaveEpoch
    <2>2. QED
      BY <2>1, FS_EmptySet DEF LeaveEpoch, BudgetAccounted
  <1>4. QED
    BY <1>1, <1>2, <1>3 DEF EvalInd

\* The positions of a miner's values that count are finitely many.
LEMMA CountedFacts ==
  ASSUME EvalTypeOK, NEW m
  PROVE  /\ IsFiniteSet(DOMAIN CountedValues(outcomes, m))
         /\ CountedValues(outcomes, m) \in [DOMAIN CountedValues(outcomes, m) -> Int]
         /\ \A i \in DOMAIN CountedValues(outcomes, m) :
              i \in DOMAIN outcomes /\ outcomes[i].miner = m
                /\ CountedValues(outcomes, m)[i] = outcomes[i].value
  <1>1. Len(outcomes) \in Nat /\ DOMAIN outcomes = 1..Len(outcomes)
        /\ \A i \in DOMAIN outcomes : outcomes[i] \in Outcome
    BY DEF EvalTypeOK
  <1>2. IsFiniteSet(DOMAIN outcomes)
    BY <1>1, FS_Interval
  <1> DEFINE D == {j \in DOMAIN outcomes : outcomes[j].miner = m /\ outcomes[j].status # "infra_error"}
  <1>3. IsFiniteSet(D)
    BY <1>2, FS_Subset
  <1>4. CountedValues(outcomes, m) = [i \in D |-> outcomes[i].value]
    BY DEF CountedValues
  <1>5. \A i \in D : outcomes[i].value \in Int
    BY <1>1, ScoringAssumption DEF Outcome
  <1> HIDE DEF D
  <1>6. DOMAIN CountedValues(outcomes, m) = D /\ CountedValues(outcomes, m) \in [D -> Int]
    BY <1>4, <1>5
  <1>7. QED
    BY <1>3, <1>4, <1>6 DEF D

\* The scores of the epoch are natural numbers.
LEMMA ScoresNat ==
  ASSUME EvalTypeOK, NEW m \in active
  PROVE  EpochScores[m] \in Nat
  <1>1. top_k_epoch_score(CountedValues(outcomes, m), Quota) \in Nat
    BY CountedFacts, ScoreFacts, EvaluationAssumption
  <1>2. QED
    BY <1>1 DEF EpochScores

\* Scores, EMA and weights are computed from the rows.
LEMMA ScoreOutcomesInd ==
  ASSUME EvalInd, ScoreOutcomes
  PROVE  EvalInd'
  <1> USE EvaluationAssumption, ScoringAssumption
  <1> DEFINE step(m) == update_ema_score(ema[m], IF m \in active THEN scores'[m] ELSE 0, InfraOnly(m))
  <1>1. EvalTypeOK /\ active \subseteq Miner /\ ema \in [Miner -> Nat]
    BY DEF EvalInd, EvalTypeOK
  <1>2. scores' = EpochScores /\ DOMAIN scores' = active /\ \A m \in active : scores'[m] \in Nat
    BY <1>1, ScoresNat DEF ScoreOutcomes, EpochScores
  <1>3. \A m \in Miner : InfraOnly(m) \in BOOLEAN
    BY DEF InfraOnly
  <1>4. \A m \in Miner : step(m) \in Nat
    BY <1>1, <1>2, <1>3, EmaFacts
  <1>5. newEma' = [m \in Miner |-> step(m)]
    BY DEF ScoreOutcomes
  <1> HIDE DEF step
  <1>6. newEma' \in [Miner -> Nat]
    BY <1>4, <1>5
  <1> DEFINE total == SumFunctionOnSet(newEma', active)
  <1>7. total \in Nat
    BY <1>1, <1>6, FS_Subset, SumFacts
  <1>8. weights' = [m \in active |->
                      IF total <= 0 THEN [num |-> 0, den |-> 1] ELSE [num |-> newEma'[m], den |-> total]]
    BY DEF ScoreOutcomes, normalize_active_weights
  <1> HIDE DEF total
  <1>9. DOMAIN weights' = active /\ \A m \in active : weights'[m] \in Weight
    BY <1>1, <1>6, <1>7, <1>8 DEF Weight
  <1>10. /\ stage' = "scored"
         /\ UNCHANGED <<epoch, active, terminal, last, taken, gates, panel, cache, archived,
                        outcomes, rows, liveRuns, ema>>
    BY DEF ScoreOutcomes
  <1>11. EvalTypeOK'
    BY <1>1, <1>2, <1>6, <1>9, <1>10 DEF EvalTypeOK, gates, panel
  <1>12. GateInv' /\ CreditIsEarned' /\ BudgetAccounted'
    BY <1>10 DEF EvalInd, GateInv, OneCreditPerHash, UnverifiedNotArchived, CreditIsEarned,
                 BudgetAccounted, Unverified, gates, panel
  <1>13. ScoreInv'
    <2>1. rows' = outcomes'
      BY <1>10 DEF EvalInd, ScoreInv
    <2>2. scores' = EpochScores'
      BY <1>2, <1>10 DEF EpochScores, CountedValues
    <2>3. \A m \in Miner : InfraOnly(m)' = InfraOnly(m)
      BY <1>10 DEF InfraOnly
    <2>4. newEma' = [m \in Miner |->
            update_ema_score(ema[m], IF m \in active THEN scores[m] ELSE 0, InfraOnly(m))]'
      BY <1>5, <1>10, <2>3 DEF step
    <2>5. QED
      BY <2>1, <2>2, <2>4 DEF ScoreInv
  <1>14. QED
    BY <1>11, <1>12, <1>13 DEF EvalInd

-----------------------------------------------------------------------------
(***************************************************************************)
(* The loop body, for one package.                                         *)
(***************************************************************************)

\* The step with its local values named: the package passes the gates or not,
\* the engine reports r, and the panel slot is refunded or not.
Evaluates(m, h, actual, passes, r, refunded) ==
  LET ran == passes /\ PipelineRuns(r)
      reports == passes /\ Completes(r) /\ r.panel
      o == PackageOutcome(m, h, passes, r)
  IN  /\ stage = "evaluating"
      /\ taken[m] < Quota
      /\ last' = <<h, m>>
      /\ taken' = [taken EXCEPT ![m] = @ + 1]
      /\ passes => h = actual /\ counts[m] < Quota /\ actual \notin seen
      /\ IF passes
           THEN counts' = [counts EXCEPT ![m] = @ + 1] /\ seen' = seen \cup {actual}
           ELSE UNCHANGED gates
      /\ archived' = CASE ran /\ Purges(r) -> archived \ {h}
                       [] ran /\ ~Purges(r) /\ ~r.error -> archived \cup {h}
                       [] OTHER -> archived
      /\ liveRuns' = IF ran /\ Plan(h) = "live" /\ r.panel THEN liveRuns + 1 ELSE liveRuns
      /\ refunded = (Plan(h) = "live" /\ ~reports)
      /\ budget' = BudgetAfter(Plan(h), refunded)
      /\ entries' = EntriesAfter(Plan(h), refunded)
      /\ cache' = CacheAfter(Plan(h), h, IF reports THEN r.rate ELSE NoRate)
      /\ rows' = Append(rows, o)
      /\ outcomes' = Append(outcomes, o)
      /\ UNCHANGED <<stage, epoch, active, terminal, artifact, ema>>

\* Every evaluation of a package is of this form.
LEMMA EvaluateForm ==
  ASSUME NEW m \in Miner, NEW h \in Hash \cup {0}, NEW actual \in Hash, NEW wellFormed \in BOOLEAN,
         EvaluateSubmission(m, h, actual, wellFormed)
  PROVE  \E passes \in BOOLEAN, refunded \in BOOLEAN : \E r :
           /\ IF passes THEN r \in EngineResult ELSE r = NotRun
           /\ Evaluates(m, h, actual, passes, r, refunded)
  <1> DEFINE passes == PassesGates(m, h, actual, wellFormed)
  <1>1. passes \in BOOLEAN
    BY DEF PassesGates
  <1>2. PICK r \in (IF passes THEN EngineResult ELSE {NotRun}) :
          Evaluates(m, h, actual, passes, r, (Plan(h) = "live" /\ ~(passes /\ Completes(r) /\ r.panel)))
    BY DEF EvaluateSubmission, Evaluates, PackageOutcome, PassesGates, Collected
  <1>3. (Plan(h) = "live" /\ ~(passes /\ Completes(r) /\ r.panel)) \in BOOLEAN
    OBVIOUS
  <1> HIDE DEF passes
  <1>4. QED
    BY <1>1, <1>2, <1>3

\* The session's budget, entries and cache after a plan.
LEMMA SessionFacts ==
  ASSUME EvalTypeOK, BudgetAccounted, NEW h \in Hash \cup {0}, NEW refunded \in BOOLEAN,
         refunded => Plan(h) = "live", NEW rate \in Frontiers \cup {NoRate}
  PROVE  LET b == BudgetAfter(Plan(h), refunded)
             e == EntriesAfter(Plan(h), refunded)
         IN  /\ b \in 0..MaxTasks /\ e \in Seq(Source)
             /\ b = MaxTasks - Cardinality({i \in DOMAIN e : e[i] = "live"})
             /\ CacheAfter(Plan(h), h, rate) \in [Hash -> Frontiers \cup {NoRate}]
  <1> USE EvaluationAssumption
  <1> DEFINE b == BudgetAfter(Plan(h), refunded)
             e == EntriesAfter(Plan(h), refunded)
             live(f) == {i \in DOMAIN f : f[i] = "live"}
  <1>1. budget \in 0..MaxTasks /\ entries \in Seq(Source) /\ Len(entries) \in Nat
        /\ DOMAIN entries = 1..Len(entries)
    BY DEF EvalTypeOK
  <1>2. IsFiniteSet(live(entries)) /\ budget = MaxTasks - Cardinality(live(entries))
        /\ Cardinality(live(entries)) \in Nat
    <2>1. IsFiniteSet(live(entries))
      <3>1. IsFiniteSet(1..Len(entries)) /\ live(entries) \subseteq 1..Len(entries)
        BY <1>1, FS_Interval
      <3> HIDE DEF live
      <3>2. QED
        BY <3>1, FS_Subset
    <2>2. Cardinality(live(entries)) \in Nat
      BY <2>1, FS_CardinalityType
    <2>3. QED
      BY <2>1, <2>2 DEF BudgetAccounted
  <1>3. b = IF Plan(h) = "live" /\ ~refunded THEN budget - 1 ELSE budget
    BY <1>1 DEF BudgetAfter
  <1>4. b \in 0..MaxTasks
    BY <1>1, <1>3, PlanFacts
  <1>5. e = entries \/ \E source \in Source : e = Append(entries, source)
    BY PlanFacts DEF EntriesAfter, Source
  <1>6. e \in Seq(Source)
    BY <1>1, <1>5
  <1>7. ASSUME Plan(h) = "live", ~refunded
        PROVE  b = MaxTasks - Cardinality(live(e))
    <2>1. e = Append(entries, "live") /\ "live" \in Source
      BY <1>7 DEF EntriesAfter, Source
    <2>2. live(e) = live(entries) \cup {Len(entries) + 1} /\ Len(entries) + 1 \notin live(entries)
      BY <1>1, <2>1
    <2> HIDE DEF live, e, b
    <2>3. Cardinality(live(e)) = Cardinality(live(entries)) + 1
      BY <1>2, <2>2, FS_AddElement
    <2>4. QED
      BY <1>1, <1>2, <1>3, <1>7, <2>3
  <1>8. ASSUME ~(Plan(h) = "live" /\ ~refunded)
        PROVE  b = MaxTasks - Cardinality(live(e))
    <2>1. e = entries \/ \E source \in Source : source # "live" /\ e = Append(entries, source)
      BY <1>8, PlanFacts DEF EntriesAfter, Source
    <2>2. live(e) = live(entries)
      BY <1>1, <2>1
    <2> HIDE DEF live, e, b
    <2>3. QED
      BY <1>2, <1>3, <1>8, <2>2
  <1>9. CacheAfter(Plan(h), h, rate) \in [Hash -> Frontiers \cup {NoRate}]
    BY DEF CacheAfter, EvalTypeOK
  <1>10. b = MaxTasks - Cardinality(live(e))
    <2> HIDE DEF live, e, b
    <2>1. QED
      BY <1>7, <1>8
  <1>11. QED
    BY <1>4, <1>6, <1>9, <1>10

\* A package that passes the gates is new, so its row is the first credit for
\* its hash; one that does not earns nothing.
LEMMA EvaluateInd ==
  ASSUME EvalInd, NEW m \in Miner, NEW h \in Hash \cup {0}, NEW actual \in Hash,
         NEW passes \in BOOLEAN, NEW refunded \in BOOLEAN, NEW r,
         IF passes THEN r \in EngineResult ELSE r = NotRun,
         Evaluates(m, h, actual, passes, r, refunded)
  PROVE  EvalInd'
  <1> USE EvaluationAssumption, ScoringAssumption
  <1> DEFINE o == PackageOutcome(m, h, passes, r)
             rate == IF passes /\ Completes(r) /\ r.panel THEN r.rate ELSE NoRate
  <1>1. EvalTypeOK /\ GateInv /\ CreditIsEarned /\ BudgetAccounted /\ ScoreInv
    BY DEF EvalInd
  <1>2. /\ o \in Outcome /\ o.hash = h /\ o.miner = m
        /\ o.value > 0 => /\ passes
                          /\ o.status = "accepted"
                          /\ Docker => o.containerized
                          /\ HoldoutRequired => o.proven
        /\ Unverified(o) => passes /\ PipelineRuns(r) /\ Purges(r)
    BY <1>1, OutcomeFacts
  <1>3. rate \in Frontiers \cup {NoRate}
    BY EngineFacts DEF Reported
  <1>4. refunded => Plan(h) = "live"
    BY DEF Evaluates
  <1>5. /\ budget' = BudgetAfter(Plan(h), refunded) /\ entries' = EntriesAfter(Plan(h), refunded)
        /\ cache' = CacheAfter(Plan(h), h, rate)
    BY DEF Evaluates
  <1> HIDE DEF rate
  <1>6. budget' \in 0..MaxTasks /\ entries' \in Seq(Source) /\ BudgetAccounted'
        /\ cache' \in [Hash -> Frontiers \cup {NoRate}]
    BY <1>1, <1>3, <1>4, <1>5, SessionFacts DEF BudgetAccounted
  <1>7. /\ rows' = Append(rows, o) /\ outcomes' = Append(outcomes, o)
        /\ rows \in Seq(Outcome) /\ outcomes \in Seq(Outcome)
        /\ UNCHANGED <<stage, epoch, active, terminal, artifact, ema>>
    BY <1>1 DEF Evaluates, EvalTypeOK
  <1> HIDE DEF o
  <1>8. /\ Len(rows) \in Nat /\ DOMAIN rows = 1..Len(rows) /\ DOMAIN rows' = 1..(Len(rows) + 1)
        /\ rows'[Len(rows) + 1] = o /\ \A i \in DOMAIN rows : rows'[i] = rows[i]
    BY <1>2, <1>7
  <1>9. EvalTypeOK'
    <2>1. rows' \in Seq(Outcome) /\ outcomes' \in Seq(Outcome)
      BY <1>2, <1>7
    <2>2. last' \in (Hash \cup {0}) \X (Miner \cup {0})
      BY DEF Evaluates
    <2>3. taken' \in [Miner -> 0..Quota] /\ liveRuns' \in Nat
      <3>1. taken \in [Miner -> 0..Quota] /\ liveRuns \in Nat
        BY <1>1 DEF EvalTypeOK
      <3>2. taken[m] < Quota /\ taken' = [taken EXCEPT ![m] = @ + 1]
        BY DEF Evaluates
      <3>3. liveRuns' = liveRuns \/ liveRuns' = liveRuns + 1
        BY DEF Evaluates
      <3>4. QED
        BY <3>1, <3>2, <3>3
    <2>4. counts' \in [Miner -> 0..Quota] /\ seen' \in SUBSET Hash
      <3>1. counts \in [Miner -> 0..Quota] /\ seen \in SUBSET Hash
        BY <1>1 DEF EvalTypeOK
      <3>2. CASE passes
        <4>1. /\ counts[m] < Quota /\ counts' = [counts EXCEPT ![m] = @ + 1]
              /\ seen' = seen \cup {actual}
          BY <3>2 DEF Evaluates
        <4>2. QED
          BY <3>1, <4>1
      <3>3. CASE ~passes
        <4>1. counts' = counts /\ seen' = seen
          BY <3>3 DEF Evaluates, gates
        <4>2. QED
          BY <3>1, <4>1
      <3>4. QED
        BY <3>2, <3>3
    <2>5. archived' \in SUBSET Hash
      <3>1. archived' \in {archived, archived \ {h}} \/ (passes /\ archived' = archived \cup {h})
        BY DEF Evaluates
      <3>2. passes => h \in Hash
        BY DEF Evaluates
      <3>3. QED
        BY <1>1, <3>1, <3>2 DEF EvalTypeOK
    <2>6. QED
      BY <1>1, <1>6, <1>7, <2>1, <2>2, <2>3, <2>4, <2>5 DEF EvalTypeOK, artifact
  <1>10. GateInv'
    <2>1. seen \subseteq seen' /\ (passes => h \in seen' /\ h \notin seen) /\ (~passes => seen' = seen)
      BY DEF Evaluates, gates
    <2>2. \A i \in DOMAIN rows' :
            rows'[i].value > 0 \/ Unverified(rows'[i]) => rows'[i].hash \in seen'
      BY <1>1, <1>2, <1>8, <2>1 DEF GateInv
    <2>3. OneCreditPerHash'
      <3>1. ASSUME NEW i \in DOMAIN rows, rows[i].value > 0, o.value > 0 PROVE rows[i].hash # o.hash
        BY <1>1, <1>2, <2>1, <3>1 DEF GateInv
      <3>2. QED
        BY <1>1, <1>8, <3>1 DEF GateInv, OneCreditPerHash
    <2>4. UnverifiedNotArchived'
      <3>1. \A i \in DOMAIN rows : Unverified(rows[i]) => rows[i].hash \in seen /\ rows[i].hash \notin archived
        BY <1>1 DEF GateInv, UnverifiedNotArchived, Unverified
      <3>2. archived' \subseteq archived \/ (passes /\ archived' = archived \cup {h})
        BY DEF Evaluates
      <3>3. \A i \in DOMAIN rows : Unverified(rows[i]) => rows[i].hash \notin archived'
        BY <2>1, <3>1, <3>2
      <3>4. Unverified(o) => archived' = archived \ {h}
        BY <1>2 DEF Evaluates
      <3>5. \A i \in DOMAIN rows' : Unverified(rows'[i]) => rows'[i].hash \notin archived'
        BY <1>2, <1>8, <3>3, <3>4
      <3>6. QED
        BY <3>5 DEF UnverifiedNotArchived, Unverified
    <2>5. QED
      BY <2>2, <2>3, <2>4 DEF GateInv, Unverified
  <1>11. CreditIsEarned'
    BY <1>1, <1>2, <1>8 DEF CreditIsEarned
  <1>12. ScoreInv'
    BY <1>1, <1>7 DEF ScoreInv, Evaluates
  <1>13. QED
    BY <1>6, <1>9, <1>10, <1>11, <1>12 DEF EvalInd

-----------------------------------------------------------------------------
\* Every step preserves the invariant.
LEMMA EvalStepInd == EvalInd /\ [EvalNext]_evalVars => EvalInd'
  <1> SUFFICES ASSUME EvalInd, [EvalNext]_evalVars PROVE EvalInd'
    OBVIOUS
  <1>1. ASSUME NEW m \in Miner, NEW h \in Hash \cup {0}, NEW actual \in Hash, NEW wellFormed \in BOOLEAN,
               EvaluateSubmission(m, h, actual, wellFormed)
        PROVE  EvalInd'
    BY <1>1, EvaluateForm, EvaluateInd
  <1>2. CommitEpoch \/ AbandonEpoch => EvalInd'
    BY LeaveEpochInd DEF CommitEpoch, AbandonEpoch
  <1>3. ASSUME UNCHANGED evalVars PROVE EvalInd'
    <2>1. EvalTypeOK'
      BY <1>3 DEF evalVars, gates, panel, artifact, EvalInd, EvalTypeOK
    <2>2. GateInv'
      BY <1>3 DEF evalVars, gates, panel, artifact, EvalInd, GateInv, OneCreditPerHash,
         UnverifiedNotArchived, Unverified
    <2>3. CreditIsEarned' /\ BudgetAccounted'
      BY <1>3 DEF evalVars, gates, panel, artifact, EvalInd, CreditIsEarned, BudgetAccounted
    <2>4. ScoreInv'
      <3>1. UNCHANGED <<rows, outcomes, stage, scores, active, newEma, ema>>
        BY <1>3 DEF evalVars, artifact
      <3>2. EpochScores' = EpochScores
        BY <3>1 DEF EpochScores, CountedValues
      <3>3. \A m \in Miner : InfraOnly(m)' = InfraOnly(m)
        BY <3>1 DEF InfraOnly
      <3>4. QED
        BY <3>1, <3>2, <3>3 DEF EvalInd, ScoreInv
    <2>5. QED
      BY <2>1, <2>2, <2>3, <2>4 DEF EvalInd
  <1>4. QED
    BY <1>1, <1>2, <1>3, BeginEpochInd, ScoreOutcomesInd DEF EvalNext

\* EvalInd holds in every reachable state of every instance.
LEMMA EvalInvariance == EvalSpec => []EvalInd
  BY EvalInitInd, EvalStepInd, PTL DEF EvalSpec

\* Scores, EMA, weights, budget, cache and rows keep their types.
THEOREM EvalTypeCorrect == EvalSpec => []EvalTypeOK
  <1>1. EvalInd => EvalTypeOK
    BY DEF EvalInd
  <1>2. QED
    BY <1>1, EvalInvariance, PTL

\* No package hash earns two credits in an epoch.
THEOREM CreditsOncePerHash == EvalSpec => []OneCreditPerHash
  <1>1. EvalInd => OneCreditPerHash
    BY DEF EvalInd, GateInv
  <1>2. QED
    BY <1>1, EvalInvariance, PTL

\* Every credit is an accepted package's, in a container under Docker, proven
\* by the holdout where it is required, measured live or from the cache.
THEOREM CreditsAreEarned == EvalSpec => []CreditIsEarned
  <1>1. EvalInd => CreditIsEarned
    BY DEF EvalInd
  <1>2. QED
    BY <1>1, EvalInvariance, PTL

\* The panel budget is exactly what the live sidecar entries leave over.
THEOREM BudgetExact == EvalSpec => []BudgetAccounted
  <1>1. EvalInd => BudgetAccounted
    BY DEF EvalInd
  <1>2. QED
    BY <1>1, EvalInvariance, PTL

\* No package that could not be verified, or failed the holdout, is archived.
THEOREM ArchiveVerified == EvalSpec => []UnverifiedNotArchived
  <1>1. EvalInd => UnverifiedNotArchived
    BY DEF EvalInd, GateInv
  <1>2. QED
    BY <1>1, EvalInvariance, PTL

\* A miner without a row has no values, so the scores of the weights artifact
\* are those that the rows give.
THEOREM ReplayFollows == EvalSpec => []ReplayAgrees
  <1>1. ASSUME EvalInd, stage = "scored", NEW m \in active
        PROVE  scores[m] = IF m \in DOMAIN replay_epoch THEN replay_epoch[m] ELSE 0
    <2>1. scores[m] = top_k_epoch_score(CountedValues(rows, m), Quota)
      BY <1>1 DEF EvalInd, ScoreInv, EpochScores
    <2>2. CASE m \in DOMAIN replay_epoch
      BY <2>1, <2>2 DEF replay_epoch
    <2>3. CASE m \notin DOMAIN replay_epoch
      <3>1. \A i \in DOMAIN rows : rows[i].miner # m
        BY <2>3 DEF replay_epoch
      <3>2. DOMAIN CountedValues(outcomes, m) = {}
        BY <1>1, <3>1 DEF EvalInd, ScoreInv, CountedValues
      <3>3. top_k_epoch_score(CountedValues(outcomes, m), Quota) = 0
        BY <1>1, <3>2, CountedFacts, ScoreFacts, EvaluationAssumption DEF EvalInd
      <3>4. QED
        BY <1>1, <2>1, <2>3, <3>3 DEF EvalInd, ScoreInv
    <2>4. QED
      BY <2>2, <2>3
  <1>2. EvalInd => ReplayAgrees
    BY <1>1 DEF ReplayAgrees
  <1>3. QED
    BY <1>2, EvalInvariance, PTL

\* The plan of a package with a measurement is "cache" or "mock", never "live".
THEOREM MeasuredForGood == EvalSpec => MeasuredOnce
  <1> DEFINE Kept == \A h \in Hash : cache[h] # NoRate =>
                       /\ cache'[h] = cache[h]
                       /\ liveRuns' > liveRuns => last'[1] # h
  <1>1. EvalInd /\ [EvalNext]_evalVars => [Kept]_evalVars
    <2> SUFFICES ASSUME EvalInd, EvalNext, NEW h \in Hash, cache[h] # NoRate
                 PROVE  cache'[h] = cache[h] /\ (liveRuns' > liveRuns => last'[1] # h)
      OBVIOUS
    <2>1. EvalTypeOK /\ liveRuns \in Nat /\ h # 0 /\ DOMAIN cache = Hash
      BY EvaluationAssumption DEF EvalInd, EvalTypeOK
    <2>2. ASSUME NEW m \in Miner, NEW claimed \in Hash \cup {0}, NEW actual \in Hash,
                 NEW wellFormed \in BOOLEAN, EvaluateSubmission(m, claimed, actual, wellFormed)
          PROVE  cache'[h] = cache[h] /\ (liveRuns' > liveRuns => last'[1] # h)
      <3>1. PICK passes \in BOOLEAN, refunded \in BOOLEAN : \E r :
               Evaluates(m, claimed, actual, passes, r, refunded)
        BY <2>2, EvaluateForm
      <3>2. PICK r : Evaluates(m, claimed, actual, passes, r, refunded)
        BY <3>1
      <3>3. Plan(claimed) = "live" => claimed # h
        BY <2>1, PlanFacts
      <3>4. cache' = cache \/ (Plan(claimed) = "live" /\ \E rate : cache' = [cache EXCEPT ![claimed] = rate])
        BY <3>2 DEF Evaluates, CacheAfter
      <3>5. liveRuns' > liveRuns => Plan(claimed) = "live"
        BY <2>1, <3>2 DEF Evaluates
      <3>6. last'[1] = claimed
        BY <3>2 DEF Evaluates
      <3>7. cache'[h] = cache[h]
        BY <2>1, <3>3, <3>4
      <3>8. QED
        BY <3>3, <3>5, <3>6, <3>7
    <2>3. ASSUME BeginEpoch \/ ScoreOutcomes PROVE cache' = cache /\ liveRuns' = liveRuns
      BY <2>3 DEF BeginEpoch, ScoreOutcomes
    <2>4. ASSUME CommitEpoch \/ AbandonEpoch PROVE cache' = cache /\ liveRuns' = 0
      BY <2>4 DEF CommitEpoch, AbandonEpoch, LeaveEpoch
    <2>5. QED
      BY <2>1, <2>2, <2>3, <2>4 DEF EvalNext
  <1>2. QED
    BY <1>1, EvalInvariance, PTL DEF EvalSpec, MeasuredOnce

\* The EMA changes when an epoch is committed: upwards only for a positive
\* score, which takes a positive value, and never for an outage.
THEOREM EmaFollowsEvidence == EvalSpec => EmaMovesOnEvidence
  <1> DEFINE own(m) == {i \in DOMAIN rows : rows[i].miner = m}
             Moves == \A m \in Miner :
                        /\ ema'[m] > ema[m] => \E i \in own(m) : rows[i].value > 0
                        /\ ema'[m] < ema[m] =>
                             own(m) = {} \/ \E i \in own(m) : rows[i].status # "infra_error"
  <1>1. EvalInd /\ CommitEpoch => Moves
    <2> SUFFICES ASSUME EvalInd, CommitEpoch, NEW m \in Miner
                 PROVE  /\ ema'[m] > ema[m] => \E i \in own(m) : rows[i].value > 0
                        /\ ema'[m] < ema[m] =>
                             own(m) = {} \/ \E i \in own(m) : rows[i].status # "infra_error"
      OBVIOUS
    <2> DEFINE current == IF m \in active THEN scores[m] ELSE 0
    <2>1. EvalTypeOK /\ ema[m] \in Nat /\ rows = outcomes
      BY DEF EvalInd, EvalTypeOK, ScoreInv
    <2>2. ema'[m] = update_ema_score(ema[m], current, InfraOnly(m)) /\ scores = EpochScores
      BY DEF EvalInd, CommitEpoch, ScoreInv
    <2>3. current \in Nat
      BY <2>1, <2>2, ScoresNat
    <2>4. InfraOnly(m) \in BOOLEAN
      BY DEF InfraOnly
    <2>5. ema'[m] > ema[m] => current > 0
      <3> HIDE DEF current
      <3>1. QED
        BY <2>1, <2>2, <2>3, <2>4, EmaFacts
    <2>6. ASSUME current > 0 PROVE \E i \in own(m) : rows[i].value > 0
      <3>1. m \in active /\ top_k_epoch_score(CountedValues(outcomes, m), Quota) # 0
        BY <2>2, <2>6 DEF EpochScores
      <3>2. ~ \A i \in DOMAIN CountedValues(outcomes, m) : CountedValues(outcomes, m)[i] <= 0
        BY <2>1, <3>1, CountedFacts, ScoreFacts, EvaluationAssumption
      <3>3. PICK i \in DOMAIN CountedValues(outcomes, m) : ~(CountedValues(outcomes, m)[i] <= 0)
        BY <3>2
      <3>4. i \in own(m) /\ ~(rows[i].value <= 0) /\ rows[i].value \in Int
        BY <2>1, <3>3, CountedFacts
      <3>5. QED
        BY <3>4
    <2>7. ema'[m] < ema[m] => ~InfraOnly(m)
      BY <2>1, <2>2 DEF update_ema_score
    <2>8. QED
      BY <2>1, <2>5, <2>6, <2>7 DEF InfraOnly
  <1>2. EvalNext /\ ~CommitEpoch => ema' = ema
    <2>1. BeginEpoch \/ ScoreOutcomes \/ AbandonEpoch => ema' = ema
      BY DEF BeginEpoch, ScoreOutcomes, AbandonEpoch
    <2>2. ASSUME NEW m \in Miner, NEW claimed \in Hash \cup {0}, NEW actual \in Hash,
                 NEW wellFormed \in BOOLEAN, EvaluateSubmission(m, claimed, actual, wellFormed)
          PROVE  ema' = ema
      BY <2>2, EvaluateForm DEF Evaluates
    <2>3. QED
      BY <2>1, <2>2 DEF EvalNext
  <1>3. ASSUME EvalInd PROVE \A m \in Miner : ema[m] \in Nat
    BY <1>3 DEF EvalInd, EvalTypeOK
  <1>4. EvalInd /\ [EvalNext]_evalVars => [Moves]_evalVars
    <2>1. EvalInd /\ ema' = ema => Moves
      BY <1>3
    <2> HIDE DEF Moves
    <2>2. QED
      BY <1>1, <1>2, <2>1
  <1>5. QED
    BY <1>4, EvalInvariance, PTL DEF EvalSpec, EmaMovesOnEvidence

=============================================================================
