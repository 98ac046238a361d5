--------------------------- MODULE EpochEvaluation ---------------------------
(***************************************************************************)
(* What happens inside one evaluation of run_epoch, over several epochs of *)
(* one validator: the miners' packages pass the pre-gates, the engine's    *)
(* pipeline and the private holdout; the panel session spends its budget   *)
(* and its cache; verdicts are appended to submissions.jsonl; and the      *)
(* epoch's scores move the EMA.                                            *)
(*                                                                         *)
(* A miner is its position in the validator's list and a package hash is a *)
(* number, so both have the order that `sorted` uses; hash 0 is a missing  *)
(* package_hash.  Scores are fixed point (module Scoring).                 *)
(***************************************************************************)
EXTENDS Scoring, Holdout, Sequences

CONSTANTS
  Miner,            \* miners the metagraph may list
  Hash,             \* hashes of task packages
  Quota,            \* submissions per miner and epoch, also top_k
  PanelMode,        \* "mock", "dry_run" or "calibrate"
  MaxTasks,         \* panel_max_tasks: live panel runs per epoch
  Docker,           \* cfg.backend is "docker"
  HoldoutRequired,  \* cfg.holdout_required
  Values,           \* positive task values the engine may give
  Frontiers,        \* frontier terms a panel may measure
  MaxEpoch,         \* bound: epochs in a behaviour
  MaxPackages       \* bound: packages evaluated in each of them

ASSUME EvaluationAssumption ==
  /\ Miner \subseteq Nat \ {0} /\ IsFiniteSet(Miner)
  /\ Hash \subseteq Nat \ {0}
  /\ Quota \in Nat
  /\ PanelMode \in {"mock", "dry_run", "calibrate"}
  /\ MaxTasks \in Nat /\ (PanelMode = "calibrate" => MaxTasks > 0)
  /\ Docker \in BOOLEAN /\ HoldoutRequired \in BOOLEAN
  /\ Values \subseteq 1..One
  /\ Frontiers \subseteq 0..One
  /\ MaxEpoch \in Nat
  /\ \A e \in 1..MaxEpoch : MaxPackages[e] \in Nat

VARIABLES
  stage,     \* "idle", "evaluating" or "scored"
  epoch,     \* epochs begun so far
  active,    \* the miners of this epoch
  terminal,  \* the active miners without a usable response
  last,      \* sort key of the package evaluated last
  taken,     \* packages of each miner evaluated so far
  counts, seen,              \* GateContext
  budget, entries,           \* PanelSession: budget_remaining, sidecar sources
  cache,     \* panel cache: measured rate of each hash
  archived,  \* hashes with rows in the DuckDB archive
  outcomes,  \* the epoch's outcomes in memory
  rows,      \* the current epoch's rows of submissions.jsonl
  liveRuns,  \* live panels the engine really ran in this epoch (history)
  scores, newEma, weights,   \* the weights artifact
  ema        \* the committed EMA

gates == <<counts, seen>>
panel == <<budget, entries>>
artifact == <<scores, newEma, weights>>
evalVars == <<stage, epoch, active, terminal, last, taken, gates, panel, cache,
              archived, outcomes, rows, liveRuns, artifact, ema>>

Status == {"unreachable", "invalid", "infra_error", "rejected", "review", "accepted"}
Source == {"cache", "dry_run", "budget_exhausted", "live", "gate_failed"}
HoldoutStatus == {"none", "unsupported", "passed", "failed", "infra_error"}
Outcome == [miner : Miner, hash : Hash \cup {0}, status : Status, value : 0..One,
            containerized : BOOLEAN, holdout : HoldoutStatus, proven : BOOLEAN]
Weight == [num : Nat, den : Nat \ {0}]

EvalTypeOK ==
  /\ stage \in {"idle", "evaluating", "scored"}
  /\ epoch \in 0..MaxEpoch
  /\ active \in SUBSET Miner /\ terminal \in SUBSET active
  /\ last \in (Hash \cup {0}) \X (Miner \cup {0})
  /\ taken \in [Miner -> 0..Quota]
  /\ counts \in [Miner -> 0..Quota] /\ seen \in SUBSET Hash
  /\ budget \in 0..MaxTasks /\ entries \in Seq(Source)
  /\ cache \in [Hash -> Frontiers \cup {NoRate}]
  /\ archived \in SUBSET Hash
  /\ outcomes \in Seq(Outcome) /\ rows \in Seq(Outcome)
  /\ liveRuns \in Nat
  /\ DOMAIN scores \subseteq Miner /\ \A m \in DOMAIN scores : scores[m] \in Nat
  /\ newEma \in [Miner -> Nat] /\ ema \in [Miner -> Nat]
  /\ DOMAIN weights \subseteq Miner /\ \A m \in DOMAIN weights : weights[m] \in Weight

NoFunction == [m \in {} |-> 0]
Zeros == [m \in Miner |-> 0]

EvalInit ==
  /\ stage = "idle" /\ epoch = 0
  /\ active = {} /\ terminal = {} /\ last = <<0, 0>> /\ taken = Zeros
  /\ counts = Zeros /\ seen = {}
  /\ budget = MaxTasks /\ entries = <<>>
  /\ cache = [h \in Hash |-> NoRate]
  /\ archived = {}
  /\ outcomes = <<>> /\ rows = <<>> /\ liveRuns = 0
  /\ scores = NoFunction /\ newEma = Zeros /\ weights = NoFunction
  /\ ema = Zeros

-----------------------------------------------------------------------------
(***************************************************************************)
(* External: what the engine's pipeline and the holdout runner may report  *)
(* about a package.  The solver panel runs only on a package whose         *)
(* verification passed, and only such a package is accepted.  The holdout  *)
(* is evaluated from every outcome of its runs; tick does not begin        *)
(* without a secret.                                                       *)
(***************************************************************************)
Supported == {t \in Task : validate_holdout_support(t)}

HoldoutResult(t, reference, probes) ==
  [status |-> evaluate_holdout(t, TRUE, reference, probes),
   proven |-> Proven(reference, probes)]

Evidence ==
  UNION {{HoldoutResult(t, reference, probes) :
            reference \in RunResult, probes \in [ProbeCandidates(t) -> RunResult]} :
         t \in Supported}

NotRun ==
  [supported |-> TRUE, error |-> FALSE, executed |-> FALSE, fallback |-> FALSE,
   findings |-> FALSE, passed |-> FALSE, containerized |-> FALSE,
   lifecycle |-> "rejected", value |-> 0, frontier |-> 0,
   panel |-> FALSE, rate |-> NoRate, holdout |-> "none", proven |-> FALSE]

Passed == [NotRun EXCEPT !.executed = TRUE, !.passed = TRUE, !.containerized = TRUE]

\* The score of a package whose verification passed.
Verified(container, value, frontier, panelRan, rate, holdout) ==
  [Passed EXCEPT !.containerized = container \/ holdout.status # "passed",
     !.lifecycle = IF value = 0 THEN "review" ELSE "accepted", !.value = value,
     !.frontier = frontier, !.panel = panelRan, !.rate = IF panelRan THEN rate ELSE NoRate,
     !.holdout = holdout.status, !.proven = holdout.proven]

NotVerified ==
  {[NotRun EXCEPT !.supported = FALSE],
   [NotRun EXCEPT !.error = TRUE],
   [NotRun EXCEPT !.executed = TRUE, !.containerized = TRUE],
   [Passed EXCEPT !.error = TRUE, !.holdout = "passed", !.proven = TRUE]}

NoVerifier == {[NotRun EXCEPT !.fallback = TRUE, !.findings = f] : f \in BOOLEAN}

Scored ==
  {Verified(c, v, f, p, t, h) :
     c \in BOOLEAN, v \in Values \cup {0}, f \in Frontiers, p \in BOOLEAN,
     t \in Frontiers \cup {NoRate}, h \in Evidence}

EngineResult == NotVerified \cup NoVerifier \cup Scored

-----------------------------------------------------------------------------
(***************************************************************************)
(* The verdict on one package.                                             *)
(***************************************************************************)

\* run_pre_gates.  wellFormed stands for the reserved-key, schema, size and
\* parse gates, and actual is the hash of the parsed task.
PassesGatesAgain(m, claimed, actual, wellFormed) ==  \* mutant: duplicates are not noticed
  wellFormed /\ claimed = actual /\ counts[m] < Quota

PassesGates(m, claimed, actual, wellFormed) ==
  /\ wellFormed
  /\ claimed = actual
  /\ counts[m] < Quota
  /\ actual \notin seen

is_infra_error(r) == ~r.executed /\ r.fallback /\ ~r.findings

\* The pipeline is not run for a task the holdout policy does not support, and
\* the holdout only for a verification that passed.
PipelineRuns(r) == HoldoutRequired => r.supported
HoldoutApplies(r) == HoldoutRequired /\ r.passed

\* Docker was asked for and the task was accepted without a container.
Uncontainerized(r) ==
  Docker /\ ~r.containerized
    /\ r.lifecycle \notin {"rejected", "review", "invalid", "infra_error"}

\* validate_submission and _outcome_from_pipeline, once the gates passed.
Verdict(r) ==
  IF ~PipelineRuns(r) THEN "rejected"
  ELSE IF HoldoutApplies(r) /\ r.holdout \in {"failed", "infra_error"}
    THEN IF r.holdout = "failed" THEN "rejected" ELSE "infra_error"
  ELSE IF r.error THEN "invalid"
  ELSE IF is_infra_error(r) THEN "infra_error"
  ELSE IF r.findings THEN "rejected"
  ELSE IF Uncontainerized(r) THEN "infra_error"
  ELSE r.lifecycle

\* None of the early returns: the outcome carries a value and panel rows.
Completes(r) ==
  /\ PipelineRuns(r)
  /\ HoldoutApplies(r) => r.holdout = "passed"
  /\ ~(r.error \/ is_infra_error(r) \/ r.findings \/ Uncontainerized(r))

\* The verdicts after which purge_task removes the package from the archive.
PurgesInfraOnly(r) == Verdict(r) = "infra_error"  \* mutant: the holdout failure is kept

Purges(r) ==
  \/ HoldoutApplies(r) /\ r.holdout # "passed"
  \/ Verdict(r) = "infra_error"

HoldoutRecord(r) ==
  IF ~PipelineRuns(r) THEN "unsupported"
  ELSE IF HoldoutApplies(r) THEN r.holdout ELSE "none"

task_value_from_score(r) == IF r.lifecycle = "accepted" THEN r.value ELSE 0

GateFailure(m, claimed) ==
  [miner |-> m, hash |-> claimed, status |-> "invalid", value |-> 0,
   containerized |-> FALSE, holdout |-> "none", proven |-> FALSE]

PipelineOutcome(m, h, r) ==
  [miner |-> m, hash |-> h, status |-> Verdict(r),
   value |-> IF Completes(r) THEN task_value_from_score(r) ELSE 0,
   containerized |-> r.containerized, holdout |-> HoldoutRecord(r),
   proven |-> HoldoutApplies(r) /\ r.proven]

-----------------------------------------------------------------------------
(***************************************************************************)
(* The panel session.                                                      *)
(***************************************************************************)

PlanWithoutCache(h) ==  \* mutant: the cache is not consulted
  IF PanelMode # "calibrate" THEN PanelMode
  ELSE IF budget <= 0 THEN "budget_exhausted" ELSE "live"

Plan(h) ==
  IF PanelMode = "mock" THEN "mock"
  ELSE IF h # 0 /\ cache[h] # NoRate THEN "cache"
  ELSE IF PanelMode = "dry_run" THEN "dry_run"
  ELSE IF budget <= 0 THEN "budget_exhausted" ELSE "live"

\* plan() reserves a slot; refund() returns it.
BudgetWithoutRefund(plan, refunded) ==  \* mutant: a failed gate keeps the slot
  IF plan = "live" THEN budget - 1 ELSE budget

BudgetAfter(plan, refunded) ==
  budget - (IF plan = "live" THEN 1 ELSE 0) + (IF refunded THEN 1 ELSE 0)

\* record(): one sidecar entry per package; run_epoch records a refunded plan
\* as gate_failed, and an inactive session records nothing.
EntriesAfter(plan, refunded) ==
  CASE plan = "mock" -> entries
    [] refunded -> Append(entries, "gate_failed")
    [] OTHER -> Append(entries, plan)

\* _cache_store: only a live panel with a genuine attempt leaves a measurement,
\* in memory and in the file that the next session's _load_cache reads.
CacheAfter(plan, h, rate) ==
  IF plan = "live" /\ h # 0 /\ rate # NoRate THEN [cache EXCEPT ![h] = rate] ELSE cache

-----------------------------------------------------------------------------
(***************************************************************************)
(* The epoch.                                                              *)
(***************************************************************************)

TerminalOutcome(m, status) ==
  [miner |-> m, hash |-> 0, status |-> status, value |-> 0,
   containerized |-> FALSE, holdout |-> "none", proven |-> FALSE]

\* A set of numbers in ascending order.
Sorted(S) == {order \in [1..Cardinality(S) -> S] :
                \A i, j \in DOMAIN order : i < j => order[i] < order[j]}

\* The list of miners is discovered and queried, and the terminal ones get
\* their row, in list order.
BeginEpoch ==
  /\ stage = "idle"
  /\ epoch < MaxEpoch
  /\ epoch' = epoch + 1
  /\ stage' = "evaluating"
  /\ \E miners \in SUBSET Miner \ {{}} : \E down \in SUBSET miners :
     \E order \in Sorted(down), status \in [down -> {"unreachable", "invalid"}] :
       /\ active' = miners /\ terminal' = down
       /\ outcomes' = [i \in DOMAIN order |-> TerminalOutcome(order[i], status[order[i]])]
       /\ rows' = outcomes'
  /\ UNCHANGED <<last, taken, gates, panel, liveRuns, cache, archived, artifact, ema>>

\* _collect: terminal miners are skipped, the others give up to quota packages.
Collected(m) == m \in active \ terminal /\ taken[m] < Quota

\* Packages come sorted by claimed hash, then in the order of the miners.
InOrder(claimed, m) ==
  claimed > last[1] \/ (claimed = last[1] /\ m >= last[2])

\* The loop body of run_epoch for one package of miner m.
EvaluateSubmission(m, claimed, actual, wellFormed) ==
  \E r \in IF PassesGates(m, claimed, actual, wellFormed) THEN EngineResult ELSE {NotRun} :
  LET plan == Plan(claimed)
      passes == PassesGates(m, claimed, actual, wellFormed)
      ran == passes /\ PipelineRuns(r)
      verdict == IF passes THEN PipelineOutcome(m, claimed, r) ELSE GateFailure(m, claimed)
      reports == passes /\ Completes(r) /\ r.panel
      refunded == plan = "live" /\ ~reports
      outcome == IF plan = "cache"
                   THEN [verdict EXCEPT !.value =
                           recalibrated_task_value(@, r.frontier, cache[claimed])]
                   ELSE verdict
  IN /\ stage = "evaluating"
     /\ Collected(m)
     /\ SumFunctionOnSet(taken, Miner) < MaxPackages[epoch]
     /\ InOrder(claimed, m)
     /\ last' = <<claimed, m>>
     /\ taken' = [taken EXCEPT ![m] = @ + 1]
     /\ IF passes
          THEN counts' = [counts EXCEPT ![m] = @ + 1] /\ seen' = seen \cup {actual}
          ELSE UNCHANGED gates
     /\ archived' = CASE ran /\ Purges(r) -> archived \ {claimed}
                      [] ran /\ ~Purges(r) /\ ~r.error -> archived \cup {claimed}
                      [] OTHER -> archived
     /\ liveRuns' = IF ran /\ plan = "live" /\ r.panel THEN liveRuns + 1 ELSE liveRuns
     /\ budget' = BudgetAfter(plan, refunded)
     /\ entries' = EntriesAfter(plan, refunded)
     /\ cache' = CacheAfter(plan, claimed, IF reports THEN r.rate ELSE NoRate)
     /\ rows' = Append(rows, outcome)
     /\ outcomes' = Append(outcomes, outcome)
     /\ UNCHANGED <<stage, epoch, active, terminal, artifact, ema>>

\* The values of a miner that count, by position: infrastructure failures do not.
CountedValues(log, m) ==
  [i \in {j \in DOMAIN log : log[j].miner = m /\ log[j].status # "infra_error"} |->
     log[i].value]

ScoresByTask ==  \* mutant: a miner's values are looked up in task_values
  LET latest(o) == outcomes[CHOOSE i \in DOMAIN outcomes :
                     /\ outcomes[i].hash = o.hash
                     /\ \A j \in i + 1..Len(outcomes) : outcomes[j].hash # o.hash]
      looked == [i \in DOMAIN outcomes |-> [outcomes[i] EXCEPT !.value = latest(outcomes[i]).value]]
  IN [m \in active |-> top_k_epoch_score(CountedValues(looked, m), Quota)]

EpochScores ==
  [m \in active |-> top_k_epoch_score(CountedValues(outcomes, m), Quota)]

InfraOnly(m) ==
  /\ \E i \in DOMAIN outcomes : outcomes[i].miner = m
  /\ \A i \in DOMAIN outcomes :
       outcomes[i].miner = m => outcomes[i].status = "infra_error"

normalize_active_weights(state, miners) ==
  LET total == SumFunctionOnSet(state, miners)
  IN [m \in miners |->
        IF total <= 0 THEN [num |-> 0, den |-> 1] ELSE [num |-> state[m], den |-> total]]

\* Scores, EMA and weights of the epoch, in memory.
ScoreOutcomes ==
  /\ stage = "evaluating"
  /\ stage' = "scored"
  /\ scores' = EpochScores
  /\ newEma' = [m \in Miner |->
       update_ema_score(ema[m], IF m \in active THEN scores'[m] ELSE 0, InfraOnly(m))]
  /\ weights' = normalize_active_weights(newEma', active)
  /\ UNCHANGED <<epoch, active, terminal, last, taken, gates, panel, cache, archived,
                 outcomes, rows, liveRuns, ema>>

\* The process leaves the epoch: what it had in memory is gone.
LeaveEpoch ==
  /\ stage' = "idle"
  /\ active' = {} /\ terminal' = {} /\ last' = <<0, 0>> /\ taken' = Zeros
  /\ counts' = Zeros /\ seen' = {}
  /\ budget' = MaxTasks /\ entries' = <<>> /\ liveRuns' = 0
  /\ outcomes' = <<>> /\ rows' = <<>>
  /\ scores' = NoFunction /\ newEma' = Zeros /\ weights' = NoFunction
  /\ UNCHANGED <<epoch, cache, archived>>

\* The epoch is committed and its EMA published.
CommitEpoch ==
  /\ stage = "scored"
  /\ ema' = newEma
  /\ LeaveEpoch

\* The evaluation or the submission fails: the EMA stays, the panel cache and
\* the archive keep what they got.
AbandonEpoch ==
  /\ stage \in {"evaluating", "scored"}
  /\ LeaveEpoch
  /\ UNCHANGED ema

EvalNext ==
  \/ BeginEpoch
  \/ \E m \in Miner, claimed \in Hash \cup {0}, actual \in Hash, wellFormed \in BOOLEAN :
       EvaluateSubmission(m, claimed, actual, wellFormed)
  \/ ScoreOutcomes
  \/ CommitEpoch
  \/ AbandonEpoch

EvalSpec == EvalInit /\ [][EvalNext]_evalVars

-----------------------------------------------------------------------------
(***************************************************************************)
(* Correctness.                                                            *)
(***************************************************************************)

\* A package hash earns at most one credit in an epoch, whichever miners
\* submit it, under whichever claims, measured live or from the cache.
OneCreditPerHash ==
  \A i, j \in DOMAIN rows :
    rows[i].value > 0 /\ rows[j].value > 0 /\ rows[i].hash = rows[j].hash => i = j

\* A row that earns something is an accepted package that, under Docker, ran in
\* a container and that, where the holdout is required, was proven by it: its
\* reference solved the private cases and at least one known-wrong solution,
\* and every one there was, failed them in isolation.  A cached measurement
\* never turns a failed package into a credit.
CreditIsEarned ==
  \A i \in DOMAIN rows : rows[i].value > 0 =>
    /\ rows[i].status = "accepted"
    /\ Docker => rows[i].containerized
    /\ HoldoutRequired => rows[i].proven

\* The budget the sidecar reports is what the live entries it lists have left
\* over: a package that never reaches the panel costs nothing.
BudgetAccounted ==
  budget = MaxTasks - Cardinality({i \in DOMAIN entries : entries[i] = "live"})

\* A package that could not be verified, or failed the holdout, is not in the
\* archive, although the pipeline had put it there.
UnverifiedNotArchived ==
  \A i \in DOMAIN rows :
    rows[i].status = "infra_error" \/ rows[i].holdout \in {"failed", "infra_error"}
      => rows[i].hash \notin archived

\* replay_epoch: the scores recomputed from the rows of submissions.jsonl.
replay_epoch ==
  [m \in {rows[i].miner : i \in DOMAIN rows} |->
     top_k_epoch_score(CountedValues(rows, m), Quota)]

\* The scores recomputed from submissions.jsonl are those of the weights
\* artifact, for every miner that has a row; a miner without one scored 0.
ReplayAgrees ==
  stage = "scored" =>
    \A m \in active :
      scores[m] = IF m \in DOMAIN replay_epoch THEN replay_epoch[m] ELSE 0

\* A measured package is never paid for again, in this or a later epoch, and
\* its measurement never changes.
MeasuredOnce ==
  [][\A h \in Hash : cache[h] # NoRate =>
       /\ cache'[h] = cache[h]
       /\ liveRuns' > liveRuns => last'[1] # h]_evalVars

\* The EMA of a miner rises only on a credited row, and falls only when the
\* miner has a verdict that was not an infrastructure failure, or none at all.
EmaMovesOnEvidence ==
  [][\A m \in Miner :
       LET own == {i \in DOMAIN rows : rows[i].miner = m}
       IN /\ ema'[m] > ema[m] => \E i \in own : rows[i].value > 0
          /\ ema'[m] < ema[m] =>
               own = {} \/ \E i \in own : rows[i].status # "infra_error"]_evalVars

\* "Gate/verification failure meant the real panel never ran" (epoch.py, the
\* refund in run_epoch): every live panel that ran is an entry of the sidecar.
RefundedNeverRan ==
  liveRuns = Cardinality({i \in DOMAIN entries : entries[i] = "live"})

\* assert_replay_matches: "`dolores-validator replay` deterministically
\* rechecks archived score and weight derivation against stored receipts"
\* (README.md), comparing the two score tables key by key.
ReplayMatches == stage = "scored" => replay_epoch = scores

=============================================================================
