# Formal model of the Dolores subnet

TLA+ modules for `dolores-bittensor-subnet`: what the recurring validator does
to its files and to the chain, how it turns miners' packages into weights, how
it questions the miners and the chain, what a miner lets in and how a miner is
kept published and running.  TLC checks the modules on small instances; TLAPS
proves their safety for every value of the constants: every number of
processes, epochs and faults, every set of miners, packages and clients, every
burst, rate, quota and budget, every subnet and every sequence of changes to it.
It also proves that the recurring validator implements the abstract ledger of
epochs.

## The system

| Part | State it keeps | Operations | What is hard about it |
|---|---|---|---|
| Runtime state (`validator_state.py`) | `state.json`: next and active epoch, phase, attempt, last results | begin, phase transitions, fail, commit, recover-receipt | crashes between any two writes; a timer and an operator on one directory |
| Lock and atomic files (`atomic.py`) | `tick.lock`, renames | non-blocking flock, write-rename-fsync | a write that lands and then raises |
| Epoch runner (`epoch.py`) | epoch snapshot, panel sidecar, weights artifact, completion marker, rolling EMA | run, verify marker, replay | order of writes; the EMA must be folded exactly once |
| Chain client (`chain.py`) | the connection and one cached metagraph per process; attempt and receipt of the epoch; the chain itself | discovery, preflight, `apply_weights`, `set_weights`, read-back, each read under a SIGALRM deadline or under none | a submission whose outcome is unknown; late inclusion; equal weight vectors; UIDs that change hands between two reads; an alarm at any statement |
| Gates and bridge (`gates.py`, `bridge.py`) | per-epoch counts and seen hashes; DuckDB archive | pre-gates, verdict, purge | false claims, duplicates, tasks archived before they are known to be bad |
| Private holdout (`holdout.py`) | none | which tasks are supported, plan, probes, verdict | a probe that could not be run is not one that was caught |
| Panel session (`panel.py`) | budget, cache, sidecar entries | plan, refund, record | a plan made from an unchecked claim; refunds |
| Scoring (`scoring.py`) | none | top-k, EMA, weights, recalibration | rounding, outages that are not zeros |
| Submission log (`archive.py`, `epoch.py`) | `submissions.jsonl` | append, tail repair, replay | torn tails, appends outside the lock |
| Wire (`wire.py`, `protocol.py`, `packaging.py`) | none | signed request and response, bounded reads | late, replayed or oversized answers |
| Miner admission (`miner_cli.py`) | token buckets, replay cache | HTTP middleware, cohort verifier, allowlist | awaits between check and record |
| Miner service (`miner_cli.py`, `deploy/systemd`) | the process, the published axon, the unit | serve, publish, read back, doctor, restart | partial publication, late inclusion, a doctor beside a process that loads, state lost in a restart |
| Command lines and configuration (`validator_cli.py`, `config.py`) | none | what `tick` and `health` accept, the network, the live gates | a healthy answer that the next tick belies |
| Scripts, neurons | none | release tooling, entry points | not part of the running system |

A systemd timer starts `dolores-validator tick`, one process per tick.  The
tick discovers and queries the miners over the wire, calls `run_epoch`, which
calls gates, bridge, panel and scoring for each package, and hands the weights
to the chain client.  Everything a later tick needs is in files; the only
thing two processes share in memory is the kernel's lock.  At the other end a
systemd unit runs the miner and asks `dolores-miner doctor` whether it is
reachable and published.

What makes each part correct.  State and epochs: an epoch is evaluated, sent and
folded at most once, and one that may be on the chain blocks the next.  Chain
client: weights go to the miners that were scored, under the limits of the
chain, and no read leaves its alarm behind.  Evaluation: credit is earned,
unique and within budget, and can be replayed.  Log: acknowledged rows survive.
Wire and admission: an answer counts once and for the query it answers; a
request is accepted once and within the rates.  Service: what is reported as
published, reachable or healthy is so.

## Modules

* `EpochLedger` is the promise: epoch ids are handed out once, weights of an
  epoch are sent at most once, an epoch is folded into the EMA at most once, and
  an epoch that may be on the chain is never left behind unfolded.
* `ValidatorTick` is `tick` and `recover-receipt`, run by any number of
  processes.  `pc[p]` is the step a process is at; each durable write of the
  code is one action, in the code's order: `BeginAllocates`, `MarkQuerying`,
  `BeginEvaluation`, `AppendSubmissions`, `ScoreEpoch`, `BeginSubmitting`,
  `StartAttempt`, `SetWeights`, `ReadBack`, `WriteSubmittedReceipt`,
  `CompleteAttempt`, `SaveMinerState`, `PersistPanelSidecar`,
  `WriteWeightsArtifact`, `WriteCompletionMarker`, `PublishRolling`,
  `CommitRolling`, `CommitState`.  `Raise` is an exception before the write,
  the second disjunct of `Written` one after it (the directory fsync), `Crash` a
  kill at any point, `IncludeLate` the chain including an extrinsic later,
  `DamageSnapshot` a file that changes after it was hashed.  An EMA is its
  lineage, the set of the epochs folded into it; a hash is the content hashed.
* `ValidatorTickInv` is the inductive invariant, `ValidatorTickProofs` the
  theorems about epochs, `ValidatorTickRefinement` those about the evidence on
  the chain and the refinement of `EpochLedger`.
* `Scoring` is the arithmetic of `scoring.py` in fixed point: the code rounds
  every score to six decimals, so scores are integers, and the instances use a
  coarse unit.
* `EpochEvaluation` is the body of `run_epoch` up to the weights: one action per
  package does all that the loop body does (plan, gates, verdict, refund,
  recalibration, sidecar entry, cache, archive, row).  What the external engine
  reports is any record of `EngineResult`.  `EpochEvaluationProofs` has its
  theorems.
* `Holdout` has the operators of `holdout.py`: `validate_holdout_support` and the
  plan, the probe candidates of a task, and the verdict as a function of what the
  external runs report.  `EpochEvaluation` uses them: a package's holdout passes,
  fails or cannot be run.
* `BoundedCall` is `bounded_call` of `chain.py`, the SIGALRM deadline around a
  chain read (`_bounded_call` of `miner_cli.py` has the same statements).  `pc` is
  the statement of the main thread; `AlarmFires` is the kernel and may come
  between any two statements; the signal is acted upon when the interpreter
  next looks (`pending`).  `returned` is what the caller got.
* `ChainClient` composes it with `SubtensorChain`, `tick` and `health`.  `step` is
  where a command is: `connect`, `block`, `metagraph`, `since` and `read_back` go
  through `bounded_call` statement by statement (`Bounded`, `SdkEnds`, `Alarm`),
  `exists`, `limit`, `reveal`, `convert` and `set_weights` do not and may hang.
  Beside it the chain moves: `NewBlock`, `Recycle` (a UID changes hands),
  `SetParams`.  `snap` is the cached metagraph, `seen` the preflight record.
  `ResolveNetwork`, `TickAccepts` and `HealthAccepts` are the command lines,
  `SkipReason` and `MissingGates` the decisions of `apply_weights`.  A failed probe of
  the rate limit reads as 0, and a metagraph without the validator's `last_update`
  gives no number of blocks (`None`) and no check of the limit, as in the code.  The
  payload is `Convert`, or `ConvertFilled` when fewer miners have a weight than
  `min_allowed_weights` asks for: then the SDK's `process_weights_for_netuid` returns
  weights over all UIDs.  The response of `SetWeights` need not agree with what the
  chain has included.
  The durable side of a submission is `ValidatorTick`'s; `parked` stands for it.
* `ChainClientProofs` has its inductive invariant and theorems.
* `SubmissionLog` is `submissions.jsonl`: `append_jsonl_fsync`, the tail repair
  by `atomic_write_bytes` and the tolerant reader.  A row is three cells (half
  an object, the other half, the newline), so a write or a crash can tear it at
  every place that matters; `synced` and `durable` say what a loss of power may
  take away.  One process at a time is inside, by the tick lock.  What the
  reader returns is a function from the place where a line ends to its row.
  `SubmissionLogProofs` has its theorems.
* `MinerAdmission` is the miner's side of a request: `Connect` and
  `ReceiveChunk` are `RequestAdmissionMiddleware`, `VerifyPolicy` the allowlist, which
  the SDK asks first, and the cohort verifier up to its await of `default_verify`,
  `VerifyAdmit` what follows it, `Forward` the handler.  A copy of a request may be
  altered in the headers that the signature does not cover (`policy`) or in what it
  covers (`genuine` becomes false); `served` keeps the request as it was delivered.
  Time is in ticks and tokens are in
  units of `1/Cost`, so rates below one token per tick are whole numbers.  The
  wall clock and the monotonic clock of the miner advance together.
* `MinerAdmissionProofs` has its inductive invariant and theorems.
* `MinerService` extends `MinerAdmission` with the life of the process: `Serve`,
  `ServeAxon`, `ReadBackAxon`, `PublishRaises`, the unit (`StartUnit`, `RestartUnit`,
  `GiveUp`, `StopUnit`), `Crash`, and `doctor` as the moments of an attempt: the
  probes of the port (`DoctorTcp`), the read of the metagraph (`DoctorChain`), the
  verdict on both (`DoctorJudges`) and the delay before the next attempt
  (`DoctorRetries`).  A start may be slower than all attempts (`Unlucky`), which
  counts as a fault.  `lapsed` and `dropped` remember whether the miner stopped or lost
  its UID since the attempt began.  A request is handled only while the axon listens,
  and `Forget` empties what admission had in memory.  The chain may include the
  extrinsic later (`AxonLands`) or drop the hotkey (`Deregister`).  `life`, a
  history variable, is the set of requests accepted since the process started.
  `MinerServiceProofs` has its theorems.
* `WireExchange` is `query_miners` with `forward` and `sign_response` at the other
  end.  Cryptography is symbolic: a digest is its list, a signature its key and
  message.  The network may change any one field or the list of a response and
  deliver it to any query; a miner outside `Honest` signs what it likes.
  `WireExchangeProofs` has its theorems.
* `MCPreSubmit` adds to `ValidatorTick` a memory of the epochs whose
  `process_and_convert` raised, for one finding.
* `MCValidatorTick`, `MCEpochEvaluation`, `MCChainClient`, `MCMinerAdmission`,
  `MCMinerService` and `MCWireExchange` are the instances; `BoundedCall` and
  `SubmissionLog` need none.  Operators marked
  `mutant` are faulty variants of the definition they precede; no definition of
  the models uses them.

## Runs

| Run | Instance | Result |
|---|---|---|
| `tick_safety` | 2 processes, 3 epochs, 2 faults, all publish modes, epoch 2 under commit-reveal, epochs 1 and 3 with equal weights, snapshot 1 damageable | holds |
| `tick_liveness` | 2 processes, 2 epochs, 2 faults, with fairness | holds |
| `tick_presubmit` | 1 process, dry-run, 1 fault, which is the exception itself | violated: see findings |
| `evaluation_epochs` | 2 miners, 2 hashes, 2 epochs, up to 2 packages each (3 in the first epoch, 2 in the second), live panel budget 1 | holds |
| `evaluation_refund` | as above, 1 epoch, 1 package each | violated: see findings |
| `evaluation_replay` | as above, 1 epoch, 1 package each | violated: see findings |
| `chain_client` | 3 UIDs, the validator and 3 miners, 2 commands out of every mode, 1 block and 1 change at any moment, reads that fail or hang, with fairness | holds |
| `bounded_expiry` | 1 read | violated: see findings |
| `submission_log` | 2 processes, 4 rows, 3 crashes, 3 repairs | holds |
| `admission_auth` | 2 connections, 2 validators (one with its clock ahead, one paced) and a third that is not configured, 3 requests, altered or not and with headers in and out of the policy, 3 clock values, window of 1 tick | holds |
| `miner_service` | the unit's 3 doctor attempts and 5 starts, 1 launch, 4 crashes, failed probes or slow starts, 2 read-backs, and 1 request delivered again and again with bodies within and above the cap, with fairness | holds |
| `wire_exchange` | 2 validators, an honest and a dishonest miner, 2 queries, 2 epochs, quotas 1 and 3 | holds |

What `tick_safety` says: `StateValid` (the state file always passes its own
validation), `AmbiguityFailsClosed` and `AtMostOneSubmission` (an epoch that may
be on the chain is neither passed over nor sent again), `EmaLineage` (the EMA is
made of exactly the committed epochs), `SingleEvaluation` (replay reads one
evaluation), `CommittedIsEvidenced`, `AbandonedForever`, `ChainNeverRegresses`,
and `ImplementsLedger`, the refinement of `EpochLedger` with `next_epoch_id` as
`next`, the active epoch as `open`, the epochs with a `set_weights` call as
`sent` and the lineage of `miner_state.json` as `folded`.

What `evaluation_epochs` says: `OneCreditPerHash`,
`CreditIsEarned`, `BudgetAccounted`, `UnverifiedNotArchived`, `ReplayAgrees`,
`MeasuredOnce` and `EmaMovesOnEvidence`.

What `admission_auth` says: `RateBound` (no bunching and no
idle time lets more through than burst and rate), `CacheBounded` (the replay
cache is bounded by the bucket in front of it), `ReplayCovered` and `AcceptOnce`
(eviction goes by the time of acceptance and freshness by the nonce: the cache
covers every nonce that was not ahead of the miner's clock, and for the others
the SDK's own nonce check is what prevents the second acceptance),
`PacedNeverRefused` (copies of a validator's requests do not use up its tokens,
because the bucket is charged after the signature and the nonce are checked), and
`ServedIsAuthentic` (what `forward` gets is as a configured validator signed it, but
for unsigned headers, and those satisfy the policy).

What `miner_service` says: `PublishedIsExact` (the miner says so and serves on
only with the exact record on the chain, however late the extrinsic lands);
`DoctorTellsTruth` (when doctor says ok, what it saw at two earlier moments is
still so, unless the process stopped or the UID was lost after this very attempt
began: no observation of an earlier attempt is used); `ServiceRecovers` (the
unit, which never publishes and whose doctor runs beside a process that is still
loading, comes up again by itself after fewer faults than its start limit);
`WholeBody`; and `AcceptOncePerLife` (a second acceptance of a request needs a
restart in between, which a failed publication is too).

What `wire_exchange` says: `PayloadsAreAnswers`, `CountedOnce` and
`HonestAnswerCounts`, that both ends build the same message: the miner serves
the smaller of the two quotas and signs the one it was asked for.

What `chain_client` says: `AlarmContained` (every path of `bounded_call` back to
the command undoes the timer and the handler, and the default action of SIGALRM
never kills the process; the path on which `_DeadlineExpired` escapes is not one of
them: it leaves the handler installed, ends the command, and is the finding
`bounded_expiry`); `PaidToOwner` (a payload pairs a UID with the hotkey that was
scored, unless the UID changed hands while this tick ran or the SDK filled the
payload up to `min_allowed_weights`, which pays hotkeys that were never scored);
`NeverEmpty` (discovery and mapping use
one metagraph, so a tick that found its miners never sends nothing);
`RateLimitKept` (with the validator's own last submission counted, whenever the
metagraph has the validator's `last_update`; without it the code submits unchecked);
`HealthyTickConnects` (after a `health` that returned 0, on a chain that did not
change, a tick finds miners, subnet and registration); `CommandsEnd` (a command
ends, or hangs in one of the five reads without a deadline).

What `submission_log` says: `LogReadable` (a torn tail is never buried),
`AckedRowsSurvive` (an append that returned is read once and in order after any
crash) and `RepairKeepsReading`.

Every module has its type invariant (`TypeOK`, `ClientTypeOK`, `CallTypeOK`,
`EvalTypeOK`, `AdmTypeOK`, `WireTypeOK`, `LogTypeOK`), which documents its
variables; those of `ValidatorTick`, `EpochEvaluation`, `MinerAdmission`,
`WireExchange` and `SubmissionLog` are proved.

Bounds.  Two processes are enough for every interleaving at the lock, because a
process that does not hold it takes no step.  Three epochs let an epoch be
abandoned or parked between a committed predecessor and a successor; two faults
let the recovery from the first one fail as well.  `EpochBoundReached` stops a
tick at the bound.  In `EpochEvaluation` two miners and two hashes contain every
order of claims of one package against another, and a budget of one makes the
second package meet an exhausted or a refunded budget; three packages
(`MaxPackages`) let one miner repeat itself and meet the other's package, and
two more in the next epoch meet the cache.  Deadlock is not checked there, because a behaviour ends at the bound `MaxEpoch`.  In `MinerAdmission` two
connections let two copies of one request be between check and record at once,
and three values of the clock let a window of one tick pass, a nonce ahead of the
clock outlive its entry in the cache, and a bucket refill; requests and
ticks are bounded by `MaxRequests` and `MaxTime`.  In `ChainClient` two commands
are a health or a tick before a tick, three UIDs leave one to change hands beside
one that does not, and one block and one change (`MaxBlock`, `MaxChanges`) may
come inside any read, between two reads or between the commands; the parameters
reached are those one change away from the first (`OneAway`).  In `MinerService`
attempts and starts are those of the unit; four faults (`MaxFaults`) are one fewer
than the start limit, and with five TLC finds the unit given up, so the bound is
the sharpest for which `ServiceRecovers` holds.  One launch (`MaxLaunches`) is enough
because an initial state has the record of an earlier publication or not, and it is
followed by the unit's restarts; two read-backs let a record arrive between them.
One connection and one request suffice there because a restart beside deliveries of
the same request is what is under test.  In `WireExchange` two queries
are a retry of one validator or two validators at once.  In `SubmissionLog` three
crashes let a repair be interrupted twice.  These behaviours end at their bounds
too, so deadlock is not checked.

Fairness of `tick_liveness`.  A running process keeps running unless it is
killed (weak fairness of `TickStep`), and the supervisor starts ticks for ever
(`OnUnitInactiveSec` and `Restart=on-failure` in `deploy/systemd`); a start that
finds the lock taken is repeated, hence strong fairness of `StartTick(Timer)`.
Faults are bounded by `MaxFaults`, so the property speaks of what happens once
they stop.

Fairness of `chain_client`.  The process executes its next statement (weak
fairness of `Guided`) and an armed timer expires (`Alarm`).  Nothing is assumed of
the SDK: a read, guarded or not, need never return.  `CommandsEnd` counts an escape
of `_DeadlineExpired` as an end; `bounded_expiry` is about that.

Fairness of `miner_service`.  systemd restarts the unit, the process loads its
tasks, and the doctor, whose probe and read have deadlines, goes on.  How long
loading takes is not assumed: it may outlast every attempt of the doctor, as often
as there are faults left.  The operator, the chain and the publication need not do
anything.

## Findings

* `tick_presubmit`: when `process_and_convert` raises in a dry run (it reads the chain
  outside every `try`), the exception is not the `EpochCompletionError` that
  `tick_command` handles, and the epoch stays in `weights_submitting` without a receipt:
  every later tick refuses it, although a comment in `tick_command` says such an error
  may advance.  Refusing a state of unknown origin is intended and tested; here the
  process knew the error to precede any submission.
* `evaluation_refund`: a live panel that ran is refunded when the holdout fails
  afterwards, so more live panels than `panel_max_tasks` can run in an epoch.
* `evaluation_replay`: an active miner that answers with no packages makes
  `replay` report a mismatch for an intact epoch.
* `bounded_expiry`: an alarm handled after `fn` returned and before the finally
  clause has stopped the timer leaves `bounded_call` as `_DeadlineExpired`, not as
  `ChainReadTimeout`, and with the handler still installed.  The window is a few
  instructions wide.

One limit is by design and shows in two properties: the read-back compares
vectors.  It does not vouch for an epoch sent under commit-reveal, nor for one
whose vector equals what an earlier epoch had put on the chain, and such an
epoch's extrinsic may still be included after a later epoch's.

## Proofs

`ValidatorTickProofs` proves `TypeOK`, `StateValid`, `AmbiguityFailsClosed`,
`AtMostOneSubmission`, `EmaLineage` and `SingleEvaluation` as invariants of
`Spec`, from `ConstantsAssumption` alone: any set of processes, any `MaxEpoch`
and `MaxFaults`, any publish modes, commit-reveal, repeated and damageable
epochs.

None of these is inductive by itself.  `AtMostOneSubmission`, for example, needs
that a process reaches `set_weights` only with no call made, which needs that an
epoch before `weights_submitting` has no chain files, that a running process
works on the active epoch in the phase of its step, and that it is the only one
running.  `IndInv` is the conjunction of these facts: `LockInv` (only the owner
of the lock runs), `StateInv` (the active epoch is the newest), `StepInv` (step
and phase agree), `UntouchedInv` (no chain files before `weights_submitting`),
`ChainInv` (a call leaves an attempt file; an attempt excludes a definite
receipt and keeps the epoch in `weights_submitting` until it is committed),
`ApplyInv`, `LineageInv` (the EMA in memory, in the snapshot, in the marker and
on disk) and `RowsInv`.  One lemma per action shows that the action preserves
each conjunct; `StepInd` combines them and `Invariance` gives `[]IndInv`.  TLC
agrees with `IndInv` on the instance of `tick_safety`.

`ValidatorTickRefinement` proves `CommittedIsEvidenced`, `AbandonedForever`,
`ChainNeverRegresses` and `ImplementsLedger` of `Spec`.  They need, beside
`IndInv`, what the files say of the chain: `EvidenceInv` of `ValidatorTickInv`
relates receipts, markers and attempts to what was sent and to what the chain
shows, at every step between the call and the commit.  The refinement maps
`next_epoch_id` to `next`, the active epoch to `open`, the epochs with a call to
`sent` and the lineage of the rolling EMA to `folded`.  `BeginAllocates`
is the ledger's `Begin`, `BeginAbandons` and `ExitFailsEvaluation` are its `Abandon`,
`SetWeights` its `Send`; the three actions that write the rolling EMA are a `Fold`
or, when the epoch is already in its lineage, a stutter; and every other action,
`CommitState`, `RecoverState`, `Crash` and `Raise` included, leaves the four values
alone.

`MinerAdmissionProofs` proves `AdmTypeOK`, `RateBound`, `ReplayCovered`,
`ServedIsAuthentic` and `WholeBody` as invariants of `AdmSpec`, and `AcceptOnce`,
from `AdmissionAssumption` alone: any connections, addresses and hotkeys, any clock
offsets, any burst, rate, window and cap.  `RateBound` is not inductive, since it
does not say what a bucket holds: `HttpRateInv` and `AuthRateInv` add the tokens
in the bucket to the requests let through and compare the sum with the yield up
to `updated_at`, and the lemma `BucketStep` shows that one call of `allow` keeps
the account, whether it allows or refuses and whether or not the refill is
capped.  `ReplayCovered` and `AcceptOnce` rest on `LogInv` (entries leave the
cache only when they are older than the window; the SDK has seen every one),
`ServedIsAuthentic` on `ReqInv` (what a connection carries at each step),
`WholeBody` on `BodyInv`.  TLC agrees with the invariant `AdmInd` on a small
instance.  `CacheBounded` needs an account for every window and not only for
the whole past: `WindowInv` says that for every time `s` the entries made since
`s` and the tokens that are left come from the burst and the yield since `s`.

`PacedNeverRefused` is not true of every value of the constants: requests that the
network or `default_verify` holds up reach the bucket together, and a small burst
does not cover them.  `PacedIsNeverRefused` states what it takes.  `PaceFits(Grace)`:
the rate yields a token per pace, and the burst covers what one window, the clock
offset and `Grace` can hold, and one more.  `PromptVerify(Grace)`, the one hypothesis
about the external SDK: `default_verify` ends before the nonce is older than the
window and `Grace`.  The constants of `miner_cli.py` (a burst of 6, 0.2 tokens a
second, 30 s) satisfy it for a validator that leaves 10 s between requests, 5 s of
offset and 5 s of grace; the installed timer leaves 75 minutes between ticks.  TLC
agrees with `PacedInv` on an instance that satisfies both.  The invariant `PacedInv` keeps a token for every request that may
still ask for one (`TokensInv`), and bounds those by the spacing of the nonces in
every interval (`SpacingInv`).

The conjuncts of `AdmInd` that a restart does not disturb are gathered in
`AdmCore`, one lemma per action, and used again for `MinerService`.

`ChainClientProofs` proves `AlarmContained`, `PaidToOwner`, `RateLimitKept` and
`NeverEmpty` as invariants of `ClientSpec`, from `ClientAssumption` alone: any
miners and UIDs, any command lines, any number of blocks, changes and commands.
None is inductive, since each speaks of one step of a command and rests on what
earlier reads left behind.  `ClientInv` is the conjunction of `CallInv` (a timer
runs or a signal waits only between arming and disarming, and there the handler
is the one that catches it), `ReadInv` (step and read agree; a step that uses the
metagraph has one, also while the read's `finally` is still running), `SnapInv`
(the cached metagraph differs from the chain only in UIDs that have moved, and in
the last update, if it has one, only after a submission), `RateInv` (the blocks
recorded as passed have passed, which stays true as blocks are produced), `SinceInv`
(they are recorded whenever the metagraph has the last update), `VectorInv` (the
payload is the metagraph's, or was filled up) and `MinersInv` (a tick that discovered its miners can map each of them from its
first metagraph to the payload).  One lemma per handler shows that it keeps each
conjunct; `CallKeeps` does the statements of `bounded_call` once for all five
reads.  TLC agrees with `ClientInv` on the instance of `chain_client`.

`HealthyTickConnects` relates two commands and is proved from `HealthInv`: while
nothing of the chain has changed since `health` began, every metagraph a command
holds is the chain, each step of `health` has established its part of what a tick
needs (subnet, registration, an endpoint that discovery keeps), and so the tick
after it does not end for want of them.

`MinerServiceProofs` proves `PublishedIsExact`, `WholeBody`, `ServedIsAuthentic`,
`AcceptOncePerLife` and `DoctorTellsTruth` of `ServiceSpec`, from
`AdmissionAssumption` and the service's own: any number of read-backs, attempts,
starts and faults.  `ServiceInv` is `AdmCore` (a restart forgets buckets, cache and
connections together, so that it returns to a state `AdmCore` allows), `LifeInv`
(the SDK has seen what this process accepted), `PublishedInv` (from the
read-back on, until the UID is lost, the chain shows the exact endpoint) and
`ProbeInv` (what the port probe and the chain read of this attempt saw still
describes the miner and its record until the verdict, unless `lapsed` or `dropped`).

`EpochEvaluationProofs` proves the five invariants and the two action properties
of `evaluation_epochs`, from the assumptions of `Scoring`, `Holdout` and
`EpochEvaluation`: any miners and hashes, quota, budget, EMA factor, and
any set of values and rates.  `EvalInd` relates the rows to what each package left
behind: a hash with a row that passed the gates is in `seen` (hence one credit),
a row with a value comes from a `Verified` result (hence it is earned), the live
entries and the budget add up, and an archived hash has no row of a failed
verification.  `ReplayAgrees` needs that a miner without rows has an empty list of
values, `EmaMovesOnEvidence` that a sum of values is positive only if one of them
is: facts about `top_k_epoch_score`, which is a sum over a finite set.  They
are proved by taking a smallest set for which they fail, because induction over
the set itself is out of reach (below).

`WireExchangeProofs` proves `WireTypeOK`, `PayloadsAreAnswers`, `CountedOnce` and
`HonestAnswerCounts` of `WireSpec`: any validators, miners, queries, lists and
bounds.  The invariant says that each response of an honest miner is what
`SignResponse` makes for the query it names, and that an accepted outcome carries
a signature over the very query and endpoint it was accepted for.  Since a
signature is its key and message, an accepted one of an honest miner is one the
miner made, and its digest fixes the list.  `HonestAnswerCounts` adds that a list
cut by `Take` and `Fitting` is within the quota and the bound the validator
applies.

`SubmissionLogProofs` proves `LogTypeOK`, `LogReadable`, `AckedRowsSurvive` and
`RepairKeepsReading` of `LogSpec`, from `LogAssumption` alone: any processes, rows,
repairs and crashes.  A file is `WellFormed` when its cells are whole rows in the
order of their appends and the beginning of one more.  The lemmas say that such
a file is readable (`Sound`), what its last line is (`LastLineAt`), what is read
from it (`ReadingIs`), and that a prefix, the next cells of the row in progress
and the repair keep it well formed (`PrefixFits`, `ExtendFits`, `RepairFits`).
`LogInv` says this of both files a loss of power may leave behind the name, the
current and the durable one, with the newline of every acknowledged row in the
part that is on disk; `StepInv` says what the file looks like while a process is
between two system calls, for example that an append starts behind a newline.
TLC agrees with `LogInv` on the instance of `submission_log`.

Out of the prover's reach, and left to TLC: liveness under fairness
(`EpochSettles`, `CommandsEnd`, `ServiceRecovers`), and what a recursive
definition computes for every input, since the library's induction theorems take
an operator as a parameter.

## Only model-checked, and not modelled

Liveness is model-checked only.  The instance of `admission_auth` has a burst below
what `PaceFits` asks for, and `PacedNeverRefused` holds there because so few requests
are signed; it checks that copies of a request take no token, which is where a
change of `verify` would show.  Not modelled: the miner's `init`, `validate`, `register` and
TCP `health` commands, which keep no state of the running miner; `probe-wire`,
which only reads, and `once`, which runs the same epoch without the state
machine; the rehearsal drop-in of the units and the scripts; the cases the
holdout generates, and the refusals for a missing secret or quota; the
public-safe copy of the archive; the encoding of packages and endpoints; the
frontier band and the offline weighted score.  The task engine, Docker, DuckDB
and the Bittensor SDK are external and appear as what they may answer.

`health` builds the same preflight record as a tick but judges less of it: without
a validator permit, or under commit-reveal without its flag, it returns 0 and a
tick is skipped.  `HealthyTickConnects` therefore speaks of what health does
check.

`tick` appends its rows one by one; `AppendSubmissions` takes them together,
because no property distinguishes an interrupted set of rows from none, and
`SubmissionLog` has the single appends.  The panel cache is one panel
configuration's; a change of configuration empties it.  The cache file is
appended without fsync and never repaired, so a torn line of it stops later
calibrating epochs; nothing in the repository promises otherwise.  `once` repairs
and appends without the tick lock; the operations guide gives it a work
directory of its own, so `SubmissionLog` leaves it out.  A body that `receive`
never completes keeps its connection in `reading`; connection limits and
timeouts belong to the server under the SDK.

## Plan

Done: `EpochLedger`, `ValidatorTick`, `Scoring`, `Holdout`, `EpochEvaluation`,
`BoundedCall`, `ChainClient`, `SubmissionLog`, `MinerAdmission`, `MinerService`,
`WireExchange`, and the theorems above.  Next:

1. `MinerAdmission` and `WireExchange` composed: a validator's query through
   admission to its answer, with retries against the rate limits.
2. The scoring operators against reference definitions.
