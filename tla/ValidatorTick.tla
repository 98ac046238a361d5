---------------------------- MODULE ValidatorTick ----------------------------
(***************************************************************************)
(* The recurring validator: `dolores-validator tick` and                   *)
(* `dolores-validator recover-receipt`, run by several operating-system    *)
(* processes over one work directory and one chain.                        *)
(*                                                                         *)
(* A tick takes the exclusive file lock, allocates an epoch, walks the     *)
(* durable phases                                                          *)
(*   allocated -> querying -> evaluating -> weights_submitting -> committed *)
(* and writes the epoch's files one by one.  Every write is a step of its  *)
(* own: it is an atomic rename, so it happens or does not, and it may also *)
(* happen and then raise (the directory fsync after the rename).  A        *)
(* process may raise at any step, or be killed between any two steps.      *)
(*                                                                         *)
(* Data are abstracted to what the properties tell apart.  An EMA state is *)
(* its lineage, the set of the epochs folded into it; a file is its mode   *)
(* or status, "none" while it does not exist; a SHA-256 is the content it  *)
(* was computed from.                                                      *)
(***************************************************************************)
EXTENDS Naturals

CONSTANTS
  Proc,               \* processes that may run a command on the work directory
  NoProc,             \* "nobody", as the owner of the lock
  Timer,              \* the process the supervisor starts again and again
  MaxEpoch,           \* bound: epoch ids go from 1 to MaxEpoch
  MaxFaults,          \* bound: crashes and exceptions in a behaviour
  PublishModes,       \* the values of --chain the operators use
  CommitRevealEpochs, \* epochs sent with the commit-reveal override
  RepeatEpochs,       \* epochs that compute one and the same weight vector
  DamageableEpochs    \* epochs whose snapshot file the disk may damage

Epoch == 1..MaxEpoch
None == 0   \* the absent epoch id

ASSUME ConstantsAssumption ==
  /\ NoProc \notin Proc
  /\ Timer \in Proc
  /\ MaxEpoch \in Nat \ {0}
  /\ MaxFaults \in Nat
  /\ PublishModes \subseteq {"off", "dry-run", "live"}
  /\ CommitRevealEpochs \subseteq Epoch
  /\ RepeatEpochs \subseteq Epoch
  /\ DamageableEpochs \subseteq Epoch

VARIABLES
  \* state.json
  nextEpoch, active, phase, attemptNo, lastCompleted, lastFailed,
  lastGood,     \* the epoch of last_successful_weight_receipt
  \* tick.lock
  owner,
  \* files of each epoch
  rowRuns,      \* evaluations that appended rows of the epoch to submissions.jsonl
  chainAttempt, receipt, snapshot, panelFile, weightsFile, markerMode, markerHash,
  \* miner_state.json
  rolling,
  \* the chain
  calls,        \* how often set_weights was called for the epoch
  pending,      \* epochs whose extrinsic is broadcast and not included yet
  landed,       \* epochs whose extrinsic has been included (history)
  onChain,      \* the epoch whose weights the chain holds
  \* the processes
  pc, ep, result, base,
  \* history and bound
  committed,    \* epochs for which the phase committed has been written
  faults

state == <<nextEpoch, active, phase, attemptNo, lastCompleted, lastFailed, lastGood>>
marker == <<markerMode, markerHash>>
artifacts == <<snapshot, panelFile, weightsFile, marker>>
chain == <<calls, pending, landed, onChain>>
locals == <<ep, result, base>>
vars == <<state, owner, rowRuns, chainAttempt, receipt, artifacts, rolling,
          chain, pc, locals, committed, faults>>

Phase == {"none", "allocated", "querying", "evaluating", "weights_submitting",
          "committed"}
AttemptStatus == {"none", "started", "ambiguous", "completed"}
ChainMode == {"fallback", "skipped", "error", "dry_run", "submitted"}
Step == {"idle", "begin", "allocated", "query", "evaluate", "score", "submit",
         "apply", "set_weights", "read_back", "receipt", "complete", "ambiguous",
         "snapshot", "panel", "weights", "marker", "rolling", "commit",
         "commit_state", "exit", "recover", "recover_state", "release"}

TypeOK ==
  /\ nextEpoch \in 1..(MaxEpoch + 1)
  /\ active \in Epoch \cup {None}
  /\ phase \in Phase
  /\ attemptNo \in Nat
  /\ lastCompleted \in Epoch \cup {None}
  /\ lastFailed \in Epoch \cup {None}
  /\ lastGood \in Epoch \cup {None}
  /\ owner \in Proc \cup {NoProc}
  /\ rowRuns \in [Epoch -> Nat]
  /\ chainAttempt \in [Epoch -> AttemptStatus]
  /\ receipt \in [Epoch -> ChainMode \cup {"none"}]
  /\ snapshot \in [Epoch -> SUBSET (Epoch \cup {None})]
  /\ panelFile \in [Epoch -> BOOLEAN]
  /\ weightsFile \in [Epoch -> ChainMode \cup {"none"}]
  /\ markerMode \in [Epoch -> ChainMode \cup {"none"}]
  /\ markerHash \in [Epoch -> SUBSET (Epoch \cup {None})]
  /\ rolling \in SUBSET (Epoch \cup {None})
  /\ calls \in [Epoch -> Nat]
  /\ pending \in SUBSET Epoch
  /\ landed \in SUBSET Epoch
  /\ onChain \in Epoch \cup {None}
  /\ pc \in [Proc -> Step]
  /\ ep \in [Proc -> Epoch \cup {None}]
  /\ result \in [Proc -> ChainMode \cup {"none"}]
  /\ base \in [Proc -> SUBSET (Epoch \cup {None})]
  /\ committed \in SUBSET Epoch
  /\ faults \in 0..MaxFaults

Init ==
  /\ nextEpoch = 1 /\ active = None /\ phase = "none" /\ attemptNo = 0
  /\ lastCompleted = None /\ lastFailed = None /\ lastGood = None
  /\ owner = NoProc
  /\ rowRuns = [e \in Epoch |-> 0]
  /\ chainAttempt = [e \in Epoch |-> "none"]
  /\ receipt = [e \in Epoch |-> "none"]
  /\ snapshot = [e \in Epoch |-> {}]
  /\ panelFile = [e \in Epoch |-> FALSE]
  /\ weightsFile = [e \in Epoch |-> "none"]
  /\ markerMode = [e \in Epoch |-> "none"]
  /\ markerHash = [e \in Epoch |-> {}]
  /\ rolling = {}
  /\ calls = [e \in Epoch |-> 0]
  /\ pending = {} /\ landed = {} /\ onChain = None
  /\ pc = [p \in Proc |-> "idle"]
  /\ ep = [p \in Proc |-> None]
  /\ result = [p \in Proc |-> "none"]
  /\ base = [p \in Proc |-> {}]
  /\ committed = {}
  /\ faults = 0

-----------------------------------------------------------------------------
(***************************************************************************)
(* Control flow.  An exception goes to the handler that encloses the step: *)
(* once set_weights may have been called, the `except BaseException` that  *)
(* marks the attempt ambiguous; inside an entered tick, its __exit__; in   *)
(* __enter__ and in recover_receipt, the release of the lock.              *)
(***************************************************************************)
Handler(step) ==
  CASE step \in {"set_weights", "read_back", "receipt", "complete"} -> "ambiguous"
    [] step \in {"begin", "recover", "recover_state"} -> "release"
    [] OTHER -> "exit"

Goto(p, step) == pc' = [pc EXCEPT ![p] = step]

Fault == faults < MaxFaults /\ faults' = faults + 1

\* A durable write was renamed into place; control goes on, or the directory
\* fsync that follows the rename raises.
Written(p, step) ==
  \/ Goto(p, step) /\ UNCHANGED faults
  \/ Goto(p, Handler(pc[p])) /\ Fault

\* A step that writes nothing.
Proceed(p, step) == Goto(p, step) /\ UNCHANGED faults

At(p, step) == pc[p] = step

-----------------------------------------------------------------------------
(***************************************************************************)
(* Reading the epoch's files.                                              *)
(***************************************************************************)

\* The attempt file says that the outcome of set_weights is unknown.
AmbiguousAttempt(e) == chainAttempt[e] \in {"started", "ambiguous"}

\* A receipt that proves that nothing was sent to the chain.
DefiniteReceipt(e) == receipt[e] \in {"dry_run", "skipped", "error"}

\* The completion marker and every artifact it hashes agree: the artifacts
\* the mode requires exist with the hashed content, and the chain artifacts
\* of other modes do not exist.
VerifyWithoutHash(e) ==  \* mutant: the snapshot's hash is not compared
  /\ markerMode[e] # "none"
  /\ weightsFile[e] = markerMode[e]
  /\ panelFile[e]

VerifyEpochCompletion(e) ==
  /\ markerMode[e] # "none"
  /\ snapshot[e] = markerHash[e]
  /\ weightsFile[e] = markerMode[e]
  /\ panelFile[e]
  /\ receipt[e] = IF markerMode[e] = "fallback" THEN "none" ELSE markerMode[e]
  /\ chainAttempt[e] = IF markerMode[e] = "submitted" THEN "completed" ELSE "none"

CanCommit(e) == ~AmbiguousAttempt(e) /\ VerifyEpochCompletion(e)

-----------------------------------------------------------------------------
(***************************************************************************)
(* Starting a tick: the non-blocking lock and _begin_locked.               *)
(***************************************************************************)

\* A command whose lock is taken exits with LockUnavailable: no step.
AcquireLock(p, step) ==
  /\ At(p, "idle")
  /\ owner = NoProc
  /\ owner' = p
  /\ Proceed(p, step)
  /\ UNCHANGED <<state, rowRuns, chainAttempt, receipt, artifacts, rolling,
                 chain, locals, committed>>

StartTick(p) == AcquireLock(p, "begin")

\* AmbiguousWeightSubmissionError or ReceiptRecoveryRequired.
BeginRefusesOnMarkerOnly ==  \* mutant: the attempt file is not consulted
  phase = "weights_submitting" /\ markerMode[active] # "none"

BeginRefuses ==
  /\ phase = "weights_submitting"
  /\ \/ AmbiguousAttempt(active)
     \/ markerMode[active] # "none"
     \/ ~DefiniteReceipt(active)

BeginSpins(p) ==  \* mutant: the refused tick tries again without releasing the lock
  /\ At(p, "begin")
  /\ BeginRefuses
  /\ UNCHANGED vars

BeginRefused(p) ==
  /\ At(p, "begin")
  /\ BeginRefuses
  /\ Proceed(p, "release")
  /\ UNCHANGED <<state, owner, rowRuns, chainAttempt, receipt, artifacts, rolling,
                 chain, locals, committed>>

\* An interruption between a definite receipt and the marker: the epoch is
\* written as failed, then the same call goes on to allocate.
BeginAbandons(p) ==
  /\ At(p, "begin")
  /\ phase = "weights_submitting"
  /\ ~BeginRefuses
  /\ active' = None /\ phase' = "none" /\ attemptNo' = 0
  /\ lastFailed' = active
  /\ Written(p, "begin")
  /\ UNCHANGED <<nextEpoch, lastCompleted, lastGood, owner, rowRuns, chainAttempt,
                 receipt, artifacts, rolling, chain, locals, committed>>

\* Phases in which nothing durable was evaluated yet.
RetryEvaluating == {"allocated", "querying", "evaluating"}  \* mutant
RetrySubmitting == {"allocated", "querying", "weights_submitting"}  \* mutant

RetryPhases == {"allocated", "querying"}

\* The same epoch again.
BeginRetries(p) ==
  /\ At(p, "begin")
  /\ phase \in RetryPhases
  /\ phase' = "allocated"
  /\ attemptNo' = attemptNo + 1
  /\ ep' = [ep EXCEPT ![p] = active]
  /\ Written(p, "allocated")
  /\ UNCHANGED <<nextEpoch, active, lastCompleted, lastFailed, lastGood, owner,
                 rowRuns, chainAttempt, receipt, artifacts, rolling, chain,
                 result, base, committed>>

\* A fresh epoch.  An interrupted evaluation fails in the same write.
BeginAllocates(p) ==
  /\ At(p, "begin")
  /\ phase \in {"none", "committed", "evaluating"}
  /\ nextEpoch \in Epoch
  /\ nextEpoch' = nextEpoch + 1
  /\ active' = nextEpoch
  /\ phase' = "allocated"
  /\ attemptNo' = 1
  /\ lastFailed' = IF phase = "evaluating" THEN active ELSE lastFailed
  /\ ep' = [ep EXCEPT ![p] = nextEpoch]
  /\ Written(p, "allocated")
  /\ UNCHANGED <<lastCompleted, lastGood, owner, rowRuns, chainAttempt, receipt,
                 artifacts, rolling, chain, result, base, committed>>

\* Bound: a tick that would allocate an epoch beyond MaxEpoch gives up.
EpochBoundReached(p) ==
  /\ At(p, "begin")
  /\ phase \in {"none", "committed", "evaluating"}
  /\ nextEpoch \notin Epoch
  /\ Proceed(p, "release")
  /\ UNCHANGED <<state, owner, rowRuns, chainAttempt, receipt, artifacts, rolling,
                 chain, locals, committed>>

-----------------------------------------------------------------------------
(***************************************************************************)
(* The phases up to the chain.                                             *)
(***************************************************************************)

\* One phase transition of the active epoch, written to state.json.
Transition(p, from, to, step) ==
  /\ active = ep[p]
  /\ phase = from
  /\ phase' = to
  /\ Written(p, step)
  /\ UNCHANGED <<nextEpoch, active, attemptNo, lastCompleted, lastFailed, lastGood,
                 owner, rowRuns, chainAttempt, receipt, artifacts, rolling, chain,
                 locals, committed>>

MarkQuerying(p) ==
  /\ At(p, "allocated")
  /\ Transition(p, "allocated", "querying", "query")

\* The miners have answered and run_epoch starts.  A discovery or a query
\* that fails is Raise at "query".
BeginEvaluation(p) ==
  /\ At(p, "query")
  /\ Transition(p, "querying", "evaluating", "evaluate")

\* The verdicts of this evaluation are appended to submissions.jsonl.
AppendSubmissions(p) ==
  /\ At(p, "evaluate")
  /\ rowRuns' = [rowRuns EXCEPT ![ep[p]] = @ + 1]
  /\ Written(p, "score")
  /\ UNCHANGED <<state, owner, chainAttempt, receipt, artifacts, rolling, chain,
                 locals, committed>>

\* The previous EMA is read from the rolling miner_state.json.
ScoreEpoch(p) ==
  /\ At(p, "score")
  /\ base' = [base EXCEPT ![p] = rolling]
  /\ Proceed(p, "submit")
  /\ UNCHANGED <<state, owner, rowRuns, chainAttempt, receipt, artifacts, rolling,
                 chain, ep, result, committed>>

BeginSubmitting(p) ==
  /\ At(p, "submit")
  /\ Transition(p, "evaluating", "weights_submitting", "apply")

-----------------------------------------------------------------------------
(***************************************************************************)
(* apply_weights.  The --chain argument is read nowhere else, so it is     *)
(* chosen here.                                                            *)
(***************************************************************************)

Finished(p, mode) == result' = [result EXCEPT ![p] = mode]

\* NullChain: no network, no receipt.
ApplyOffline(p) ==
  /\ At(p, "apply")
  /\ "off" \in PublishModes
  /\ Finished(p, "fallback")
  /\ Proceed(p, "snapshot")
  /\ UNCHANGED <<state, owner, rowRuns, chainAttempt, receipt, artifacts, rolling,
                 chain, ep, base, committed>>

\* preflight: the subnet or the validator's own registration is missing, or
\* the chain cannot be read at all.
NotConnected == {"netuid_unset", "rpc_unreachable", "netuid_absent", "validator_unregistered"}

\* _readiness_skip_reason: the chain is there and would not take weights now.
NotReady == {"no_permit", "rate_limited", "commit_reveal_probe_failed", "commit_reveal_enabled"}

\* The mode of the receipt for a chain that is not ready.
ReadinessMode(reason) == IF reason \in NotConnected THEN "error" ELSE "skipped"

\* The receipt when no mapped miner earns, and when a live gate is missing.
NothingToSubmit == "skipped"
GateMissing == "error"

\* Every return of SubtensorChain.apply_weights before the signing seam:
\* nothing to submit, the chain not ready, a dry run, a missing live gate.
\* process_and_convert, which _payload calls outside every try, raises: Raise
\* at "apply".
ReceiptModes ==
  LET refusals == {NothingToSubmit} \cup {ReadinessMode(r) : r \in NotConnected \cup NotReady}
  IN (IF PublishModes \cap {"dry-run", "live"} # {} THEN refusals ELSE {})
       \cup (IF "dry-run" \in PublishModes THEN {"dry_run"} ELSE {})
       \cup (IF "live" \in PublishModes THEN {GateMissing} ELSE {})

ApplyWithoutSubmitting(p) ==
  \E mode \in ReceiptModes :
    /\ At(p, "apply")
    /\ receipt' = [receipt EXCEPT ![ep[p]] = mode]
    /\ Finished(p, mode)
    /\ Written(p, "snapshot")
    /\ UNCHANGED <<state, owner, rowRuns, chainAttempt, artifacts, rolling, chain,
                   ep, base, committed>>

WriteAttempt(p, status) == chainAttempt' = [chainAttempt EXCEPT ![ep[p]] = status]

\* All four live gates hold: the attempt is made durable before signing.
StartAttempt(p) ==
  /\ At(p, "apply")
  /\ "live" \in PublishModes
  /\ WriteAttempt(p, "started")
  /\ Written(p, "set_weights")
  /\ UNCHANGED <<state, owner, rowRuns, receipt, artifacts, rolling, chain, locals,
                 committed>>

\* The SDK call.  The extrinsic is included now, later or never, and the
\* response says success or failure independently of that.
SetWeights(p) ==
  /\ At(p, "set_weights")
  /\ calls' = [calls EXCEPT ![ep[p]] = @ + 1]
  /\ \/ /\ onChain' = ep[p]
        /\ landed' = landed \cup {ep[p]}
        /\ UNCHANGED pending
     \/ /\ pending' \in {pending, pending \cup {ep[p]}}
        /\ UNCHANGED <<onChain, landed>>
  /\ \E response \in {"read_back", "ambiguous"} : Proceed(p, response)
  /\ UNCHANGED <<state, owner, rowRuns, chainAttempt, receipt, artifacts, rolling,
                 locals, committed>>

\* The chain includes a broadcast extrinsic on its own time.
IncludeLate(e) ==
  /\ e \in pending
  /\ pending' = pending \ {e}
  /\ landed' = landed \cup {e}
  /\ onChain' = e
  /\ UNCHANGED <<state, owner, rowRuns, chainAttempt, receipt, artifacts, rolling,
                 calls, pc, locals, committed, faults>>

\* The weights are read back and compared as vectors, except under
\* commit-reveal, where they are not readable yet.  An earlier epoch with the
\* same vector satisfies the comparison too.
SameWeights(e, f) == e = f \/ {e, f} \subseteq RepeatEpochs

ReadBackAlwaysMatches(e) == TRUE  \* mutant: the response is trusted

ReadBackMatches(e) == e \in CommitRevealEpochs \/ SameWeights(onChain, e)

ReadBack(p) ==
  /\ At(p, "read_back")
  /\ Proceed(p, IF ReadBackMatches(ep[p]) THEN "receipt" ELSE "ambiguous")
  /\ UNCHANGED <<state, owner, rowRuns, chainAttempt, receipt, artifacts, rolling,
                 chain, locals, committed>>

WriteSubmittedReceipt(p) ==
  /\ At(p, "receipt")
  /\ receipt' = [receipt EXCEPT ![ep[p]] = "submitted"]
  /\ Written(p, "complete")
  /\ UNCHANGED <<state, owner, rowRuns, chainAttempt, artifacts, rolling, chain,
                 locals, committed>>

CompleteAttempt(p) ==
  /\ At(p, "complete")
  /\ WriteAttempt(p, "completed")
  /\ Finished(p, "submitted")
  /\ Written(p, "snapshot")
  /\ UNCHANGED <<state, owner, rowRuns, receipt, artifacts, rolling, chain, ep, base,
                 committed>>

\* The except clause: the attempt becomes ambiguous, or keeps its status when
\* that write fails too (Raise at "ambiguous"); the exception goes on.
MarkAmbiguous(p) ==
  /\ At(p, "ambiguous")
  /\ WriteAttempt(p, "ambiguous")
  /\ Proceed(p, "exit")
  /\ UNCHANGED <<state, owner, rowRuns, receipt, artifacts, rolling, chain, locals,
                 committed>>

-----------------------------------------------------------------------------
(***************************************************************************)
(* The epoch's artifacts, in the order run_epoch makes them durable.       *)
(***************************************************************************)

SaveRollingEarly(p) ==  \* mutant: the rolling EMA is published before the marker
  /\ At(p, "snapshot")
  /\ snapshot' = [snapshot EXCEPT ![ep[p]] = base[p] \cup {ep[p]}]
  /\ rolling' = base[p] \cup {ep[p]}
  /\ Written(p, "panel")
  /\ UNCHANGED <<state, owner, rowRuns, chainAttempt, receipt, panelFile, weightsFile,
                 marker, chain, locals, committed>>

SaveMinerState(p) ==
  /\ At(p, "snapshot")
  /\ snapshot' = [snapshot EXCEPT ![ep[p]] = base[p] \cup {ep[p]}]
  /\ Written(p, "panel")
  /\ UNCHANGED <<state, owner, rowRuns, chainAttempt, receipt, panelFile, weightsFile,
                 marker, rolling, chain, locals, committed>>

PersistPanelSidecar(p) ==
  /\ At(p, "panel")
  /\ panelFile' = [panelFile EXCEPT ![ep[p]] = TRUE]
  /\ Written(p, "weights")
  /\ UNCHANGED <<state, owner, rowRuns, chainAttempt, receipt, snapshot, weightsFile,
                 marker, rolling, chain, locals, committed>>

WriteWeightsArtifact(p) ==
  /\ At(p, "weights")
  /\ weightsFile' = [weightsFile EXCEPT ![ep[p]] = result[p]]
  /\ Written(p, "marker")
  /\ UNCHANGED <<state, owner, rowRuns, chainAttempt, receipt, snapshot, panelFile,
                 marker, rolling, chain, locals, committed>>

WriteCompletionMarker(p) ==
  /\ At(p, "marker")
  /\ markerMode' = [markerMode EXCEPT ![ep[p]] = result[p]]
  /\ markerHash' = [markerHash EXCEPT ![ep[p]] = snapshot[ep[p]]]
  /\ Written(p, "rolling")
  /\ UNCHANGED <<state, owner, rowRuns, chainAttempt, receipt, snapshot, panelFile,
                 weightsFile, rolling, chain, locals, committed>>

\* The marker is read back and verified, then the rolling EMA is published
\* from memory.
PublishRolling(p) ==
  /\ At(p, "rolling")
  /\ VerifyEpochCompletion(ep[p])
  /\ rolling' = base[p] \cup {ep[p]}
  /\ Written(p, "commit")
  /\ UNCHANGED <<state, owner, rowRuns, chainAttempt, receipt, artifacts, chain, locals,
                 committed>>

\* _commit_from_completion, first half: verify again and write the rolling
\* EMA from the snapshot the marker names.
CommitRolling(p) ==
  /\ At(p, "commit")
  /\ active = ep[p]
  /\ phase = "weights_submitting"
  /\ CanCommit(ep[p])
  /\ rolling' = snapshot[ep[p]]
  /\ Written(p, "commit_state")
  /\ UNCHANGED <<state, owner, rowRuns, chainAttempt, receipt, artifacts, chain, locals,
                 committed>>

\* Second half: the phase committed is written to state.json.
WriteCommittedPhaseOnly(p) ==  \* mutant: last_completed_epoch_id is forgotten
  /\ phase' = "committed"
  /\ committed' = committed \cup {ep[p]}
  /\ UNCHANGED <<nextEpoch, active, attemptNo, lastCompleted, lastFailed, lastGood,
                 owner, rowRuns, chainAttempt, receipt, artifacts, rolling, chain,
                 locals>>

WriteCommitted(p) ==
  /\ phase' = "committed"
  /\ lastCompleted' = ep[p]
  /\ lastGood' = IF markerMode[ep[p]] \in {"dry_run", "submitted"}
                   THEN ep[p] ELSE lastGood
  /\ committed' = committed \cup {ep[p]}
  /\ UNCHANGED <<nextEpoch, active, attemptNo, lastFailed, owner, rowRuns,
                 chainAttempt, receipt, artifacts, rolling, chain, locals>>

CommitState(p) ==
  /\ At(p, "commit_state")
  /\ WriteCommitted(p)
  /\ Written(p, "exit")

\* EpochCompletionValidationError: the marker does not verify.
VerificationFails(p) ==
  /\ \/ At(p, "rolling") /\ ~VerifyEpochCompletion(ep[p])
     \/ At(p, "commit") /\ ~CanCommit(ep[p])
  /\ Proceed(p, "exit")
  /\ UNCHANGED <<state, owner, rowRuns, chainAttempt, receipt, artifacts, rolling,
                 chain, locals, committed>>

-----------------------------------------------------------------------------
(***************************************************************************)
(* recover-receipt: commits only a marker that verifies.                   *)
(***************************************************************************)

StartRecovery(p) == AcquireLock(p, "recover")

Recoverable == phase = "weights_submitting" /\ CanCommit(active)

RecoverRefused(p) ==
  /\ At(p, "recover")
  /\ ~Recoverable
  /\ Proceed(p, "release")
  /\ UNCHANGED <<state, owner, rowRuns, chainAttempt, receipt, artifacts, rolling,
                 chain, locals, committed>>

RecoverRolling(p) ==
  /\ At(p, "recover")
  /\ Recoverable
  /\ ep' = [ep EXCEPT ![p] = active]
  /\ rolling' = snapshot[active]
  /\ Written(p, "recover_state")
  /\ UNCHANGED <<state, owner, rowRuns, chainAttempt, receipt, artifacts, chain,
                 result, base, committed>>

RecoverState(p) ==
  /\ At(p, "recover_state")
  /\ WriteCommitted(p)
  /\ Written(p, "release")

-----------------------------------------------------------------------------
(***************************************************************************)
(* Leaving: exceptions, __exit__, the release of the lock, and crashes.    *)
(***************************************************************************)

\* The step raises before it has any effect.
Raise(p) ==
  /\ pc[p] \notin {"idle", "exit", "release"}
  /\ Goto(p, Handler(pc[p]))
  /\ Fault
  /\ UNCHANGED <<state, owner, rowRuns, chainAttempt, receipt, artifacts, rolling,
                 chain, locals, committed>>

\* The process is gone from the lock and has forgotten its variables.
Gone(p) ==
  /\ owner' = NoProc
  /\ Goto(p, "idle")
  /\ ep' = [ep EXCEPT ![p] = None]
  /\ result' = [result EXCEPT ![p] = "none"]
  /\ base' = [base EXCEPT ![p] = {}]

\* __exit__ of an entered tick: an evaluation without a result fails.  The
\* lock is released even if that write raises.
AnyPhaseOpen(p) == active = ep[p]  \* mutant: __exit__ fails every open epoch

EvaluationOpen(p) == active = ep[p] /\ phase = "evaluating"

ExitReturnsEpochId(p) ==  \* mutant: the failed epoch's id is handed out again
  /\ At(p, "exit")
  /\ EvaluationOpen(p)
  /\ nextEpoch' = ep[p]
  /\ active' = None /\ phase' = "none" /\ attemptNo' = 0
  /\ lastFailed' = ep[p]
  /\ Gone(p)
  /\ UNCHANGED <<lastCompleted, lastGood, rowRuns, chainAttempt, receipt,
                 artifacts, rolling, chain, committed, faults>>

ExitFailsEvaluation(p) ==
  /\ At(p, "exit")
  /\ EvaluationOpen(p)
  /\ active' = None /\ phase' = "none" /\ attemptNo' = 0
  /\ lastFailed' = ep[p]
  /\ Gone(p)
  /\ UNCHANGED <<nextEpoch, lastCompleted, lastGood, rowRuns, chainAttempt, receipt,
                 artifacts, rolling, chain, committed, faults>>

ExitTick(p) ==
  /\ At(p, "exit")
  /\ IF EvaluationOpen(p) THEN Fault ELSE UNCHANGED faults
  /\ Gone(p)
  /\ UNCHANGED <<state, rowRuns, chainAttempt, receipt, artifacts, rolling, chain,
                 committed>>

ReleaseLock(p) ==
  /\ At(p, "release")
  /\ Gone(p)
  /\ UNCHANGED <<state, rowRuns, chainAttempt, receipt, artifacts, rolling, chain,
                 committed, faults>>

\* SIGKILL, an out-of-memory kill, a reboot: the kernel drops the flock.
Crash(p) ==
  /\ pc[p] # "idle"
  /\ Gone(p)
  /\ Fault
  /\ UNCHANGED <<state, rowRuns, chainAttempt, receipt, artifacts, rolling, chain,
                 committed>>

\* The disk damages the snapshot of an epoch: 0 stands for bytes no tick wrote.
\* The marker hashes the file, so only later damage can be told from it.
DamageSnapshot(e) ==
  /\ e \in DamageableEpochs
  /\ markerMode[e] # "none"
  /\ None \notin snapshot[e]
  /\ snapshot' = [snapshot EXCEPT ![e] = @ \cup {None}]
  /\ UNCHANGED <<state, owner, rowRuns, chainAttempt, receipt, panelFile, weightsFile,
                 marker, rolling, chain, pc, locals, committed, faults>>

-----------------------------------------------------------------------------
TickStep(p) ==
  \/ BeginRefused(p) \/ BeginAbandons(p) \/ BeginRetries(p) \/ BeginAllocates(p)
  \/ EpochBoundReached(p)
  \/ MarkQuerying(p) \/ BeginEvaluation(p) \/ AppendSubmissions(p) \/ ScoreEpoch(p)
  \/ BeginSubmitting(p)
  \/ ApplyOffline(p) \/ ApplyWithoutSubmitting(p) \/ StartAttempt(p) \/ SetWeights(p)
  \/ ReadBack(p) \/ WriteSubmittedReceipt(p) \/ CompleteAttempt(p) \/ MarkAmbiguous(p)
  \/ SaveMinerState(p) \/ PersistPanelSidecar(p) \/ WriteWeightsArtifact(p)
  \/ WriteCompletionMarker(p) \/ PublishRolling(p) \/ CommitRolling(p) \/ CommitState(p)
  \/ VerificationFails(p)
  \/ RecoverRefused(p) \/ RecoverRolling(p) \/ RecoverState(p)
  \/ ExitFailsEvaluation(p) \/ ExitTick(p) \/ ReleaseLock(p)

ProcessNext(p) ==
  StartTick(p) \/ StartRecovery(p) \/ TickStep(p) \/ Raise(p) \/ Crash(p)

EnvironmentNext(e) == IncludeLate(e) \/ DamageSnapshot(e)

Next == (\E p \in Proc : ProcessNext(p)) \/ (\E e \in Epoch : EnvironmentNext(e))

Spec == Init /\ [][Next]_vars

-----------------------------------------------------------------------------
(***************************************************************************)
(* Correctness.                                                            *)
(***************************************************************************)

\* ValidatorRuntimeState.validate() accepts what state.json holds in every
\* reachable state, so no write is ever refused by the validation in _write
\* and no later command finds a state it must call corrupt.
StateValid ==
  /\ nextEpoch >= 1
  /\ (active = None) <=> (phase = "none")
  /\ active # None => active < nextEpoch /\ attemptNo >= 1
  /\ phase = "committed" => lastCompleted = active

\* An epoch whose weights were handed to set_weights, or whose attempt file
\* says started or ambiguous, is either committed or still the active epoch
\* in weights_submitting: whatever crashes, raises or is included late, no
\* tick fails it, retries it or allocates a later epoch over it.
AmbiguityFailsClosed ==
  \A e \in Epoch :
    (calls[e] > 0 \/ AmbiguousAttempt(e)) =>
      \/ e \in committed
      \/ active = e /\ phase = "weights_submitting" /\ nextEpoch = e + 1

\* set_weights is called at most once for an epoch over all ticks, restarts
\* and recoveries.
AtMostOneSubmission == \A e \in Epoch : calls[e] <= 1

\* The rolling EMA that the next evaluation reads contains exactly the
\* committed epochs: an abandoned epoch leaves no trace in it, a committed
\* one is never missing.  Only while the active epoch is in
\* weights_submitting may the rolling file be ahead, and then by that epoch.
EmaLineage ==
  \/ rolling = committed
  \/ phase = "weights_submitting" /\ rolling = committed \cup {active}

\* The rows of an epoch in submissions.jsonl, which replay reads back, come
\* from a single evaluation.
SingleEvaluation == \A e \in Epoch : rowRuns[e] <= 1

\* A committed epoch has its marker and its weights artifact; one committed
\* as submitted was signed under a completed attempt and, unless
\* commit-reveal hides it, its weight vector really reached the chain.  The last
\* successful receipt belongs to an epoch committed as dry_run or submitted.
CommittedIsEvidenced ==
  /\ \A e \in committed :
       /\ markerMode[e] # "none"
       /\ weightsFile[e] = markerMode[e]
       /\ markerMode[e] = "submitted" =>
            /\ chainAttempt[e] = "completed" /\ receipt[e] = "submitted"
            /\ e \in CommitRevealEpochs \/ \E f \in landed : SameWeights(e, f)
  /\ lastGood # None =>
       lastGood \in committed /\ markerMode[lastGood] \in {"dry_run", "submitted"}

\* next_epoch_id never goes back, and an epoch that was left behind
\* uncommitted stays so: its id is never handed out again, evaluated again or
\* committed later.
Abandoned(e) == e < nextEpoch /\ e # active /\ e \notin committed
AbandonedForever ==
  [][/\ nextEpoch' >= nextEpoch
     /\ \A e \in Epoch : Abandoned(e) => Abandoned(e)']_vars

\* The weights on the chain never go back to those of an earlier epoch, even
\* when a broadcast extrinsic is included late.  Two epochs are excused, which
\* the read-back cannot vouch for: one sent under commit-reveal, and one whose
\* vector an earlier epoch had already put on the chain.
ChainNeverRegresses ==
  [][onChain' < onChain =>
       \/ onChain' \in CommitRevealEpochs
       \/ \E f \in Epoch : f < onChain' /\ SameWeights(f, onChain')]_vars

\* The tick implements the abstract ledger of epochs.
Ledger == INSTANCE EpochLedger WITH
  next <- nextEpoch,
  open <- active,
  sent <- {e \in Epoch : calls[e] > 0},
  folded <- rolling
ImplementsLedger == Ledger!LedgerSpec

\* An epoch that only an operator can unblock: the lock is free and the next
\* tick refuses to begin.
Parked(e) == owner = NoProc /\ active = e /\ BeginRefuses

\* The supervisor starts ticks again and again (Restart=on-failure, then the
\* timer), also when an operator's command had the lock the last time, and a
\* running process keeps running until it is killed.
Fairness ==
  /\ \A p \in Proc : WF_vars(TickStep(p))
  /\ SF_vars(StartTick(Timer))

FairSpec == Spec /\ Fairness

\* Once faults stop, every epoch that was allocated is committed, left behind,
\* or parked for the operator: no tick hangs with the lock, and no epoch is
\* retried for ever.  MaxEpoch itself is excluded: the tick that would fail
\* it lies beyond the bound.
Settled(e) == e \in committed \/ Abandoned(e) \/ Parked(e)
EpochSettles == \A e \in 1..(MaxEpoch - 1) : active = e ~> Settled(e)

=============================================================================
