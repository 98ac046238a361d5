-------------------------- MODULE ValidatorTickInv --------------------------
(***************************************************************************)
(* The inductive invariant behind the safety properties of ValidatorTick.  *)
(***************************************************************************)
EXTENDS ValidatorTick

\* The phase state.json shows while the owner of the lock is at a step.
PhaseAt(step) ==
  CASE step = "allocated" -> "allocated"
    [] step = "query" -> "querying"
    [] step \in {"evaluate", "score", "submit"} -> "evaluating"
    [] OTHER -> "weights_submitting"

SendingSteps == {"set_weights", "read_back", "receipt", "complete", "ambiguous"}
WritingSteps == {"snapshot", "panel", "weights", "marker"}
EpochSteps == SendingSteps \cup WritingSteps \cup
  {"allocated", "query", "evaluate", "score", "submit", "apply", "rolling", "commit",
   "commit_state", "recover_state"}

\* Only the owner of the lock is running.
LockInv == \A p \in Proc : pc[p] # "idle" => owner = p

\* The active epoch is the newest one, and it is committed exactly in phase
\* committed.
StateInv ==
  /\ (active = None) <=> (phase = "none")
  /\ active # None => active + 1 = nextEpoch /\ attemptNo >= 1
  /\ phase = "committed" => lastCompleted = active /\ active \in committed
  /\ active # None /\ phase # "committed" => active \notin committed
  /\ \A e \in committed : e < nextEpoch

\* A running tick works on the active epoch, in the phase of its step.
StepInv ==
  \A p \in Proc : pc[p] \in EpochSteps =>
    ep[p] = active /\ active # None /\ phase = PhaseAt(pc[p])

\* Nothing of an epoch reaches the chain or its chain files before
\* weights_submitting.
Untouched(e) ==
  calls[e] = 0 /\ chainAttempt[e] = "none" /\ receipt[e] = "none"
    /\ markerMode[e] = "none"
UntouchedInv ==
  \A e \in Epoch :
    e >= nextEpoch \/ (e = active /\ phase \in {"allocated", "querying", "evaluating"})
      => Untouched(e)

\* A call leaves an attempt file, an attempt excludes a definite receipt, and
\* an epoch with an attempt file is committed or still being submitted.
ChainInv ==
  \A e \in Epoch :
    /\ calls[e] <= 1
    /\ calls[e] > 0 => chainAttempt[e] # "none"
    /\ chainAttempt[e] # "none" =>
         /\ ~DefiniteReceipt(e)
         /\ e \in committed \/ (active = e /\ phase = "weights_submitting")

\* What the steps of apply_weights find in the files of their epoch.
ApplyInv ==
  \A p \in Proc :
    /\ pc[p] = "apply" => Untouched(ep[p])
    /\ pc[p] = "set_weights" => calls[ep[p]] = 0
    /\ pc[p] \in SendingSteps => chainAttempt[ep[p]] # "none" /\ markerMode[ep[p]] = "none"
    /\ pc[p] \in WritingSteps => markerMode[ep[p]] = "none"

\* The lineage of the EMA in memory, in the snapshot and in the marker.
LineageInv ==
  /\ phase # "weights_submitting" => rolling = committed
  /\ phase = "weights_submitting" =>
       IF markerMode[active] = "none"
         THEN rolling = committed
         ELSE /\ rolling \in {committed, committed \cup {active}}
              /\ markerHash[active] = committed \cup {active}
  /\ \A p \in Proc :
       /\ pc[p] \in SendingSteps \cup WritingSteps \cup {"submit", "apply", "rolling"} =>
            base[p] = committed
       /\ pc[p] \in {"panel", "weights", "marker"} =>
            snapshot[ep[p]] = committed \cup {ep[p]}
       /\ pc[p] \in {"commit", "commit_state", "recover_state"} =>
            markerMode[ep[p]] # "none"
       /\ pc[p] \in {"commit_state", "recover_state"} =>
            rolling = committed \cup {ep[p]}

\* Rows are appended once: none before the evaluation, none again after it.
RowsInv ==
  /\ \A e \in Epoch :
       /\ rowRuns[e] <= 1
       /\ e >= nextEpoch \/ (e = active /\ phase \in {"allocated", "querying"})
            => rowRuns[e] = 0
  /\ \A p \in Proc : pc[p] = "evaluate" => rowRuns[ep[p]] = 0

IndInv ==
  /\ TypeOK
  /\ LockInv
  /\ StateInv
  /\ StepInv
  /\ UntouchedInv
  /\ ChainInv
  /\ ApplyInv
  /\ LineageInv
  /\ RowsInv

-----------------------------------------------------------------------------
(***************************************************************************)
(* What files and chain have in common with each other, beyond IndInv.     *)
(***************************************************************************)

\* The vector of the epoch was on the chain before the next epoch was begun,
\* or commit-reveal hides it.
ReadBackVouches(e) ==
  e \in CommitRevealEpochs \/ \E f \in landed : f <= e /\ SameWeights(e, f)

Signed(e) == chainAttempt[e] = "completed" /\ receipt[e] = "submitted" /\ ReadBackVouches(e)

\* Only extrinsics that were sent are waiting or included, each is one of the
\* two, and the chain holds an included one.
InclusionInv ==
  /\ \A e \in pending \cup landed : calls[e] > 0
  /\ pending \cap landed = {}
  /\ onChain # None => onChain \in landed

\* A marker agrees with the weights artifact, and with the attempt and the
\* receipt of a submission.
MarkerInv ==
  \A e \in Epoch : markerMode[e] # "none" =>
    /\ weightsFile[e] = markerMode[e]
    /\ markerMode[e] = "submitted" => Signed(e)
    /\ chainAttempt[e] # "none" => markerMode[e] = "submitted"

\* What a tick has on its way to the marker.
ResultInv ==
  \A p \in Proc :
    /\ pc[p] \in {"receipt", "complete"} => ReadBackVouches(ep[p])
    /\ pc[p] = "complete" => receipt[ep[p]] = "submitted"
    /\ pc[p] \in WritingSteps =>
         /\ result[p] = "submitted" => Signed(ep[p])
         /\ chainAttempt[ep[p]] # "none" => result[p] = "submitted"
    /\ pc[p] = "marker" => weightsFile[ep[p]] = result[p]

\* Committed epochs have markers, the last good one a marker of a vector that
\* was computed for the chain.
CommitInv ==
  /\ \A e \in committed : markerMode[e] # "none"
  /\ lastGood # None =>
       lastGood \in committed /\ markerMode[lastGood] \in {"dry_run", "submitted"}

EvidenceInv == InclusionInv /\ MarkerInv /\ ResultInv /\ CommitInv

=============================================================================
