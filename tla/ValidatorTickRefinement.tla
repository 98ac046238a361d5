----------------------- MODULE ValidatorTickRefinement -----------------------
(***************************************************************************)
(* What the validator's files say about the chain, and the refinement of   *)
(* the abstract ledger of epochs, for every instance of ValidatorTick.     *)
(***************************************************************************)
EXTENDS ValidatorTickProofs

USE DEF At, Goto, Proceed, Fault, state, marker, artifacts, chain, locals

-----------------------------------------------------------------------------
(***************************************************************************)
(* Steps that leave the evidence alone.                                    *)
(***************************************************************************)

evidenceVars == <<calls, pending, landed, onChain, chainAttempt, receipt, weightsFile,
                  markerMode, lastGood, committed>>

CriticalSteps == WritingSteps \cup {"receipt", "complete"}

\* No evidence changes, and no process gets to a step that relies on it but
\* from one that relied on it already.
Quiet ==
  /\ UNCHANGED evidenceVars
  /\ \A q \in Proc : pc'[q] \in CriticalSteps =>
       /\ ep'[q] = ep[q] /\ result'[q] = result[q]
       /\ \/ pc'[q] = pc[q]
          \/ pc[q] \in WritingSteps /\ pc'[q] \in {"panel", "weights"}

\* Evidence that nobody touches stays what it was.
LEMMA QuietKeeps ==
  ASSUME EvidenceInv, Quiet
  PROVE  EvidenceInv'
  <1>1. InclusionInv'
    BY DEF EvidenceInv, InclusionInv, Quiet, evidenceVars
  <1>2. MarkerInv' /\ CommitInv'
    BY DEF EvidenceInv, MarkerInv, CommitInv, Signed, ReadBackVouches, Quiet, evidenceVars
  <1>3. ResultInv'
    BY DEF EvidenceInv, ResultInv, Signed, ReadBackVouches, Quiet, evidenceVars,
           CriticalSteps, WritingSteps
  <1>4. QED
    BY <1>1, <1>2, <1>3 DEF EvidenceInv

\* Beginning, the phases up to the chain, and the verification of the marker.
LEMMA QuietTickSteps ==
  ASSUME TypeOK, NEW p \in Proc,
         \/ BeginRefused(p) \/ BeginAbandons(p) \/ BeginRetries(p) \/ BeginAllocates(p)
         \/ EpochBoundReached(p)
         \/ MarkQuerying(p) \/ BeginEvaluation(p) \/ AppendSubmissions(p) \/ ScoreEpoch(p)
         \/ BeginSubmitting(p) \/ SaveMinerState(p) \/ PersistPanelSidecar(p)
         \/ PublishRolling(p) \/ CommitRolling(p) \/ VerificationFails(p)
         \/ RecoverRefused(p) \/ RecoverRolling(p)
  PROVE  Quiet
  <1> USE DEF TypeOK, Quiet, evidenceVars, CriticalSteps, WritingSteps, Written, Handler
  <1>1. CASE BeginRefused(p) \/ EpochBoundReached(p) \/ RecoverRefused(p)
    BY <1>1 DEF BeginRefused, EpochBoundReached, RecoverRefused
  <1>2. CASE BeginAbandons(p)
    BY <1>2 DEF BeginAbandons
  <1>3. CASE BeginRetries(p) \/ BeginAllocates(p)
    BY <1>3 DEF BeginRetries, BeginAllocates
  <1>4. CASE MarkQuerying(p) \/ BeginEvaluation(p) \/ BeginSubmitting(p)
    BY <1>4 DEF MarkQuerying, BeginEvaluation, BeginSubmitting, Transition
  <1>5. CASE AppendSubmissions(p) \/ ScoreEpoch(p)
    BY <1>5 DEF AppendSubmissions, ScoreEpoch
  <1>6. CASE SaveMinerState(p)
    BY <1>6 DEF SaveMinerState
  <1>7. CASE PersistPanelSidecar(p)
    BY <1>7 DEF PersistPanelSidecar
  <1>8. CASE PublishRolling(p) \/ CommitRolling(p) \/ VerificationFails(p)
    BY <1>8 DEF PublishRolling, CommitRolling, VerificationFails
  <1>9. CASE RecoverRolling(p)
    BY <1>9 DEF RecoverRolling
  <1>10. QED
    BY <1>1, <1>2, <1>3, <1>4, <1>5, <1>6, <1>7, <1>8, <1>9

\* Taking and leaving the lock, exceptions, crashes and damage on the disk.
LEMMA QuietOtherSteps ==
  ASSUME TypeOK,
         \/ \E p \in Proc : \/ StartTick(p) \/ StartRecovery(p) \/ ExitFailsEvaluation(p)
                            \/ ExitTick(p) \/ ReleaseLock(p) \/ Raise(p) \/ Crash(p)
         \/ \E e \in Epoch : DamageSnapshot(e)
         \/ UNCHANGED vars
  PROVE  Quiet
  <1> USE DEF TypeOK, Quiet, evidenceVars, CriticalSteps, WritingSteps
  <1>1. ASSUME NEW p \in Proc, StartTick(p) \/ StartRecovery(p) PROVE Quiet
    BY <1>1 DEF StartTick, StartRecovery, AcquireLock
  <1>2. ASSUME NEW p \in Proc,
               ExitFailsEvaluation(p) \/ ExitTick(p) \/ ReleaseLock(p) \/ Crash(p)
        PROVE Quiet
    BY <1>2 DEF ExitFailsEvaluation, ExitTick, ReleaseLock, Crash, Gone
  <1>3. ASSUME NEW p \in Proc, Raise(p) PROVE Quiet
    BY <1>3 DEF Raise, Handler
  <1>4. ASSUME NEW e \in Epoch, DamageSnapshot(e) PROVE Quiet
    BY <1>4 DEF DamageSnapshot
  <1>5. CASE UNCHANGED vars
    BY <1>5 DEF vars
  <1>6. QED
    BY <1>1, <1>2, <1>3, <1>4, <1>5

-----------------------------------------------------------------------------
(***************************************************************************)
(* Steps that write the evidence.                                          *)
(***************************************************************************)

\* A process at a critical step is the only one there.
LEMMA Alone ==
  ASSUME IndInv, NEW p \in Proc, pc[p] \in EpochSteps, NEW q \in Proc, q # p
  PROVE  pc[q] = "idle" /\ pc[q] \notin CriticalSteps
  BY OwnEpoch DEF CriticalSteps, WritingSteps

\* No receipt of a submission and no attempt: apply_weights sends nothing.
LEMMA ApplyKeeps ==
  ASSUME IndInv, EvidenceInv, NEW p \in Proc, ApplyOffline(p) \/ ApplyWithoutSubmitting(p)
  PROVE  EvidenceInv'
  <1>1. pc[p] = "apply" /\ pc[p] \in EpochSteps /\ Untouched(ep[p]) /\ ep[p] \in Epoch
    BY OwnEpoch DEF ApplyOffline, ApplyWithoutSubmitting, EpochSteps, IndInv, ApplyInv
  <1>2. \E mode \in {"fallback", "skipped", "error", "dry_run"} :
          result' = [result EXCEPT ![p] = mode]
    BY ReceiptModesDefinite DEF ApplyOffline, ApplyWithoutSubmitting, Finished
  <1>3. /\ \A e \in Epoch : e # ep[p] => receipt'[e] = receipt[e]
        /\ UNCHANGED <<calls, pending, landed, onChain, chainAttempt, weightsFile, markerMode,
                       lastGood, committed, ep>>
    BY DEF ApplyOffline, ApplyWithoutSubmitting, IndInv, TypeOK
  <1>4. /\ pc'[p] \in {"snapshot", "exit"}
        /\ \A q \in Proc : q # p => pc'[q] = pc[q]
    BY <1>1 DEF ApplyOffline, ApplyWithoutSubmitting, Written, Handler, IndInv, TypeOK
  <1>5. InclusionInv' /\ CommitInv'
    BY <1>3 DEF EvidenceInv, InclusionInv, CommitInv
  <1>6. MarkerInv'
    BY <1>1, <1>3 DEF EvidenceInv, MarkerInv, Signed, ReadBackVouches, Untouched
  <1>7. ResultInv'
    <2>1. ASSUME NEW q \in Proc, q # p PROVE pc'[q] \notin CriticalSteps
      BY <1>1, <1>4, <2>1, Alone
    <2>2. result'[p] # "submitted" /\ chainAttempt'[ep'[p]] = "none"
      BY <1>1, <1>2, <1>3 DEF Untouched, IndInv, TypeOK
    <2>3. QED
      BY <1>4, <2>1, <2>2 DEF ResultInv, CriticalSteps, WritingSteps
  <1>8. QED
    BY <1>5, <1>6, <1>7 DEF EvidenceInv

\* The attempt file of an epoch without a marker.
LEMMA AttemptKeeps ==
  ASSUME IndInv, EvidenceInv, NEW p \in Proc, StartAttempt(p) \/ MarkAmbiguous(p)
  PROVE  EvidenceInv'
  <1>1. pc[p] \in {"apply", "ambiguous"} /\ pc[p] \in EpochSteps /\ ep[p] \in Epoch
    BY OwnEpoch DEF StartAttempt, MarkAmbiguous, EpochSteps, SendingSteps
  <1>2. markerMode[ep[p]] = "none"
    BY <1>1 DEF IndInv, ApplyInv, Untouched, SendingSteps
  <1>3. /\ \A e \in Epoch : e # ep[p] => chainAttempt'[e] = chainAttempt[e]
        /\ UNCHANGED <<calls, pending, landed, onChain, receipt, weightsFile, markerMode,
                       lastGood, committed, ep, result>>
    BY DEF StartAttempt, MarkAmbiguous, WriteAttempt, IndInv, TypeOK
  <1>4. /\ pc'[p] \notin CriticalSteps
        /\ \A q \in Proc : q # p => pc'[q] = pc[q]
    BY <1>1 DEF StartAttempt, MarkAmbiguous, Written, Handler, IndInv, TypeOK, CriticalSteps,
                WritingSteps
  <1>5. InclusionInv' /\ CommitInv'
    BY <1>3 DEF EvidenceInv, InclusionInv, CommitInv
  <1>6. MarkerInv'
    BY <1>2, <1>3 DEF EvidenceInv, MarkerInv, Signed, ReadBackVouches
  <1>7. ResultInv'
    <2>1. ASSUME NEW q \in Proc PROVE pc'[q] \notin CriticalSteps
      BY <1>1, <1>4, <2>1, Alone
    <2>2. QED
      BY <2>1 DEF ResultInv, CriticalSteps, WritingSteps
  <1>8. QED
    BY <1>5, <1>6, <1>7 DEF EvidenceInv

\* The extrinsic of an epoch that was not sent before.
LEMMA SetWeightsKeeps ==
  ASSUME IndInv, EvidenceInv, NEW p \in Proc, SetWeights(p)
  PROVE  EvidenceInv'
  <1>1. pc[p] = "set_weights" /\ pc[p] \in EpochSteps /\ ep[p] \in Epoch
    BY OwnEpoch DEF SetWeights, EpochSteps, SendingSteps
  <1>2. calls[ep[p]] = 0 /\ calls \in [Epoch -> Nat] /\ ep[p] # None
    BY <1>1, EpochNat DEF IndInv, ApplyInv, TypeOK
  <1>3. /\ calls' = [calls EXCEPT ![ep[p]] = @ + 1]
        /\ \/ onChain' = ep[p] /\ landed' = landed \cup {ep[p]} /\ pending' = pending
           \/ /\ pending' \in {pending, pending \cup {ep[p]}}
              /\ onChain' = onChain /\ landed' = landed
        /\ UNCHANGED <<chainAttempt, receipt, weightsFile, markerMode, lastGood, committed, ep,
                       result>>
    BY DEF SetWeights
  <1>4. /\ pc'[p] \notin CriticalSteps
        /\ \A q \in Proc : q # p => pc'[q] = pc[q]
    BY <1>1 DEF SetWeights, IndInv, TypeOK, CriticalSteps, WritingSteps
  <1>5. ep[p] \notin pending \cup landed
    BY <1>2 DEF EvidenceInv, InclusionInv
  <1>6. InclusionInv'
    <2>1. \A e \in Epoch : calls[e] > 0 => calls'[e] > 0
      BY <1>2, <1>3
    <2>2. calls'[ep[p]] > 0
      BY <1>1, <1>2, <1>3
    <2>3. pending \subseteq Epoch /\ landed \subseteq Epoch
      BY DEF IndInv, TypeOK
    <2>4. QED
      BY <1>3, <1>5, <2>1, <2>2, <2>3 DEF EvidenceInv, InclusionInv
  <1>7. MarkerInv' /\ CommitInv'
    BY <1>3 DEF EvidenceInv, MarkerInv, CommitInv, Signed, ReadBackVouches
  <1>8. ResultInv'
    <2>1. ASSUME NEW q \in Proc PROVE pc'[q] \notin CriticalSteps
      BY <1>1, <1>4, <2>1, Alone
    <2>2. QED
      BY <2>1 DEF ResultInv, CriticalSteps, WritingSteps
  <1>9. QED
    BY <1>6, <1>7, <1>8 DEF EvidenceInv

\* What the chain holds when the vectors are compared is no later epoch's.
LEMMA ReadBackKeeps ==
  ASSUME IndInv, EvidenceInv, NEW p \in Proc, ReadBack(p)
  PROVE  EvidenceInv'
  <1>1. pc[p] = "read_back" /\ pc[p] \in EpochSteps /\ ep[p] \in Epoch
    BY OwnEpoch DEF ReadBack, EpochSteps, SendingSteps
  <1>2. UNCHANGED <<calls, pending, landed, onChain, chainAttempt, receipt, weightsFile,
                    markerMode, lastGood, committed, ep, result>>
    BY DEF ReadBack
  <1>3. /\ pc'[p] = IF ReadBackMatches(ep[p]) THEN "receipt" ELSE "ambiguous"
        /\ \A q \in Proc : q # p => pc'[q] = pc[q]
    BY <1>1 DEF ReadBack, IndInv, TypeOK
  <1>4. ReadBackMatches(ep[p]) => ReadBackVouches(ep[p])
    <2>1. SUFFICES ASSUME ReadBackMatches(ep[p]), ep[p] \notin CommitRevealEpochs
                   PROVE  ReadBackVouches(ep[p])
      BY DEF ReadBackVouches
    <2>2. SameWeights(onChain, ep[p])
      BY <2>1 DEF ReadBackMatches
    <2>3. onChain # None
      BY <1>1, <2>2, EpochNat, ConstantsAssumption DEF SameWeights
    <2>4. onChain \in landed /\ calls[onChain] > 0 /\ onChain \in Epoch
      BY <2>3 DEF EvidenceInv, InclusionInv, IndInv, TypeOK
    <2>5. onChain < nextEpoch
      BY <2>4, EpochNat DEF IndInv, ChainInv, StateInv
    <2>6. onChain <= ep[p]
      BY <1>1, <2>4, <2>5, OwnEpoch, EpochNat
    <2>7. QED
      BY <2>2, <2>4, <2>6 DEF ReadBackVouches, SameWeights
  <1>5. InclusionInv' /\ MarkerInv' /\ CommitInv'
    BY <1>2 DEF EvidenceInv, InclusionInv, MarkerInv, CommitInv, Signed, ReadBackVouches
  <1>6. ResultInv'
    <2>1. ASSUME NEW q \in Proc, q # p PROVE pc'[q] \notin CriticalSteps
      BY <1>1, <1>3, <2>1, Alone
    <2>2. ReadBackVouches(ep[p]) => ReadBackVouches(ep[p])'
      BY <1>2 DEF ReadBackVouches
    <2>3. QED
      BY <1>2, <1>3, <1>4, <2>1, <2>2 DEF ResultInv, CriticalSteps, WritingSteps, ReadBackVouches
  <1>7. QED
    BY <1>5, <1>6 DEF EvidenceInv

\* The receipt and the completed attempt of an epoch without a marker.
LEMMA ReceiptKeeps ==
  ASSUME IndInv, EvidenceInv, NEW p \in Proc, WriteSubmittedReceipt(p) \/ CompleteAttempt(p)
  PROVE  EvidenceInv'
  <1>1. /\ pc[p] \in {"receipt", "complete"} /\ pc[p] \in EpochSteps /\ ep[p] \in Epoch
        /\ markerMode[ep[p]] = "none" /\ chainAttempt[ep[p]] # "none"
    <2>1. pc[p] \in {"receipt", "complete"} /\ pc[p] \in EpochSteps
      BY DEF WriteSubmittedReceipt, CompleteAttempt, EpochSteps, SendingSteps
    <2>2. QED
      BY <2>1, OwnEpoch DEF IndInv, ApplyInv, SendingSteps
  <1>2. /\ \A e \in Epoch : e # ep[p] => chainAttempt'[e] = chainAttempt[e]
        /\ \A e \in Epoch : e # ep[p] => receipt'[e] = receipt[e]
        /\ UNCHANGED <<calls, pending, landed, onChain, weightsFile, markerMode,
                       lastGood, committed, ep>>
    BY <1>1 DEF WriteSubmittedReceipt, CompleteAttempt, WriteAttempt, IndInv, TypeOK
  <1>3. \A q \in Proc : q # p => pc'[q] \notin CriticalSteps
    <2>1. \A q \in Proc : q # p => pc'[q] = pc[q]
      BY DEF WriteSubmittedReceipt, CompleteAttempt, Written, IndInv, TypeOK
    <2>2. QED
      BY <1>1, <2>1, Alone
  <1>4. InclusionInv' /\ CommitInv'
    BY <1>2 DEF EvidenceInv, InclusionInv, CommitInv
  <1>5. MarkerInv'
    BY <1>1, <1>2 DEF EvidenceInv, MarkerInv, Signed, ReadBackVouches
  <1>6. ReadBackVouches(ep[p]) /\ ReadBackVouches(ep[p])'
    BY <1>1, <1>2 DEF EvidenceInv, ResultInv, ReadBackVouches
  <1>7. ResultInv'
    <2>1. CASE WriteSubmittedReceipt(p)
      <3>1. receipt'[ep[p]] = "submitted" /\ pc'[p] \in {"complete", "ambiguous"}
        BY <1>1, <2>1 DEF WriteSubmittedReceipt, Written, Handler, IndInv, TypeOK
      <3>2. QED
        BY <1>2, <1>3, <1>6, <3>1 DEF ResultInv, CriticalSteps, WritingSteps, ReadBackVouches
    <2>2. CASE CompleteAttempt(p)
      <3>1. /\ receipt'[ep[p]] = "submitted" /\ chainAttempt'[ep[p]] = "completed"
            /\ result'[p] = "submitted" /\ pc'[p] \in {"snapshot", "ambiguous"}
        BY <1>1, <2>2 DEF CompleteAttempt, WriteAttempt, Finished, Written, Handler, IndInv,
                          TypeOK, EvidenceInv, ResultInv
      <3>2. Signed(ep[p])'
        BY <1>2, <1>6, <3>1 DEF Signed
      <3>3. QED
        BY <1>2, <1>3, <3>1, <3>2 DEF ResultInv, CriticalSteps, WritingSteps, Signed,
                                      ReadBackVouches
    <2>3. QED
      BY <2>1, <2>2
  <1>8. QED
    BY <1>4, <1>5, <1>7 DEF EvidenceInv

\* The weights artifact gets the mode in memory.
LEMMA WriteWeightsKeeps ==
  ASSUME IndInv, EvidenceInv, NEW p \in Proc, WriteWeightsArtifact(p)
  PROVE  EvidenceInv'
  <1>1. /\ pc[p] = "weights" /\ pc[p] \in EpochSteps /\ ep[p] \in Epoch
        /\ markerMode[ep[p]] = "none"
    <2>1. pc[p] = "weights" /\ pc[p] \in EpochSteps
      BY DEF WriteWeightsArtifact, EpochSteps, WritingSteps
    <2>2. QED
      BY <2>1, OwnEpoch DEF IndInv, ApplyInv, WritingSteps
  <1>2. /\ weightsFile' = [weightsFile EXCEPT ![ep[p]] = result[p]]
        /\ UNCHANGED <<calls, pending, landed, onChain, chainAttempt, receipt, markerMode,
                       lastGood, committed, ep, result>>
    BY DEF WriteWeightsArtifact
  <1>3. /\ pc'[p] \in {"marker", "exit"}
        /\ \A q \in Proc : q # p => pc'[q] \notin CriticalSteps
    <2>1. pc'[p] \in {"marker", "exit"} /\ \A q \in Proc : q # p => pc'[q] = pc[q]
      BY <1>1 DEF WriteWeightsArtifact, Written, Handler, IndInv, TypeOK
    <2>2. QED
      BY <1>1, <2>1, Alone
  <1>4. InclusionInv' /\ CommitInv'
    BY <1>2 DEF EvidenceInv, InclusionInv, CommitInv
  <1>5. MarkerInv'
    BY <1>1, <1>2 DEF EvidenceInv, MarkerInv, Signed, ReadBackVouches, IndInv, TypeOK
  <1>6. ResultInv'
    <2>1. weightsFile'[ep[p]] = result[p]
      BY <1>1, <1>2 DEF IndInv, TypeOK
    <2>2. /\ result[p] = "submitted" => Signed(ep[p])
          /\ chainAttempt[ep[p]] # "none" => result[p] = "submitted"
      BY <1>1 DEF EvidenceInv, ResultInv, WritingSteps
    <2>3. QED
      BY <1>2, <1>3, <2>1, <2>2 DEF ResultInv, CriticalSteps, WritingSteps, Signed,
                                    ReadBackVouches
  <1>7. QED
    BY <1>4, <1>5, <1>6 DEF EvidenceInv

\* The marker names the mode in memory, which the weights artifact has too.
LEMMA WriteMarkerKeeps ==
  ASSUME IndInv, EvidenceInv, NEW p \in Proc, WriteCompletionMarker(p)
  PROVE  EvidenceInv'
  <1>1. /\ pc[p] = "marker" /\ pc[p] \in EpochSteps /\ ep[p] \in Epoch
        /\ markerMode[ep[p]] = "none"
    <2>1. pc[p] = "marker" /\ pc[p] \in EpochSteps
      BY DEF WriteCompletionMarker, EpochSteps, WritingSteps
    <2>2. QED
      BY <2>1, OwnEpoch DEF IndInv, ApplyInv, WritingSteps
  <1>2. /\ markerMode' = [markerMode EXCEPT ![ep[p]] = result[p]]
        /\ UNCHANGED <<calls, pending, landed, onChain, chainAttempt, receipt, weightsFile,
                       lastGood, committed, ep, result>>
    BY DEF WriteCompletionMarker
  <1>3. \A q \in Proc : pc'[q] \notin CriticalSteps
    <2>1. pc'[p] \in {"rolling", "exit"} /\ \A q \in Proc : q # p => pc'[q] = pc[q]
      BY <1>1 DEF WriteCompletionMarker, Written, Handler, IndInv, TypeOK
    <2>2. QED
      BY <1>1, <2>1, Alone DEF CriticalSteps, WritingSteps
  <1>4. markerMode'[ep[p]] = result[p] /\ \A e \in Epoch : e # ep[p] => markerMode'[e] = markerMode[e]
    BY <1>1, <1>2 DEF IndInv, TypeOK
  <1>5. ep[p] \notin committed
    BY <1>1 DEF EvidenceInv, CommitInv
  <1>6. InclusionInv' /\ CommitInv'
    BY <1>1, <1>2, <1>4, <1>5 DEF EvidenceInv, InclusionInv, CommitInv, IndInv, TypeOK
  <1>7. MarkerInv'
    <2>1. /\ result[p] = "submitted" => Signed(ep[p])
          /\ chainAttempt[ep[p]] # "none" => result[p] = "submitted"
          /\ weightsFile[ep[p]] = result[p]
      BY <1>1 DEF EvidenceInv, ResultInv, WritingSteps
    <2>2. QED
      BY <1>1, <1>2, <1>4, <2>1 DEF EvidenceInv, MarkerInv, Signed, ReadBackVouches
  <1>8. ResultInv'
    BY <1>3 DEF ResultInv, CriticalSteps, WritingSteps
  <1>9. QED
    BY <1>6, <1>7, <1>8 DEF EvidenceInv

\* Only an epoch with a marker is committed.
LEMMA CommitKeeps ==
  ASSUME IndInv, EvidenceInv, NEW p \in Proc, CommitState(p) \/ RecoverState(p)
  PROVE  EvidenceInv'
  <1>1. pc[p] \in {"commit_state", "recover_state"} /\ pc[p] \in EpochSteps /\ ep[p] \in Epoch
    <2>1. pc[p] \in {"commit_state", "recover_state"} /\ pc[p] \in EpochSteps
      BY DEF CommitState, RecoverState, EpochSteps
    <2>2. QED
      BY <2>1, OwnEpoch
  <1>2. markerMode[ep[p]] # "none"
    BY <1>1 DEF IndInv, LineageInv
  <1>3. /\ committed' = committed \cup {ep[p]}
        /\ lastGood' = IF markerMode[ep[p]] \in {"dry_run", "submitted"} THEN ep[p] ELSE lastGood
        /\ UNCHANGED <<calls, pending, landed, onChain, chainAttempt, receipt, weightsFile,
                       markerMode, ep, result>>
    BY DEF CommitState, RecoverState, WriteCommitted
  <1>4. \A q \in Proc : pc'[q] \notin CriticalSteps
    <2>1. pc'[p] \in {"exit", "release"} /\ \A q \in Proc : q # p => pc'[q] = pc[q]
      BY <1>1 DEF CommitState, RecoverState, Written, Handler, IndInv, TypeOK
    <2>2. QED
      BY <1>1, <2>1, Alone DEF CriticalSteps, WritingSteps
  <1>5. InclusionInv' /\ MarkerInv'
    BY <1>3 DEF EvidenceInv, InclusionInv, MarkerInv, Signed, ReadBackVouches
  <1>6. CommitInv'
    BY <1>2, <1>3 DEF EvidenceInv, CommitInv
  <1>7. ResultInv'
    BY <1>4 DEF ResultInv, CriticalSteps, WritingSteps
  <1>8. QED
    BY <1>5, <1>6, <1>7 DEF EvidenceInv

\* An extrinsic is included: what vouched before vouches still.
LEMMA IncludeLateKeeps ==
  ASSUME IndInv, EvidenceInv, NEW e \in Epoch, IncludeLate(e)
  PROVE  EvidenceInv'
  <1>1. /\ e \in pending /\ pending' = pending \ {e} /\ landed' = landed \cup {e} /\ onChain' = e
        /\ UNCHANGED <<calls, chainAttempt, receipt, weightsFile, markerMode, lastGood, committed,
                       pc, ep, result>>
    BY DEF IncludeLate
  <1>2. InclusionInv'
    BY <1>1 DEF EvidenceInv, InclusionInv
  <1>3. MarkerInv' /\ CommitInv' /\ ResultInv'
    BY <1>1 DEF EvidenceInv, MarkerInv, CommitInv, ResultInv, Signed, ReadBackVouches
  <1>4. QED
    BY <1>2, <1>3 DEF EvidenceInv

-----------------------------------------------------------------------------
\* A fresh work directory has nothing that would need evidence.
LEMMA EvidenceInit == Init => EvidenceInv
  BY DEF Init, EvidenceInv, InclusionInv, MarkerInv, ResultInv, CommitInv, WritingSteps

\* Every step keeps the evidence.
LEMMA EvidenceStep == IndInv /\ EvidenceInv /\ [Next]_vars => EvidenceInv'
  <1> SUFFICES ASSUME IndInv, EvidenceInv, [Next]_vars PROVE EvidenceInv'
    OBVIOUS
  <1>1. TypeOK
    BY DEF IndInv
  <1>2. CASE UNCHANGED vars
    BY <1>1, <1>2, QuietOtherSteps, QuietKeeps
  <1>3. ASSUME NEW p \in Proc, TickStep(p) PROVE EvidenceInv'
    BY <1>1, <1>3, QuietTickSteps, QuietOtherSteps, QuietKeeps, ApplyKeeps, AttemptKeeps,
       SetWeightsKeeps, ReadBackKeeps, ReceiptKeeps, WriteWeightsKeeps, WriteMarkerKeeps,
       CommitKeeps DEF TickStep
  <1>4. ASSUME NEW p \in Proc, StartTick(p) \/ StartRecovery(p) \/ Raise(p) \/ Crash(p)
        PROVE EvidenceInv'
    BY <1>1, <1>4, QuietOtherSteps, QuietKeeps
  <1>5. ASSUME NEW e \in Epoch, EnvironmentNext(e) PROVE EvidenceInv'
    BY <1>1, <1>5, QuietOtherSteps, QuietKeeps, IncludeLateKeeps DEF EnvironmentNext
  <1>6. QED
    BY <1>2, <1>3, <1>4, <1>5 DEF Next, ProcessNext

\* Both invariants hold in every reachable state of every instance.
LEMMA EvidenceInvariance == Spec => [](IndInv /\ EvidenceInv)
  BY InitInd, StepInd, EvidenceInit, EvidenceStep, PTL DEF Spec

\* A committed epoch has its artifacts; one committed as submitted was signed
\* and, unless commit-reveal hides it, its vector reached the chain; the last
\* successful receipt is a committed epoch's.
THEOREM CommittedAlwaysEvidenced == Spec => []CommittedIsEvidenced
  <1>1. EvidenceInv /\ IndInv => CommittedIsEvidenced
    BY DEF EvidenceInv, MarkerInv, CommitInv, Signed, ReadBackVouches, CommittedIsEvidenced,
           IndInv, TypeOK
  <1>2. QED
    BY <1>1, EvidenceInvariance, PTL

-----------------------------------------------------------------------------
(***************************************************************************)
(* The steps that epochs, chain and EMA notice.                            *)
(***************************************************************************)

Still == UNCHANGED <<nextEpoch, active, calls, onChain, rolling, committed>>

\* Every other step of a tick writes files and its own variables only.
LEMMA StillTickSteps ==
  ASSUME NEW p \in Proc, TickStep(p)
  PROVE  \/ Still
         \/ BeginAbandons(p) \/ BeginAllocates(p) \/ ExitFailsEvaluation(p)
         \/ SetWeights(p)
         \/ PublishRolling(p) \/ CommitRolling(p) \/ RecoverRolling(p)
         \/ CommitState(p) \/ RecoverState(p)
  <1> USE DEF Still
  <1>1. CASE BeginRefused(p) \/ EpochBoundReached(p) \/ RecoverRefused(p) \/ BeginRetries(p)
    BY <1>1 DEF BeginRefused, EpochBoundReached, RecoverRefused, BeginRetries
  <1>2. CASE MarkQuerying(p) \/ BeginEvaluation(p) \/ BeginSubmitting(p)
    BY <1>2 DEF MarkQuerying, BeginEvaluation, BeginSubmitting, Transition
  <1>3. CASE AppendSubmissions(p) \/ ScoreEpoch(p) \/ ApplyOffline(p)
    BY <1>3 DEF AppendSubmissions, ScoreEpoch, ApplyOffline
  <1>4. CASE ApplyWithoutSubmitting(p) \/ StartAttempt(p)
    BY <1>4 DEF ApplyWithoutSubmitting, StartAttempt
  <1>5. CASE ReadBack(p) \/ WriteSubmittedReceipt(p) \/ CompleteAttempt(p) \/ MarkAmbiguous(p)
    BY <1>5 DEF ReadBack, WriteSubmittedReceipt, CompleteAttempt, MarkAmbiguous
  <1>6. CASE SaveMinerState(p) \/ PersistPanelSidecar(p) \/ WriteWeightsArtifact(p)
    BY <1>6 DEF SaveMinerState, PersistPanelSidecar, WriteWeightsArtifact
  <1>7. CASE WriteCompletionMarker(p) \/ VerificationFails(p)
    BY <1>7 DEF WriteCompletionMarker, VerificationFails
  <1>8. CASE ExitTick(p) \/ ReleaseLock(p)
    BY <1>8 DEF ExitTick, ReleaseLock
  <1>9. QED
    BY <1>1, <1>2, <1>3, <1>4, <1>5, <1>6, <1>7, <1>8 DEF TickStep

\* So do the lock, exceptions, crashes and the damage on the disk.
LEMMA StillOtherSteps ==
  ASSUME \/ \E p \in Proc : StartTick(p) \/ StartRecovery(p) \/ Raise(p) \/ Crash(p)
         \/ \E e \in Epoch : DamageSnapshot(e)
         \/ UNCHANGED vars
  PROVE  Still
  BY DEF Still, StartTick, StartRecovery, AcquireLock, Raise, Crash, DamageSnapshot, vars

\* The steps that matter to the theorems below.
LEMMA StepKinds ==
  ASSUME [Next]_vars
  PROVE  \/ Still
         \/ \E p \in Proc :
              \/ BeginAbandons(p) \/ BeginAllocates(p) \/ ExitFailsEvaluation(p)
              \/ SetWeights(p)
              \/ PublishRolling(p) \/ CommitRolling(p) \/ RecoverRolling(p)
              \/ CommitState(p) \/ RecoverState(p)
         \/ \E e \in Epoch : IncludeLate(e)
  <1>1. CASE UNCHANGED vars
    BY <1>1, StillOtherSteps
  <1>2. ASSUME NEW p \in Proc, TickStep(p)
        PROVE  \/ Still
               \/ BeginAbandons(p) \/ BeginAllocates(p) \/ ExitFailsEvaluation(p)
               \/ SetWeights(p)
               \/ PublishRolling(p) \/ CommitRolling(p) \/ RecoverRolling(p)
               \/ CommitState(p) \/ RecoverState(p)
    BY <1>2, StillTickSteps
  <1>3. QED
    BY <1>1, <1>2, StillOtherSteps DEF Next, ProcessNext, EnvironmentNext

-----------------------------------------------------------------------------
(***************************************************************************)
(* Action properties.                                                      *)
(***************************************************************************)

\* An epoch is committed only while it is the active one, and a new epoch has
\* a new id.
LEMMA AbandonedStep ==
  ASSUME IndInv, [Next]_vars
  PROVE  /\ nextEpoch' >= nextEpoch
         /\ \A e \in Epoch : Abandoned(e) => Abandoned(e)'
  <1>1. nextEpoch \in Nat
    BY ConstantsAssumption DEF IndInv, TypeOK
  <1>2. CASE Still
    BY <1>1, <1>2 DEF Still, Abandoned
  <1>3. ASSUME NEW p \in Proc, BeginAbandons(p) \/ ExitFailsEvaluation(p)
        PROVE  /\ nextEpoch' >= nextEpoch
               /\ \A e \in Epoch : Abandoned(e) => Abandoned(e)'
    <2>1. nextEpoch' = nextEpoch /\ active' = None /\ committed' = committed
      BY <1>3 DEF BeginAbandons, ExitFailsEvaluation
    <2>2. QED
      BY <1>1, <2>1, EpochNat DEF Abandoned
  <1>4. ASSUME NEW p \in Proc, BeginAllocates(p)
        PROVE  /\ nextEpoch' >= nextEpoch
               /\ \A e \in Epoch : Abandoned(e) => Abandoned(e)'
    <2>1. nextEpoch' = nextEpoch + 1 /\ active' = nextEpoch /\ committed' = committed
      BY <1>4 DEF BeginAllocates
    <2>2. QED
      BY <1>1, <2>1, EpochNat DEF Abandoned
  <1>5. ASSUME NEW p \in Proc, SetWeights(p) \/ PublishRolling(p) \/ CommitRolling(p) \/ RecoverRolling(p)
        PROVE  UNCHANGED <<nextEpoch, active, committed>>
    BY <1>5 DEF SetWeights, PublishRolling, CommitRolling, RecoverRolling
  <1>6. ASSUME NEW p \in Proc, CommitState(p) \/ RecoverState(p)
        PROVE  /\ nextEpoch' >= nextEpoch
               /\ \A e \in Epoch : Abandoned(e) => Abandoned(e)'
    <2>1. /\ nextEpoch' = nextEpoch /\ active' = active
          /\ committed' = committed \cup {ep[p]}
      BY <1>6 DEF CommitState, RecoverState, WriteCommitted
    <2>2. ep[p] = active
      BY <1>6, OwnEpoch DEF CommitState, RecoverState, EpochSteps
    <2>3. QED
      BY <1>1, <2>1, <2>2 DEF Abandoned
  <1>7. ASSUME NEW e \in Epoch, IncludeLate(e) PROVE UNCHANGED <<nextEpoch, active, committed>>
    BY <1>7 DEF IncludeLate
  <1>8. QED
    BY <1>1, <1>2, <1>3, <1>4, <1>5, <1>6, <1>7, StepKinds DEF Abandoned

\* An epoch that was left behind uncommitted is never taken up again, by any
\* number of ticks, crashes and recoveries.
THEOREM LeftBehindForGood == Spec => AbandonedForever
  <1>1. IndInv /\ [Next]_vars =>
          [/\ nextEpoch' >= nextEpoch
           /\ \A e \in Epoch : Abandoned(e) => Abandoned(e)']_vars
    BY AbandonedStep
  <1>2. QED
    BY <1>1, Invariance, PTL DEF Spec, AbandonedForever

\* Whoever replaces the weights of a later epoch had been vouched for by an
\* epoch before it, unless commit-reveal hid it.
LEMMA LateInclusion ==
  ASSUME IndInv, EvidenceInv, NEW e \in Epoch, IncludeLate(e), e < onChain
  PROVE  e \in CommitRevealEpochs \/ \E f \in Epoch : f < e /\ SameWeights(f, e)
  <1>1. e \in pending /\ e \notin landed /\ calls[e] > 0 /\ e \in Nat
    BY EpochNat DEF IncludeLate, EvidenceInv, InclusionInv
  <1>2. onChain \in Epoch /\ onChain \in landed /\ calls[onChain] > 0
    BY <1>1, EpochNat DEF EvidenceInv, InclusionInv, IndInv, TypeOK
  <1>3. onChain < nextEpoch /\ nextEpoch \in Nat /\ onChain \in Nat
    BY <1>2, EpochNat, ConstantsAssumption DEF IndInv, ChainInv, StateInv, TypeOK
  <1>4. e # active
    BY <1>1, <1>3, EpochNat DEF IndInv, StateInv
  <1>5. chainAttempt[e] # "none" /\ e \in committed
    BY <1>1, <1>4 DEF IndInv, ChainInv
  <1>6. Signed(e)
    BY <1>5 DEF EvidenceInv, MarkerInv, CommitInv
  <1>7. e \in CommitRevealEpochs \/ \E f \in landed : f <= e /\ SameWeights(e, f)
    BY <1>6 DEF Signed, ReadBackVouches
  <1>8. \A f \in landed : f <= e => f \in Epoch /\ f < e
    BY <1>1, EpochNat DEF IndInv, TypeOK
  <1>9. QED
    BY <1>7, <1>8 DEF SameWeights

\* A late inclusion puts an earlier vector back only in the two cases the
\* read-back cannot exclude.
LEMMA ChainStep ==
  ASSUME IndInv, EvidenceInv, [Next]_vars, onChain' < onChain
  PROVE  \/ onChain' \in CommitRevealEpochs
         \/ \E f \in Epoch : f < onChain' /\ SameWeights(f, onChain')
  <1>1. onChain \in Nat
    BY EpochNat DEF IndInv, TypeOK
  <1>2. ASSUME NEW p \in Proc, SetWeights(p) PROVE onChain' = onChain \/ onChain' = active
    BY <1>2, OwnEpoch DEF SetWeights, EpochSteps, SendingSteps
  <1>3. active # None => onChain <= active
    <2>1. SUFFICES ASSUME active # None, onChain # None PROVE onChain <= active
      BY <1>1, EpochNat DEF IndInv, TypeOK
    <2>2. calls[onChain] > 0 /\ onChain \in Epoch
      BY <2>1, EpochNat DEF EvidenceInv, InclusionInv, IndInv, TypeOK
    <2>3. onChain < nextEpoch /\ active + 1 = nextEpoch /\ active \in Nat
      BY <2>1, <2>2, EpochNat, ConstantsAssumption DEF IndInv, ChainInv, StateInv, TypeOK
    <2>4. QED
      BY <1>1, <2>3
  <1>4. ASSUME NEW p \in Proc, SetWeights(p) PROVE active # None
    BY <1>4, OwnEpoch, EpochNat DEF SetWeights, EpochSteps, SendingSteps
  <1>5. active \in Nat
    BY EpochNat DEF IndInv, TypeOK
  <1>6. \A p \in Proc : ~SetWeights(p)
    BY <1>1, <1>2, <1>3, <1>4, <1>5
  <1>7. ASSUME NEW p \in Proc,
               \/ BeginAbandons(p) \/ BeginAllocates(p) \/ ExitFailsEvaluation(p)
               \/ PublishRolling(p) \/ CommitRolling(p) \/ RecoverRolling(p)
               \/ CommitState(p) \/ RecoverState(p)
        PROVE  onChain' = onChain
    BY <1>7 DEF BeginAbandons, BeginAllocates, ExitFailsEvaluation, PublishRolling, CommitRolling,
                RecoverRolling, CommitState, RecoverState, WriteCommitted
  <1>8. ~Still
    BY <1>1 DEF Still
  <1>9. PICK e \in Epoch : IncludeLate(e)
    BY <1>1, <1>6, <1>7, <1>8, StepKinds
  <1>10. onChain' = e
    BY <1>9 DEF IncludeLate
  <1>11. QED
    BY <1>9, <1>10, LateInclusion

\* The chain goes back to an earlier epoch's weights only in the two cases
\* that ChainNeverRegresses names.
THEOREM ChainRegressionExcused == Spec => ChainNeverRegresses
  <1>1. IndInv /\ EvidenceInv /\ [Next]_vars =>
          [onChain' < onChain =>
             \/ onChain' \in CommitRevealEpochs
             \/ \E f \in Epoch : f < onChain' /\ SameWeights(f, onChain')]_vars
    BY ChainStep
  <1>2. QED
    BY <1>1, EvidenceInvariance, PTL DEF Spec, ChainNeverRegresses

-----------------------------------------------------------------------------
(***************************************************************************)
(* The tick implements the ledger of epochs.                               *)
(***************************************************************************)

\* A fresh work directory is an empty ledger.
LEMMA LedgerStarts == Init => Ledger!LedgerInit
  BY EpochNat DEF Init, Ledger!LedgerInit

\* The active epoch of an evaluation or before a marker is not folded yet.
LEMMA NotFolded ==
  ASSUME IndInv, active # None, phase # "committed",
         phase = "weights_submitting" => markerMode[active] = "none"
  PROVE  active \notin rolling
  BY DEF IndInv, LineageInv, StateInv

\* Two ways to leave an epoch with nothing of it on the chain or in the EMA.
LEMMA AbandonsStep ==
  ASSUME IndInv, NEW p \in Proc, BeginAbandons(p) \/ ExitFailsEvaluation(p)
  PROVE  Ledger!Abandon
  <1>1. active # None /\ active \in Epoch
    BY EpochNat DEF BeginAbandons, ExitFailsEvaluation, EvaluationOpen, IndInv, StateInv, TypeOK
  <1>2. active \notin rolling
    BY <1>1, NotFolded DEF BeginAbandons, BeginRefuses, ExitFailsEvaluation, EvaluationOpen
  <1>3. ~(calls[active] > 0)
    <2>1. CASE BeginAbandons(p)
      BY <1>1, <2>1 DEF BeginAbandons, BeginRefuses, IndInv, ChainInv
    <2>2. CASE ExitFailsEvaluation(p)
      BY <1>1, <2>2 DEF ExitFailsEvaluation, EvaluationOpen, IndInv, UntouchedInv, Untouched
    <2>3. QED
      BY <2>1, <2>2
  <1>4. active' = None /\ UNCHANGED <<nextEpoch, calls, rolling>>
    BY DEF BeginAbandons, ExitFailsEvaluation
  <1>5. QED
    BY <1>1, <1>2, <1>3, <1>4 DEF Ledger!Abandon, None

\* A new epoch is begun over nothing, a committed epoch, or an evaluation.
LEMMA AllocatesStep ==
  ASSUME IndInv, NEW p \in Proc, BeginAllocates(p)
  PROVE  Ledger!Begin
  <1>1. active' = nextEpoch /\ nextEpoch' = nextEpoch + 1 /\ UNCHANGED <<calls, rolling>>
    BY DEF BeginAllocates
  <1>2. phase \in {"none", "committed", "evaluating"}
    BY DEF BeginAllocates
  <1>3. CASE phase = "none"
    BY <1>1, <1>3 DEF Ledger!Begin, Ledger!MayLeave, IndInv, StateInv, None
  <1>4. CASE phase = "committed"
    BY <1>1, <1>4 DEF Ledger!Begin, Ledger!MayLeave, IndInv, StateInv, LineageInv
  <1>5. CASE phase = "evaluating"
    BY <1>1, <1>5 DEF Ledger!Begin, Ledger!MayLeave, IndInv, UntouchedInv, Untouched
  <1>6. QED
    BY <1>2, <1>3, <1>4, <1>5

\* The call is for the active epoch, which was neither sent nor folded.
LEMMA SendsStep ==
  ASSUME IndInv, NEW p \in Proc, SetWeights(p)
  PROVE  Ledger!Send
  <1>1. pc[p] = "set_weights" /\ pc[p] \in EpochSteps
    BY DEF SetWeights, EpochSteps, SendingSteps
  <1>2. ep[p] = active /\ active \in Epoch /\ active # None /\ phase = "weights_submitting"
    BY <1>1, OwnEpoch, EpochNat DEF IndInv, StepInv, PhaseAt
  <1>3. calls[active] = 0 /\ markerMode[active] = "none" /\ calls \in [Epoch -> Nat]
    BY <1>1, <1>2 DEF IndInv, ApplyInv, SendingSteps, TypeOK
  <1>4. active \notin rolling
    BY <1>2, <1>3, NotFolded
  <1>5. {e \in Epoch : calls'[e] > 0} = {e \in Epoch : calls[e] > 0} \cup {active}
    BY <1>2, <1>3 DEF SetWeights
  <1>6. UNCHANGED <<nextEpoch, active, rolling>>
    BY DEF SetWeights
  <1>7. QED
    BY <1>2, <1>3, <1>4, <1>5, <1>6 DEF Ledger!Send, None

\* The rolling EMA is written with the active epoch in it, or is already so.
LEMMA FoldsStep ==
  ASSUME IndInv, NEW p \in Proc, PublishRolling(p) \/ CommitRolling(p) \/ RecoverRolling(p)
  PROVE  Ledger!Fold \/ UNCHANGED Ledger!ledgerVars
  <1>1. active # None /\ phase = "weights_submitting" /\ markerMode[active] # "none"
        /\ rolling' = committed \cup {active}
    <2>1. CASE PublishRolling(p)
      <3>1. pc[p] = "rolling" /\ pc[p] \in EpochSteps
        BY <2>1 DEF PublishRolling, EpochSteps
      <3>2. ep[p] = active /\ active # None /\ phase = "weights_submitting"
        BY <3>1 DEF IndInv, StepInv, PhaseAt
      <3>3. QED
        BY <2>1, <3>1, <3>2 DEF PublishRolling, VerifyEpochCompletion, IndInv, LineageInv
    <2>2. CASE CommitRolling(p)
      <3>1. pc[p] = "commit" /\ pc[p] \in EpochSteps
        BY <2>2 DEF CommitRolling, EpochSteps
      <3>2. ep[p] = active /\ active # None /\ phase = "weights_submitting"
        BY <3>1 DEF IndInv, StepInv, PhaseAt
      <3>3. QED
        BY <2>2, <3>2 DEF CommitRolling, CanCommit, VerifyEpochCompletion, IndInv, LineageInv
    <2>3. CASE RecoverRolling(p)
      BY <2>3 DEF RecoverRolling, Recoverable, CanCommit, VerifyEpochCompletion, IndInv,
                  LineageInv, StateInv
    <2>4. QED
      BY <2>1, <2>2, <2>3
  <1>2. active \notin committed /\ rolling \in {committed, committed \cup {active}}
    BY <1>1 DEF IndInv, StateInv, LineageInv
  <1>3. UNCHANGED <<nextEpoch, active, calls>>
    BY DEF PublishRolling, CommitRolling, RecoverRolling
  <1>4. QED
    BY <1>1, <1>2, <1>3 DEF Ledger!Fold, Ledger!ledgerVars, None

\* Every step of the validator is a step of the ledger or a stutter.
LEMMA LedgerStep ==
  ASSUME IndInv, [Next]_vars
  PROVE  [Ledger!LedgerNext]_(Ledger!ledgerVars)
  <1>1. ASSUME UNCHANGED <<nextEpoch, active, calls, rolling>> PROVE UNCHANGED Ledger!ledgerVars
    BY <1>1 DEF Ledger!ledgerVars
  <1>2. ASSUME NEW p \in Proc, CommitState(p) \/ RecoverState(p)
        PROVE  UNCHANGED Ledger!ledgerVars
    BY <1>1, <1>2 DEF CommitState, RecoverState, WriteCommitted
  <1>3. ASSUME NEW e \in Epoch, IncludeLate(e) PROVE UNCHANGED Ledger!ledgerVars
    BY <1>1, <1>3 DEF IncludeLate
  <1>4. Still => UNCHANGED Ledger!ledgerVars
    BY <1>1 DEF Still
  <1>5. QED
    BY <1>2, <1>3, <1>4, StepKinds, AbandonsStep, AllocatesStep, SendsStep, FoldsStep
       DEF Ledger!LedgerNext

\* The recurring validator, with its files, processes, crashes and
\* recoveries, implements the ledger of epochs.
THEOREM TickImplementsLedger == Spec => ImplementsLedger
  <1>1. IndInv /\ [Next]_vars => [Ledger!LedgerNext]_(Ledger!ledgerVars)
    BY LedgerStep
  <1>2. QED
    BY <1>1, LedgerStarts, Invariance, PTL DEF Spec, ImplementsLedger, Ledger!LedgerSpec

=============================================================================
