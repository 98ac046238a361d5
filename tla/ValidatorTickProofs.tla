------------------------- MODULE ValidatorTickProofs -------------------------
(***************************************************************************)
(* The safety of ValidatorTick, for every set of processes, every number   *)
(* of epochs and every number of faults.  One lemma per action shows that  *)
(* the action preserves IndInv; the theorems follow from IndInv.           *)
(***************************************************************************)
EXTENDS ValidatorTickInv, TLAPS

\* Abbreviations of control flow and of the tuples of variables.
USE DEF At, Goto, Proceed, Fault, state, marker, artifacts, chain, locals

\* Epoch ids are numbers and never the absent id 0.
LEMMA EpochNat == Epoch \subseteq Nat /\ None \notin Epoch /\ None = 0
  BY ConstantsAssumption DEF Epoch, None

\* A process at a step of an epoch works on the active epoch, which is the
\* newest one, and is the only process that is running.
LEMMA OwnEpoch ==
  ASSUME IndInv, NEW p \in Proc, pc[p] \in EpochSteps
  PROVE  /\ ep[p] = active
         /\ active \in Epoch /\ active \in Nat
         /\ nextEpoch \in Nat /\ nextEpoch = active + 1
         /\ \A q \in Proc : pc[q] # "idle" => q = p
  <1>1. ep[p] = active /\ active # None /\ pc[p] # "idle"
    BY DEF IndInv, StepInv, EpochSteps, SendingSteps, WritingSteps
  <1>2. active \in Epoch /\ active \in Nat /\ nextEpoch \in Nat
    BY <1>1, EpochNat, ConstantsAssumption DEF IndInv, TypeOK
  <1>3. nextEpoch = active + 1
    BY <1>1, <1>2 DEF IndInv, StateInv
  <1>4. \A q \in Proc : pc[q] # "idle" => q = p
    BY <1>1 DEF IndInv, LockInv
  <1>5. QED
    BY <1>1, <1>2, <1>3, <1>4

\* A fresh work directory satisfies the invariant.
LEMMA InitInd == Init => IndInv
  <1>1. SUFFICES ASSUME Init PROVE IndInv
    OBVIOUS
  <1>2. TypeOK
    BY <1>1, ConstantsAssumption DEF Init, TypeOK, Phase, AttemptStatus, Step
  <1>3. LockInv /\ StateInv /\ StepInv
    BY <1>1 DEF Init, LockInv, StateInv, StepInv, EpochSteps, SendingSteps, WritingSteps
  <1>4. UntouchedInv /\ ChainInv /\ ApplyInv
    BY <1>1 DEF Init, UntouchedInv, Untouched, ChainInv, ApplyInv, SendingSteps, WritingSteps
  <1>5. LineageInv /\ RowsInv
    BY <1>1 DEF Init, LineageInv, RowsInv, SendingSteps, WritingSteps
  <1>6. QED
    BY <1>2, <1>3, <1>4, <1>5 DEF IndInv

-----------------------------------------------------------------------------
(***************************************************************************)
(* Each action preserves the invariant.                                    *)
(***************************************************************************)

\* Taking the free lock changes no file, and no other process is running.
LEMMA StartTickInd ==
  ASSUME IndInv, NEW p \in Proc, StartTick(p)
  PROVE  IndInv'
  <1>1. TypeOK'
    BY DEF IndInv, TypeOK, Step, StartTick, AcquireLock
  <1>2. LockInv' /\ StateInv' /\ StepInv'
    BY ConstantsAssumption DEF IndInv, TypeOK, LockInv, StateInv, StepInv,
       EpochSteps, SendingSteps, WritingSteps, PhaseAt, StartTick, AcquireLock
  <1>3. UntouchedInv' /\ ChainInv'
    BY DEF IndInv, UntouchedInv, Untouched, ChainInv, DefiniteReceipt, StartTick,
       AcquireLock
  <1>4. ApplyInv'
    BY DEF IndInv, TypeOK, ApplyInv, Untouched, SendingSteps, WritingSteps,
       StartTick, AcquireLock
  <1>5. LineageInv'
    BY DEF IndInv, TypeOK, LineageInv, SendingSteps, WritingSteps, StartTick,
       AcquireLock
  <1>6. RowsInv'
    BY DEF IndInv, TypeOK, RowsInv, StartTick, AcquireLock
  <1>7. QED
    BY <1>1, <1>2, <1>3, <1>4, <1>5, <1>6 DEF IndInv

\* recover-receipt takes the lock as a tick does.
LEMMA StartRecoveryInd ==
  ASSUME IndInv, NEW p \in Proc, StartRecovery(p)
  PROVE  IndInv'
  <1>1. TypeOK'
    BY DEF IndInv, TypeOK, Step, StartRecovery, AcquireLock
  <1>2. LockInv' /\ StateInv' /\ StepInv'
    BY ConstantsAssumption DEF IndInv, TypeOK, LockInv, StateInv, StepInv,
       EpochSteps, SendingSteps, WritingSteps, PhaseAt, StartRecovery, AcquireLock
  <1>3. UntouchedInv' /\ ChainInv'
    BY DEF IndInv, UntouchedInv, Untouched, ChainInv, DefiniteReceipt,
       StartRecovery, AcquireLock
  <1>4. ApplyInv'
    BY DEF IndInv, TypeOK, ApplyInv, Untouched, SendingSteps, WritingSteps,
       StartRecovery, AcquireLock
  <1>5. LineageInv'
    BY DEF IndInv, TypeOK, LineageInv, SendingSteps, WritingSteps, StartRecovery,
       AcquireLock
  <1>6. RowsInv'
    BY DEF IndInv, TypeOK, RowsInv, StartRecovery, AcquireLock
  <1>7. QED
    BY <1>1, <1>2, <1>3, <1>4, <1>5, <1>6 DEF IndInv

\* A refused tick changes nothing but its own step.
LEMMA BeginRefusedInd ==
  ASSUME IndInv, NEW p \in Proc, BeginRefused(p)
  PROVE  IndInv'
  <1>1. TypeOK'
    BY DEF IndInv, TypeOK, Step, BeginRefused
  <1>2. LockInv' /\ StateInv' /\ StepInv'
    BY DEF IndInv, TypeOK, LockInv, StateInv, StepInv, EpochSteps, SendingSteps,
       WritingSteps, BeginRefused
  <1>3. UntouchedInv' /\ ChainInv'
    BY DEF IndInv, UntouchedInv, Untouched, ChainInv, DefiniteReceipt, BeginRefused
  <1>4. ApplyInv'
    BY DEF IndInv, TypeOK, ApplyInv, Untouched, SendingSteps, WritingSteps,
       BeginRefused
  <1>5. LineageInv'
    BY DEF IndInv, TypeOK, LineageInv, SendingSteps, WritingSteps, BeginRefused
  <1>6. RowsInv'
    BY DEF IndInv, TypeOK, RowsInv, BeginRefused
  <1>7. QED
    BY <1>1, <1>2, <1>3, <1>4, <1>5, <1>6 DEF IndInv

\* An epoch is abandoned only with a definite receipt, which excludes an
\* attempt file, and without a marker, so nothing of it is in the EMA.
LEMMA BeginAbandonsInd ==
  ASSUME IndInv, NEW p \in Proc, BeginAbandons(p)
  PROVE  IndInv'
  <1>1. TypeOK'
    BY ConstantsAssumption DEF IndInv, TypeOK, Step, Phase, BeginAbandons,
       BeginRefuses, Written, Handler
  <1>2. LockInv' /\ StateInv' /\ StepInv'
    BY DEF IndInv, TypeOK, LockInv, StateInv, StepInv, EpochSteps, SendingSteps,
       WritingSteps, BeginAbandons, BeginRefuses, Written, Handler
  <1>3. UntouchedInv' /\ ChainInv'
    BY DEF IndInv, UntouchedInv, Untouched, ChainInv, DefiniteReceipt,
       BeginAbandons, BeginRefuses
  <1>4. ApplyInv'
    BY DEF IndInv, TypeOK, ApplyInv, Untouched, SendingSteps, WritingSteps,
       BeginAbandons, BeginRefuses, Written, Handler
  <1>5. LineageInv'
    BY DEF IndInv, TypeOK, LineageInv, SendingSteps, WritingSteps, BeginAbandons,
       BeginRefuses, Written, Handler
  <1>6. RowsInv'
    BY DEF IndInv, TypeOK, RowsInv, BeginAbandons, BeginRefuses, Written, Handler
  <1>7. QED
    BY <1>1, <1>2, <1>3, <1>4, <1>5, <1>6 DEF IndInv

\* The retried epoch has not been evaluated, so it has no rows and no chain
\* files.
LEMMA BeginRetriesInd ==
  ASSUME IndInv, NEW p \in Proc, BeginRetries(p)
  PROVE  IndInv'
  <1>1. TypeOK'
    BY ConstantsAssumption DEF IndInv, TypeOK, Step, Phase, BeginRetries, Written,
       Handler, RetryPhases
  <1>2. LockInv' /\ StateInv' /\ StepInv'
    BY DEF IndInv, TypeOK, LockInv, StateInv, StepInv, EpochSteps, SendingSteps,
       WritingSteps, PhaseAt, BeginRetries, Written, Handler, RetryPhases
  <1>3. UntouchedInv' /\ ChainInv'
    BY DEF IndInv, UntouchedInv, Untouched, ChainInv, DefiniteReceipt, BeginRetries,
       RetryPhases
  <1>4. ApplyInv'
    BY DEF IndInv, TypeOK, ApplyInv, Untouched, SendingSteps, WritingSteps,
       BeginRetries, Written, Handler, RetryPhases
  <1>5. LineageInv'
    BY DEF IndInv, TypeOK, LineageInv, SendingSteps, WritingSteps, BeginRetries,
       Written, Handler, RetryPhases
  <1>6. RowsInv'
    BY DEF IndInv, TypeOK, RowsInv, BeginRetries, Written, Handler, RetryPhases
  <1>7. QED
    BY <1>1, <1>2, <1>3, <1>4, <1>5, <1>6 DEF IndInv

\* The fresh epoch id is above every id used so far: it has no files, no
\* rows and no calls, and the epoch left behind is not being submitted.
LEMMA BeginAllocatesInd ==
  ASSUME IndInv, NEW p \in Proc, BeginAllocates(p)
  PROVE  IndInv'
  <1>1. TypeOK'
    <2>1. pc' \in [Proc -> Step]
      BY DEF BeginAllocates, Written, Handler, Step, IndInv, TypeOK
    <2>2. nextEpoch' \in 1..(MaxEpoch + 1)
      BY ConstantsAssumption DEF BeginAllocates, Epoch
    <2>3. faults' \in 0..MaxFaults
      BY ConstantsAssumption DEF BeginAllocates, Written, IndInv, TypeOK
    <2>4. QED
      BY <2>1, <2>2, <2>3 DEF IndInv, TypeOK, BeginAllocates, Phase
  <1>2. nextEpoch \in Nat /\ nextEpoch \in Epoch /\ nextEpoch' = nextEpoch + 1
    BY EpochNat DEF BeginAllocates
  <1>3. \A q \in Proc : q # p => pc[q] = "idle" /\ pc'[q] = "idle"
    BY DEF IndInv, LockInv, TypeOK, BeginAllocates, Written
  <1>4. pc'[p] \in {"allocated", "release"}
    BY DEF IndInv, TypeOK, BeginAllocates, Written, Handler
  <1>5. LockInv' /\ StepInv'
    BY <1>2, <1>3, <1>4, EpochNat DEF IndInv, TypeOK, LockInv, StepInv, BeginAllocates,
       PhaseAt, EpochSteps, SendingSteps, WritingSteps
  <1>6. StateInv'
    BY <1>2, EpochNat DEF IndInv, TypeOK, StateInv, BeginAllocates
  <1>7. UntouchedInv' /\ ChainInv'
    BY <1>2, EpochNat DEF IndInv, TypeOK, UntouchedInv, Untouched, ChainInv,
       DefiniteReceipt, BeginAllocates
  <1>8. ApplyInv'
    BY <1>3, <1>4 DEF IndInv, TypeOK, ApplyInv, SendingSteps, WritingSteps
  <1>9. LineageInv'
    BY <1>3, <1>4 DEF IndInv, TypeOK, LineageInv, SendingSteps, WritingSteps, BeginAllocates
  <1>10. RowsInv'
    BY <1>2, <1>3, <1>4, EpochNat DEF IndInv, TypeOK, RowsInv, BeginAllocates
  <1>11. QED
    BY <1>1, <1>5, <1>6, <1>7, <1>8, <1>9, <1>10 DEF IndInv

\* Giving up at the bound changes nothing but the step.
LEMMA EpochBoundReachedInd ==
  ASSUME IndInv, NEW p \in Proc, EpochBoundReached(p)
  PROVE  IndInv'
  <1>1. TypeOK'
    BY DEF IndInv, TypeOK, Step, EpochBoundReached
  <1>2. LockInv' /\ StateInv' /\ StepInv'
    BY DEF IndInv, TypeOK, LockInv, StateInv, StepInv, EpochSteps, SendingSteps,
       WritingSteps, EpochBoundReached
  <1>3. UntouchedInv' /\ ChainInv'
    BY DEF IndInv, UntouchedInv, Untouched, ChainInv, DefiniteReceipt,
       EpochBoundReached
  <1>4. ApplyInv'
    BY DEF IndInv, TypeOK, ApplyInv, Untouched, SendingSteps, WritingSteps,
       EpochBoundReached
  <1>5. LineageInv'
    BY DEF IndInv, TypeOK, LineageInv, SendingSteps, WritingSteps, EpochBoundReached
  <1>6. RowsInv'
    BY DEF IndInv, TypeOK, RowsInv, EpochBoundReached
  <1>7. QED
    BY <1>1, <1>2, <1>3, <1>4, <1>5, <1>6 DEF IndInv

\* The phase moves with the step of the only running process.
LEMMA MarkQueryingInd ==
  ASSUME IndInv, NEW p \in Proc, MarkQuerying(p)
  PROVE  IndInv'
  <1>1. TypeOK'
    BY ConstantsAssumption DEF IndInv, TypeOK, Step, Phase, MarkQuerying,
       Transition, Written, Handler
  <1>2. LockInv' /\ StateInv' /\ StepInv'
    BY DEF IndInv, TypeOK, LockInv, StateInv, StepInv, EpochSteps, SendingSteps,
       WritingSteps, PhaseAt, MarkQuerying, Transition, Written, Handler
  <1>3. UntouchedInv' /\ ChainInv'
    BY DEF IndInv, UntouchedInv, Untouched, ChainInv, DefiniteReceipt, MarkQuerying,
       Transition
  <1>4. ApplyInv'
    BY DEF IndInv, TypeOK, ApplyInv, Untouched, SendingSteps, WritingSteps,
       MarkQuerying, Transition, Written, Handler
  <1>5. LineageInv'
    BY DEF IndInv, TypeOK, LineageInv, SendingSteps, WritingSteps, MarkQuerying,
       Transition, Written, Handler
  <1>6. RowsInv'
    BY DEF IndInv, TypeOK, RowsInv, MarkQuerying, Transition, Written, Handler
  <1>7. QED
    BY <1>1, <1>2, <1>3, <1>4, <1>5, <1>6 DEF IndInv

\* The evaluation starts with no rows of the epoch.
LEMMA BeginEvaluationInd ==
  ASSUME IndInv, NEW p \in Proc, BeginEvaluation(p)
  PROVE  IndInv'
  <1>1. TypeOK'
    BY ConstantsAssumption DEF IndInv, TypeOK, Step, Phase, BeginEvaluation,
       Transition, Written, Handler
  <1>2. LockInv' /\ StateInv' /\ StepInv'
    BY DEF IndInv, TypeOK, LockInv, StateInv, StepInv, EpochSteps, SendingSteps,
       WritingSteps, PhaseAt, BeginEvaluation, Transition, Written, Handler
  <1>3. UntouchedInv' /\ ChainInv'
    BY DEF IndInv, UntouchedInv, Untouched, ChainInv, DefiniteReceipt,
       BeginEvaluation, Transition
  <1>4. ApplyInv'
    BY DEF IndInv, TypeOK, ApplyInv, Untouched, SendingSteps, WritingSteps,
       BeginEvaluation, Transition, Written, Handler
  <1>5. LineageInv'
    BY DEF IndInv, TypeOK, LineageInv, SendingSteps, WritingSteps, BeginEvaluation,
       Transition, Written, Handler
  <1>6. RowsInv'
    BY DEF IndInv, TypeOK, RowsInv, LockInv, StateInv, BeginEvaluation, Transition,
       Written, Handler
  <1>7. QED
    BY <1>1, <1>2, <1>3, <1>4, <1>5, <1>6 DEF IndInv

\* The rows go from none to one evaluation, and the step after it never
\* appends again.
LEMMA AppendSubmissionsInd ==
  ASSUME IndInv, NEW p \in Proc, AppendSubmissions(p)
  PROVE  IndInv'
  <1>1. TypeOK'
    BY ConstantsAssumption DEF IndInv, TypeOK, StepInv, EpochSteps, SendingSteps,
       WritingSteps, Phase, Step, ChainMode, AttemptStatus, AppendSubmissions,
       Written, Handler
  <1>2. LockInv' /\ StateInv' /\ StepInv'
    BY DEF IndInv, TypeOK, LockInv, StateInv, StepInv, EpochSteps, SendingSteps,
       WritingSteps, PhaseAt, AppendSubmissions, Written, Handler
  <1>3. UntouchedInv' /\ ChainInv'
    BY DEF IndInv, UntouchedInv, Untouched, ChainInv, DefiniteReceipt,
       AppendSubmissions
  <1>4. ApplyInv'
    BY DEF IndInv, TypeOK, ApplyInv, Untouched, SendingSteps, WritingSteps,
       AppendSubmissions, Written, Handler
  <1>5. LineageInv'
    BY DEF IndInv, TypeOK, LineageInv, SendingSteps, WritingSteps,
       AppendSubmissions, Written, Handler
  <1>6. RowsInv'
    <2>1. pc[p] = "evaluate" /\ pc[p] \in EpochSteps
      BY DEF AppendSubmissions, EpochSteps
    <2>2. rowRuns[ep[p]] = 0
      BY <2>1 DEF IndInv, RowsInv
    <2>3. \A e \in Epoch : rowRuns'[e] = IF e = active THEN 1 ELSE rowRuns[e]
      BY <2>1, <2>2, OwnEpoch DEF IndInv, TypeOK, AppendSubmissions
    <2>4. phase' = "evaluating" /\ UNCHANGED <<nextEpoch, active, ep>>
      BY <2>1 DEF IndInv, StepInv, PhaseAt, AppendSubmissions, EpochSteps
    <2>5. \A q \in Proc : pc'[q] # "evaluate"
      BY <2>1, OwnEpoch DEF AppendSubmissions, Written, Handler, IndInv, TypeOK
    <2>6. \A e \in Epoch : rowRuns'[e] <= 1 /\ (e >= nextEpoch => rowRuns'[e] = 0)
      BY <2>1, <2>3, OwnEpoch, EpochNat DEF IndInv, TypeOK, RowsInv
    <2>7. QED
      BY <2>4, <2>5, <2>6 DEF RowsInv
  <1>7. QED
    BY <1>1, <1>2, <1>3, <1>4, <1>5, <1>6 DEF IndInv

\* The EMA read here is the rolling one, which is exactly the committed
\* epochs outside weights_submitting.
LEMMA ScoreEpochInd ==
  ASSUME IndInv, NEW p \in Proc, ScoreEpoch(p)
  PROVE  IndInv'
  <1>1. TypeOK'
    BY DEF IndInv, TypeOK, Step, ScoreEpoch
  <1>2. LockInv' /\ StateInv' /\ StepInv'
    BY DEF IndInv, TypeOK, LockInv, StateInv, StepInv, EpochSteps, SendingSteps,
       WritingSteps, PhaseAt, ScoreEpoch
  <1>3. UntouchedInv' /\ ChainInv'
    BY DEF IndInv, UntouchedInv, Untouched, ChainInv, DefiniteReceipt, ScoreEpoch
  <1>4. ApplyInv'
    BY DEF IndInv, TypeOK, ApplyInv, Untouched, SendingSteps, WritingSteps,
       ScoreEpoch
  <1>5. LineageInv'
    BY DEF IndInv, TypeOK, LineageInv, LockInv, StateInv, StepInv, EpochSteps,
       SendingSteps, WritingSteps, PhaseAt, ScoreEpoch
  <1>6. RowsInv'
    BY DEF IndInv, TypeOK, RowsInv, ScoreEpoch
  <1>7. QED
    BY <1>1, <1>2, <1>3, <1>4, <1>5, <1>6 DEF IndInv

\* The epoch enters weights_submitting with untouched chain files.
LEMMA BeginSubmittingInd ==
  ASSUME IndInv, NEW p \in Proc, BeginSubmitting(p)
  PROVE  IndInv'
  <1>1. TypeOK'
    BY ConstantsAssumption DEF IndInv, TypeOK, Step, Phase, BeginSubmitting,
       Transition, Written, Handler
  <1>2. LockInv' /\ StateInv' /\ StepInv'
    BY DEF IndInv, TypeOK, LockInv, StateInv, StepInv, EpochSteps, SendingSteps,
       WritingSteps, PhaseAt, BeginSubmitting, Transition, Written, Handler
  <1>3. UntouchedInv' /\ ChainInv'
    BY DEF IndInv, UntouchedInv, Untouched, ChainInv, DefiniteReceipt,
       BeginSubmitting, Transition
  <1>4. ApplyInv'
    BY DEF IndInv, TypeOK, ApplyInv, LockInv, StepInv, Untouched, UntouchedInv,
       EpochSteps, SendingSteps, WritingSteps, PhaseAt, BeginSubmitting, Transition,
       Written, Handler
  <1>5. LineageInv'
    BY ConstantsAssumption DEF IndInv, TypeOK, LineageInv, LockInv, StateInv,
       StepInv, ApplyInv, UntouchedInv, Untouched, EpochSteps, SendingSteps,
       WritingSteps, PhaseAt, BeginSubmitting, Transition, Written, Handler
  <1>6. RowsInv'
    BY DEF IndInv, TypeOK, RowsInv, BeginSubmitting, Transition, Written, Handler
  <1>7. QED
    BY <1>1, <1>2, <1>3, <1>4, <1>5, <1>6 DEF IndInv

\* No chain: only the result in memory changes.
LEMMA ApplyOfflineInd ==
  ASSUME IndInv, NEW p \in Proc, ApplyOffline(p)
  PROVE  IndInv'
  <1>1. TypeOK'
    BY ConstantsAssumption DEF IndInv, TypeOK, Step, ChainMode, ApplyOffline,
       Finished
  <1>2. LockInv' /\ StateInv' /\ StepInv'
    BY DEF IndInv, TypeOK, LockInv, StateInv, StepInv, EpochSteps, SendingSteps,
       WritingSteps, PhaseAt, ApplyOffline, Finished
  <1>3. UntouchedInv' /\ ChainInv'
    BY DEF IndInv, UntouchedInv, Untouched, ChainInv, DefiniteReceipt, ApplyOffline
  <1>4. ApplyInv'
    BY DEF IndInv, TypeOK, ApplyInv, Untouched, SendingSteps, WritingSteps,
       ApplyOffline, Finished
  <1>5. LineageInv'
    BY DEF IndInv, TypeOK, LineageInv, ApplyOffline
  <1>6. RowsInv'
    BY DEF IndInv, TypeOK, RowsInv, ApplyOffline
  <1>7. QED
    BY <1>1, <1>2, <1>3, <1>4, <1>5, <1>6 DEF IndInv

\* What apply_weights returns before the signing seam is a definite mode.
LEMMA ReceiptModesDefinite == ReceiptModes \subseteq {"skipped", "error", "dry_run"}
  BY DEF ReceiptModes, NothingToSubmit, ReadinessMode, GateMissing

\* A definite receipt is written for an epoch that has no attempt file.
LEMMA ApplyWithoutSubmittingInd ==
  ASSUME IndInv, NEW p \in Proc, ApplyWithoutSubmitting(p)
  PROVE  IndInv'
  <1>1. TypeOK'
    BY ConstantsAssumption, ReceiptModesDefinite DEF IndInv, TypeOK, StepInv, EpochSteps, SendingSteps,
       WritingSteps, Phase, Step, ChainMode, AttemptStatus, ApplyWithoutSubmitting,
       Finished, Written, Handler
  <1>2. LockInv' /\ StateInv' /\ StepInv'
    BY ReceiptModesDefinite DEF IndInv, TypeOK, LockInv, StateInv, StepInv, EpochSteps, SendingSteps,
       WritingSteps, PhaseAt, ApplyWithoutSubmitting, Finished,
       Written, Handler
  <1>3. UntouchedInv' /\ ChainInv'
    <2>1. pc[p] = "apply" /\ pc[p] \in EpochSteps
      BY DEF ApplyWithoutSubmitting, EpochSteps, WritingSteps
    <2>2. phase = "weights_submitting"
      BY <2>1 DEF IndInv, StepInv, PhaseAt
    <2>3. \A e \in Epoch : e # active => receipt'[e] = receipt[e]
      BY <2>1, OwnEpoch DEF ApplyWithoutSubmitting, IndInv, TypeOK
    <2>4. UNCHANGED <<nextEpoch, active, phase, calls, chainAttempt, markerMode, committed>>
      BY DEF ApplyWithoutSubmitting
    <2>5. UntouchedInv'
      BY <2>1, <2>2, <2>3, <2>4, OwnEpoch, EpochNat DEF IndInv, UntouchedInv, Untouched
    <2>6. Untouched(active)
      BY <2>1, OwnEpoch DEF IndInv, ApplyInv
    <2>7. ChainInv'
      BY <2>2, <2>3, <2>4, <2>6 DEF IndInv, ChainInv, Untouched, DefiniteReceipt
    <2>8. QED
      BY <2>5, <2>7
  <1>4. ApplyInv'
    BY ReceiptModesDefinite DEF IndInv, TypeOK, ApplyInv, LockInv, Untouched, SendingSteps, WritingSteps,
       ApplyWithoutSubmitting, Finished, Written, Handler
  <1>5. LineageInv'
    BY ReceiptModesDefinite DEF IndInv, TypeOK, LineageInv, SendingSteps, WritingSteps,
       ApplyWithoutSubmitting, Finished, Written, Handler
  <1>6. RowsInv'
    BY ReceiptModesDefinite DEF IndInv, TypeOK, RowsInv, ApplyWithoutSubmitting, Finished,
       Written, Handler
  <1>7. QED
    BY <1>1, <1>2, <1>3, <1>4, <1>5, <1>6 DEF IndInv

\* The attempt file is written for an epoch that has no receipt, before the
\* call.
LEMMA StartAttemptInd ==
  ASSUME IndInv, NEW p \in Proc, StartAttempt(p)
  PROVE  IndInv'
  <1>1. TypeOK'
    BY ConstantsAssumption DEF IndInv, TypeOK, StepInv, EpochSteps, SendingSteps,
       WritingSteps, Phase, Step, ChainMode, AttemptStatus, StartAttempt,
       WriteAttempt, Written, Handler
  <1>2. LockInv' /\ StateInv' /\ StepInv'
    BY DEF IndInv, TypeOK, LockInv, StateInv, StepInv, EpochSteps, SendingSteps,
       WritingSteps, PhaseAt, StartAttempt, WriteAttempt, Written, Handler
  <1>3. UntouchedInv' /\ ChainInv'
    <2>1. pc[p] = "apply" /\ pc[p] \in EpochSteps
      BY DEF StartAttempt, EpochSteps, WritingSteps
    <2>2. phase = "weights_submitting"
      BY <2>1 DEF IndInv, StepInv, PhaseAt
    <2>3. \A e \in Epoch : e # active => chainAttempt'[e] = chainAttempt[e]
      BY <2>1, OwnEpoch DEF StartAttempt, WriteAttempt, IndInv, TypeOK
    <2>4. UNCHANGED <<nextEpoch, active, phase, calls, receipt, markerMode, committed>>
      BY DEF StartAttempt
    <2>5. UntouchedInv'
      BY <2>1, <2>2, <2>3, <2>4, OwnEpoch, EpochNat DEF IndInv, UntouchedInv, Untouched
    <2>6. Untouched(active)
      BY <2>1, OwnEpoch DEF IndInv, ApplyInv
    <2>7. ChainInv'
      BY <2>2, <2>3, <2>4, <2>6 DEF IndInv, ChainInv, Untouched, DefiniteReceipt
    <2>8. QED
      BY <2>5, <2>7
  <1>4. ApplyInv'
    BY DEF IndInv, TypeOK, ApplyInv, LockInv, StepInv, Untouched, UntouchedInv,
       EpochSteps, SendingSteps, WritingSteps, PhaseAt, StartAttempt, WriteAttempt,
       Written, Handler
  <1>5. LineageInv'
    BY DEF IndInv, TypeOK, LineageInv, SendingSteps, WritingSteps, StartAttempt,
       WriteAttempt, Written, Handler
  <1>6. RowsInv'
    BY DEF IndInv, TypeOK, RowsInv, StartAttempt, WriteAttempt, Written, Handler
  <1>7. QED
    BY <1>1, <1>2, <1>3, <1>4, <1>5, <1>6 DEF IndInv

\* The call is made at most once: the step is reached only with no call
\* made.
LEMMA SetWeightsInd ==
  ASSUME IndInv, NEW p \in Proc, SetWeights(p)
  PROVE  IndInv'
  <1>1. TypeOK'
    BY ConstantsAssumption DEF IndInv, TypeOK, StepInv, EpochSteps, SendingSteps,
       WritingSteps, Phase, Step, ChainMode, AttemptStatus, SetWeights
  <1>2. LockInv' /\ StateInv' /\ StepInv'
    BY DEF IndInv, TypeOK, LockInv, StateInv, StepInv, EpochSteps, SendingSteps,
       WritingSteps, PhaseAt, SetWeights
  <1>3. UntouchedInv' /\ ChainInv'
    BY DEF IndInv, UntouchedInv, Untouched, ChainInv, DefiniteReceipt, TypeOK,
       StepInv, ApplyInv, EpochSteps, SendingSteps, WritingSteps, PhaseAt,
       SetWeights
  <1>4. ApplyInv'
    BY DEF IndInv, TypeOK, ApplyInv, LockInv, Untouched, SendingSteps, WritingSteps,
       SetWeights
  <1>5. LineageInv'
    BY DEF IndInv, TypeOK, LineageInv, SendingSteps, WritingSteps, SetWeights
  <1>6. RowsInv'
    BY DEF IndInv, TypeOK, RowsInv, SetWeights
  <1>7. QED
    BY <1>1, <1>2, <1>3, <1>4, <1>5, <1>6 DEF IndInv

\* The comparison changes nothing but the step.
LEMMA ReadBackInd ==
  ASSUME IndInv, NEW p \in Proc, ReadBack(p)
  PROVE  IndInv'
  <1>1. TypeOK'
    BY DEF IndInv, TypeOK, Step, ReadBack
  <1>2. LockInv' /\ StateInv' /\ StepInv'
    BY DEF IndInv, TypeOK, LockInv, StateInv, StepInv, EpochSteps, SendingSteps,
       WritingSteps, PhaseAt, ReadBack
  <1>3. UntouchedInv' /\ ChainInv'
    BY DEF IndInv, UntouchedInv, Untouched, ChainInv, DefiniteReceipt, ReadBack
  <1>4. ApplyInv'
    BY DEF IndInv, TypeOK, ApplyInv, Untouched, SendingSteps, WritingSteps, ReadBack
  <1>5. LineageInv'
    BY DEF IndInv, TypeOK, LineageInv, SendingSteps, WritingSteps, ReadBack
  <1>6. RowsInv'
    BY DEF IndInv, TypeOK, RowsInv, ReadBack
  <1>7. QED
    BY <1>1, <1>2, <1>3, <1>4, <1>5, <1>6 DEF IndInv

\* The receipt written under an attempt is never a definite one.
LEMMA WriteSubmittedReceiptInd ==
  ASSUME IndInv, NEW p \in Proc, WriteSubmittedReceipt(p)
  PROVE  IndInv'
  <1>1. TypeOK'
    BY ConstantsAssumption DEF IndInv, TypeOK, StepInv, EpochSteps, SendingSteps,
       WritingSteps, Phase, Step, ChainMode, AttemptStatus, WriteSubmittedReceipt,
       Written, Handler
  <1>2. LockInv' /\ StateInv' /\ StepInv'
    BY DEF IndInv, TypeOK, LockInv, StateInv, StepInv, EpochSteps, SendingSteps,
       WritingSteps, PhaseAt, WriteSubmittedReceipt, Written, Handler
  <1>3. UntouchedInv' /\ ChainInv'
    BY DEF IndInv, UntouchedInv, Untouched, ChainInv, DefiniteReceipt, TypeOK,
       StepInv, ApplyInv, EpochSteps, SendingSteps, WritingSteps, PhaseAt,
       WriteSubmittedReceipt
  <1>4. ApplyInv'
    BY DEF IndInv, TypeOK, ApplyInv, Untouched, SendingSteps, WritingSteps,
       WriteSubmittedReceipt, Written, Handler
  <1>5. LineageInv'
    BY DEF IndInv, TypeOK, LineageInv, SendingSteps, WritingSteps,
       WriteSubmittedReceipt, Written, Handler
  <1>6. RowsInv'
    BY DEF IndInv, TypeOK, RowsInv, WriteSubmittedReceipt, Written, Handler
  <1>7. QED
    BY <1>1, <1>2, <1>3, <1>4, <1>5, <1>6 DEF IndInv

\* A completed attempt is still an attempt.
LEMMA CompleteAttemptInd ==
  ASSUME IndInv, NEW p \in Proc, CompleteAttempt(p)
  PROVE  IndInv'
  <1>1. TypeOK'
    BY ConstantsAssumption DEF IndInv, TypeOK, StepInv, EpochSteps, SendingSteps,
       WritingSteps, Phase, Step, ChainMode, AttemptStatus, CompleteAttempt,
       WriteAttempt, Finished, Written, Handler
  <1>2. LockInv' /\ StateInv' /\ StepInv'
    BY DEF IndInv, TypeOK, LockInv, StateInv, StepInv, EpochSteps, SendingSteps,
       WritingSteps, PhaseAt, CompleteAttempt, WriteAttempt, Finished, Written,
       Handler
  <1>3. UntouchedInv' /\ ChainInv'
    BY DEF IndInv, UntouchedInv, Untouched, ChainInv, DefiniteReceipt, TypeOK,
       StepInv, ApplyInv, EpochSteps, SendingSteps, WritingSteps, PhaseAt,
       CompleteAttempt, WriteAttempt
  <1>4. ApplyInv'
    BY DEF IndInv, TypeOK, ApplyInv, Untouched, SendingSteps, WritingSteps,
       CompleteAttempt, WriteAttempt, Finished, Written, Handler
  <1>5. LineageInv'
    BY DEF IndInv, TypeOK, LineageInv, SendingSteps, WritingSteps, CompleteAttempt,
       WriteAttempt, Finished, Written, Handler
  <1>6. RowsInv'
    BY DEF IndInv, TypeOK, RowsInv, CompleteAttempt, WriteAttempt, Finished,
       Written, Handler
  <1>7. QED
    BY <1>1, <1>2, <1>3, <1>4, <1>5, <1>6 DEF IndInv

\* The attempt stays on record, so the epoch stays blocked.
LEMMA MarkAmbiguousInd ==
  ASSUME IndInv, NEW p \in Proc, MarkAmbiguous(p)
  PROVE  IndInv'
  <1>1. TypeOK'
    BY ConstantsAssumption DEF IndInv, TypeOK, Step, AttemptStatus, MarkAmbiguous,
       WriteAttempt
  <1>2. LockInv' /\ StateInv' /\ StepInv'
    BY DEF IndInv, TypeOK, LockInv, StateInv, StepInv, EpochSteps, SendingSteps,
       WritingSteps, MarkAmbiguous, WriteAttempt
  <1>3. UntouchedInv' /\ ChainInv'
    BY DEF IndInv, UntouchedInv, Untouched, ChainInv, DefiniteReceipt, TypeOK,
       StepInv, ApplyInv, EpochSteps, SendingSteps, WritingSteps, PhaseAt,
       MarkAmbiguous, WriteAttempt
  <1>4. ApplyInv'
    BY DEF IndInv, TypeOK, ApplyInv, Untouched, SendingSteps, WritingSteps,
       MarkAmbiguous, WriteAttempt
  <1>5. LineageInv'
    BY DEF IndInv, TypeOK, LineageInv, SendingSteps, WritingSteps, MarkAmbiguous,
       WriteAttempt
  <1>6. RowsInv'
    BY DEF IndInv, TypeOK, RowsInv, MarkAmbiguous, WriteAttempt
  <1>7. QED
    BY <1>1, <1>2, <1>3, <1>4, <1>5, <1>6 DEF IndInv

\* The snapshot is the committed lineage and the epoch itself.
LEMMA SaveMinerStateInd ==
  ASSUME IndInv, NEW p \in Proc, SaveMinerState(p)
  PROVE  IndInv'
  <1>1. TypeOK'
    BY ConstantsAssumption DEF IndInv, TypeOK, StepInv, EpochSteps, SendingSteps,
       WritingSteps, Phase, Step, ChainMode, AttemptStatus, SaveMinerState, Written,
       Handler
  <1>2. LockInv' /\ StateInv' /\ StepInv'
    BY DEF IndInv, TypeOK, LockInv, StateInv, StepInv, EpochSteps, SendingSteps,
       WritingSteps, PhaseAt, SaveMinerState, Written, Handler
  <1>3. UntouchedInv' /\ ChainInv'
    BY DEF IndInv, UntouchedInv, Untouched, ChainInv, DefiniteReceipt,
       SaveMinerState
  <1>4. ApplyInv'
    BY DEF IndInv, TypeOK, ApplyInv, Untouched, SendingSteps, WritingSteps,
       SaveMinerState, Written, Handler
  <1>5. LineageInv'
    BY DEF IndInv, TypeOK, LineageInv, LockInv, StateInv, StepInv, EpochSteps,
       SendingSteps, WritingSteps, PhaseAt, SaveMinerState, Written, Handler
  <1>6. RowsInv'
    BY DEF IndInv, TypeOK, RowsInv, SaveMinerState, Written, Handler
  <1>7. QED
    BY <1>1, <1>2, <1>3, <1>4, <1>5, <1>6 DEF IndInv

\* The sidecar is not part of the invariant.
LEMMA PersistPanelSidecarInd ==
  ASSUME IndInv, NEW p \in Proc, PersistPanelSidecar(p)
  PROVE  IndInv'
  <1>1. TypeOK'
    BY ConstantsAssumption DEF IndInv, TypeOK, StepInv, EpochSteps, SendingSteps,
       WritingSteps, Phase, Step, ChainMode, AttemptStatus, PersistPanelSidecar,
       Written, Handler
  <1>2. LockInv' /\ StateInv' /\ StepInv'
    BY DEF IndInv, TypeOK, LockInv, StateInv, StepInv, EpochSteps, SendingSteps,
       WritingSteps, PhaseAt, PersistPanelSidecar, Written, Handler
  <1>3. UntouchedInv' /\ ChainInv'
    BY DEF IndInv, UntouchedInv, Untouched, ChainInv, DefiniteReceipt,
       PersistPanelSidecar
  <1>4. ApplyInv'
    BY DEF IndInv, TypeOK, ApplyInv, Untouched, SendingSteps, WritingSteps,
       PersistPanelSidecar, Written, Handler
  <1>5. LineageInv'
    BY DEF IndInv, TypeOK, LineageInv, SendingSteps, WritingSteps,
       PersistPanelSidecar, Written, Handler
  <1>6. RowsInv'
    BY DEF IndInv, TypeOK, RowsInv, PersistPanelSidecar, Written, Handler
  <1>7. QED
    BY <1>1, <1>2, <1>3, <1>4, <1>5, <1>6 DEF IndInv

\* The weights artifact is not part of the invariant.
LEMMA WriteWeightsArtifactInd ==
  ASSUME IndInv, NEW p \in Proc, WriteWeightsArtifact(p)
  PROVE  IndInv'
  <1>1. TypeOK'
    BY ConstantsAssumption DEF IndInv, TypeOK, StepInv, EpochSteps, SendingSteps,
       WritingSteps, Phase, Step, ChainMode, AttemptStatus, WriteWeightsArtifact,
       Written, Handler
  <1>2. LockInv' /\ StateInv' /\ StepInv'
    BY DEF IndInv, TypeOK, LockInv, StateInv, StepInv, EpochSteps, SendingSteps,
       WritingSteps, PhaseAt, WriteWeightsArtifact, Written, Handler
  <1>3. UntouchedInv' /\ ChainInv'
    BY DEF IndInv, UntouchedInv, Untouched, ChainInv, DefiniteReceipt,
       WriteWeightsArtifact
  <1>4. ApplyInv'
    BY DEF IndInv, TypeOK, ApplyInv, Untouched, SendingSteps, WritingSteps,
       WriteWeightsArtifact, Written, Handler
  <1>5. LineageInv'
    BY DEF IndInv, TypeOK, LineageInv, SendingSteps, WritingSteps,
       WriteWeightsArtifact, Written, Handler
  <1>6. RowsInv'
    BY DEF IndInv, TypeOK, RowsInv, WriteWeightsArtifact, Written, Handler
  <1>7. QED
    BY <1>1, <1>2, <1>3, <1>4, <1>5, <1>6 DEF IndInv

\* The marker hashes the snapshot of the committed lineage and the epoch.
LEMMA WriteCompletionMarkerInd ==
  ASSUME IndInv, NEW p \in Proc, WriteCompletionMarker(p)
  PROVE  IndInv'
  <1>1. TypeOK'
    BY ConstantsAssumption DEF IndInv, TypeOK, StepInv, EpochSteps, SendingSteps,
       WritingSteps, Phase, Step, ChainMode, AttemptStatus, WriteCompletionMarker,
       Written, Handler
  <1>2. LockInv' /\ StateInv' /\ StepInv'
    BY DEF IndInv, TypeOK, LockInv, StateInv, StepInv, EpochSteps, SendingSteps,
       WritingSteps, PhaseAt, WriteCompletionMarker, Written, Handler
  <1>3. UntouchedInv' /\ ChainInv'
    <2>1. pc[p] = "marker" /\ pc[p] \in EpochSteps
      BY DEF WriteCompletionMarker, EpochSteps, WritingSteps
    <2>2. phase = "weights_submitting"
      BY <2>1 DEF IndInv, StepInv, PhaseAt
    <2>3. \A e \in Epoch : e # active => markerMode'[e] = markerMode[e]
      BY <2>1, OwnEpoch DEF WriteCompletionMarker, IndInv, TypeOK
    <2>4. UNCHANGED <<nextEpoch, active, phase, calls, chainAttempt, receipt, committed>>
      BY DEF WriteCompletionMarker
    <2>5. UntouchedInv'
      BY <2>1, <2>2, <2>3, <2>4, OwnEpoch, EpochNat DEF IndInv, UntouchedInv, Untouched
    <2>7. ChainInv'
      BY <2>4 DEF IndInv, ChainInv, DefiniteReceipt
    <2>8. QED
      BY <2>5, <2>7
  <1>4. ApplyInv'
    BY DEF IndInv, TypeOK, ApplyInv, LockInv, Untouched, SendingSteps, WritingSteps,
       WriteCompletionMarker, Written, Handler
  <1>5. LineageInv'
    BY ConstantsAssumption DEF IndInv, TypeOK, LineageInv, LockInv, StateInv,
       StepInv, ApplyInv, UntouchedInv, Untouched, EpochSteps, SendingSteps,
       WritingSteps, PhaseAt, WriteCompletionMarker, Written, Handler
  <1>6. RowsInv'
    BY DEF IndInv, TypeOK, RowsInv, WriteCompletionMarker, Written, Handler
  <1>7. QED
    BY <1>1, <1>2, <1>3, <1>4, <1>5, <1>6 DEF IndInv

\* The rolling EMA is published only with the marker in place.
LEMMA PublishRollingInd ==
  ASSUME IndInv, NEW p \in Proc, PublishRolling(p)
  PROVE  IndInv'
  <1>1. TypeOK'
    BY ConstantsAssumption DEF IndInv, TypeOK, Step, PublishRolling,
       VerifyEpochCompletion, Written, Handler
  <1>2. LockInv' /\ StateInv' /\ StepInv'
    BY DEF IndInv, TypeOK, LockInv, StateInv, StepInv, EpochSteps, SendingSteps,
       WritingSteps, PhaseAt, PublishRolling, VerifyEpochCompletion, Written,
       Handler
  <1>3. UntouchedInv' /\ ChainInv'
    BY DEF IndInv, UntouchedInv, Untouched, ChainInv, DefiniteReceipt,
       PublishRolling, VerifyEpochCompletion
  <1>4. ApplyInv'
    BY DEF IndInv, TypeOK, ApplyInv, Untouched, SendingSteps, WritingSteps,
       PublishRolling, VerifyEpochCompletion, Written, Handler
  <1>5. LineageInv'
    BY DEF IndInv, TypeOK, LineageInv, LockInv, StateInv, StepInv, EpochSteps,
       SendingSteps, WritingSteps, PhaseAt, PublishRolling, VerifyEpochCompletion,
       Written, Handler
  <1>6. RowsInv'
    BY DEF IndInv, TypeOK, RowsInv, PublishRolling, VerifyEpochCompletion, Written,
       Handler
  <1>7. QED
    BY <1>1, <1>2, <1>3, <1>4, <1>5, <1>6 DEF IndInv

\* The EMA is written from a snapshot that equals what the marker hashed.
LEMMA CommitRollingInd ==
  ASSUME IndInv, NEW p \in Proc, CommitRolling(p)
  PROVE  IndInv'
  <1>1. TypeOK'
    BY ConstantsAssumption DEF IndInv, TypeOK, StepInv, EpochSteps, SendingSteps,
       WritingSteps, Phase, Step, ChainMode, AttemptStatus, CommitRolling,
       CanCommit, VerifyEpochCompletion, Written, Handler
  <1>2. LockInv' /\ StateInv' /\ StepInv'
    BY DEF IndInv, TypeOK, LockInv, StateInv, StepInv, EpochSteps, SendingSteps,
       WritingSteps, PhaseAt, CommitRolling, CanCommit, VerifyEpochCompletion,
       Written, Handler
  <1>3. UntouchedInv' /\ ChainInv'
    BY DEF IndInv, UntouchedInv, Untouched, ChainInv, DefiniteReceipt,
       CommitRolling, CanCommit, VerifyEpochCompletion
  <1>4. ApplyInv'
    BY DEF IndInv, TypeOK, ApplyInv, Untouched, SendingSteps, WritingSteps,
       CommitRolling, CanCommit, VerifyEpochCompletion, Written, Handler
  <1>5. LineageInv'
    BY DEF IndInv, TypeOK, LineageInv, LockInv, SendingSteps, WritingSteps,
       CommitRolling, CanCommit, VerifyEpochCompletion, Written, Handler
  <1>6. RowsInv'
    BY DEF IndInv, TypeOK, RowsInv, CommitRolling, CanCommit, VerifyEpochCompletion,
       Written, Handler
  <1>7. QED
    BY <1>1, <1>2, <1>3, <1>4, <1>5, <1>6 DEF IndInv

\* The epoch becomes committed when the rolling EMA already contains it.
LEMMA CommitStateInd ==
  ASSUME IndInv, NEW p \in Proc, CommitState(p)
  PROVE  IndInv'
  <1>1. TypeOK'
    BY ConstantsAssumption DEF IndInv, TypeOK, StepInv, EpochSteps, SendingSteps,
       WritingSteps, Phase, Step, ChainMode, AttemptStatus, CommitState,
       WriteCommitted, Written, Handler
  <1>2. LockInv' /\ StateInv' /\ StepInv'
    <2>1. pc[p] = "commit_state" /\ pc[p] \in EpochSteps
      BY DEF CommitState, EpochSteps
    <2>2. LockInv' /\ StepInv'
      BY <2>1, OwnEpoch DEF CommitState, WriteCommitted, Written, Handler, IndInv, TypeOK,
         LockInv, StepInv, EpochSteps, SendingSteps, WritingSteps
    <2>3. StateInv'
      BY <2>1, OwnEpoch, EpochNat DEF CommitState, WriteCommitted, IndInv, TypeOK, StateInv
    <2>4. QED
      BY <2>2, <2>3
  <1>3. UntouchedInv' /\ ChainInv'
    BY DEF IndInv, UntouchedInv, Untouched, ChainInv, DefiniteReceipt, TypeOK,
       StepInv, ApplyInv, EpochSteps, SendingSteps, WritingSteps, PhaseAt,
       CommitState, WriteCommitted
  <1>4. ApplyInv'
    BY DEF IndInv, TypeOK, ApplyInv, Untouched, SendingSteps, WritingSteps,
       CommitState, WriteCommitted, Written, Handler
  <1>5. LineageInv'
    BY DEF IndInv, TypeOK, LineageInv, LockInv, SendingSteps, WritingSteps,
       CommitState, WriteCommitted, Written, Handler
  <1>6. RowsInv'
    BY DEF IndInv, TypeOK, RowsInv, CommitState, WriteCommitted, Written, Handler
  <1>7. QED
    BY <1>1, <1>2, <1>3, <1>4, <1>5, <1>6 DEF IndInv

\* A failed verification changes nothing but the step.
LEMMA VerificationFailsInd ==
  ASSUME IndInv, NEW p \in Proc, VerificationFails(p)
  PROVE  IndInv'
  <1>1. TypeOK'
    BY DEF IndInv, TypeOK, Step, VerificationFails
  <1>2. LockInv' /\ StateInv' /\ StepInv'
    BY DEF IndInv, TypeOK, LockInv, StateInv, StepInv, EpochSteps, SendingSteps,
       WritingSteps, VerificationFails
  <1>3. UntouchedInv' /\ ChainInv'
    BY DEF IndInv, UntouchedInv, Untouched, ChainInv, DefiniteReceipt,
       VerificationFails
  <1>4. ApplyInv'
    BY DEF IndInv, TypeOK, ApplyInv, Untouched, SendingSteps, WritingSteps,
       VerificationFails
  <1>5. LineageInv'
    BY DEF IndInv, TypeOK, LineageInv, SendingSteps, WritingSteps, VerificationFails
  <1>6. RowsInv'
    BY DEF IndInv, TypeOK, RowsInv, VerificationFails
  <1>7. QED
    BY <1>1, <1>2, <1>3, <1>4, <1>5, <1>6 DEF IndInv

\* A refused recovery changes nothing but the step.
LEMMA RecoverRefusedInd ==
  ASSUME IndInv, NEW p \in Proc, RecoverRefused(p)
  PROVE  IndInv'
  <1>1. TypeOK'
    BY DEF IndInv, TypeOK, Step, RecoverRefused
  <1>2. LockInv' /\ StateInv' /\ StepInv'
    BY DEF IndInv, TypeOK, LockInv, StateInv, StepInv, EpochSteps, SendingSteps,
       WritingSteps, RecoverRefused
  <1>3. UntouchedInv' /\ ChainInv'
    BY DEF IndInv, UntouchedInv, Untouched, ChainInv, DefiniteReceipt,
       RecoverRefused
  <1>4. ApplyInv'
    BY DEF IndInv, TypeOK, ApplyInv, Untouched, SendingSteps, WritingSteps,
       RecoverRefused
  <1>5. LineageInv'
    BY DEF IndInv, TypeOK, LineageInv, SendingSteps, WritingSteps, RecoverRefused
  <1>6. RowsInv'
    BY DEF IndInv, TypeOK, RowsInv, RecoverRefused
  <1>7. QED
    BY <1>1, <1>2, <1>3, <1>4, <1>5, <1>6 DEF IndInv

\* The recovered EMA is the snapshot that equals what the marker hashed.
LEMMA RecoverRollingInd ==
  ASSUME IndInv, NEW p \in Proc, RecoverRolling(p)
  PROVE  IndInv'
  <1>1. TypeOK'
    <2>1. active \in Epoch
      BY DEF RecoverRolling, Recoverable, IndInv, TypeOK, StateInv
    <2>2. rolling' \in SUBSET (Epoch \cup {None})
      BY <2>1 DEF RecoverRolling, IndInv, TypeOK
    <2>3. faults' \in 0..MaxFaults /\ pc' \in [Proc -> Step]
      BY ConstantsAssumption DEF RecoverRolling, Written, Handler, Step, IndInv, TypeOK
    <2>4. QED
      BY <2>1, <2>2, <2>3 DEF RecoverRolling, IndInv, TypeOK
  <1>2. LockInv' /\ StateInv' /\ StepInv'
    BY DEF IndInv, TypeOK, LockInv, StateInv, StepInv, EpochSteps, SendingSteps,
       WritingSteps, PhaseAt, RecoverRolling, Recoverable, CanCommit,
       VerifyEpochCompletion, Written, Handler
  <1>3. UntouchedInv' /\ ChainInv'
    BY DEF IndInv, UntouchedInv, Untouched, ChainInv, DefiniteReceipt,
       RecoverRolling, Recoverable, CanCommit, VerifyEpochCompletion
  <1>4. ApplyInv'
    BY DEF IndInv, TypeOK, ApplyInv, Untouched, SendingSteps, WritingSteps,
       RecoverRolling, Recoverable, CanCommit, VerifyEpochCompletion, Written,
       Handler
  <1>5. LineageInv'
    BY DEF IndInv, TypeOK, LineageInv, LockInv, SendingSteps, WritingSteps,
       RecoverRolling, Recoverable, CanCommit, VerifyEpochCompletion, Written,
       Handler
  <1>6. RowsInv'
    BY DEF IndInv, TypeOK, RowsInv, RecoverRolling, Recoverable, CanCommit,
       VerifyEpochCompletion, Written, Handler
  <1>7. QED
    BY <1>1, <1>2, <1>3, <1>4, <1>5, <1>6 DEF IndInv

\* As CommitState, for the recovering process.
LEMMA RecoverStateInd ==
  ASSUME IndInv, NEW p \in Proc, RecoverState(p)
  PROVE  IndInv'
  <1>1. TypeOK'
    BY ConstantsAssumption DEF IndInv, TypeOK, StepInv, EpochSteps, SendingSteps,
       WritingSteps, Phase, Step, ChainMode, AttemptStatus, RecoverState,
       WriteCommitted, Written, Handler
  <1>2. LockInv' /\ StateInv' /\ StepInv'
    <2>1. pc[p] = "recover_state" /\ pc[p] \in EpochSteps
      BY DEF RecoverState, EpochSteps
    <2>2. LockInv' /\ StepInv'
      BY <2>1, OwnEpoch DEF RecoverState, WriteCommitted, Written, Handler, IndInv, TypeOK,
         LockInv, StepInv, EpochSteps, SendingSteps, WritingSteps
    <2>3. StateInv'
      BY <2>1, OwnEpoch, EpochNat DEF RecoverState, WriteCommitted, IndInv, TypeOK, StateInv
    <2>4. QED
      BY <2>2, <2>3
  <1>3. UntouchedInv' /\ ChainInv'
    BY DEF IndInv, UntouchedInv, Untouched, ChainInv, DefiniteReceipt, TypeOK,
       StepInv, ApplyInv, EpochSteps, SendingSteps, WritingSteps, PhaseAt,
       RecoverState, WriteCommitted
  <1>4. ApplyInv'
    BY DEF IndInv, TypeOK, ApplyInv, Untouched, SendingSteps, WritingSteps,
       RecoverState, WriteCommitted, Written, Handler
  <1>5. LineageInv'
    BY DEF IndInv, TypeOK, LineageInv, LockInv, SendingSteps, WritingSteps,
       RecoverState, WriteCommitted, Written, Handler
  <1>6. RowsInv'
    BY DEF IndInv, TypeOK, RowsInv, RecoverState, WriteCommitted, Written, Handler
  <1>7. QED
    BY <1>1, <1>2, <1>3, <1>4, <1>5, <1>6 DEF IndInv

\* An evaluation that is failed has untouched chain files.
LEMMA ExitFailsEvaluationInd ==
  ASSUME IndInv, NEW p \in Proc, ExitFailsEvaluation(p)
  PROVE  IndInv'
  <1>1. TypeOK'
    BY ConstantsAssumption DEF IndInv, TypeOK, Step, Phase, ExitFailsEvaluation,
       EvaluationOpen, Gone
  <1>2. LockInv' /\ StateInv' /\ StepInv'
    BY DEF IndInv, TypeOK, LockInv, StateInv, StepInv, EpochSteps, SendingSteps,
       WritingSteps, ExitFailsEvaluation, EvaluationOpen, Gone
  <1>3. UntouchedInv' /\ ChainInv'
    BY DEF IndInv, UntouchedInv, Untouched, ChainInv, DefiniteReceipt,
       ExitFailsEvaluation, EvaluationOpen, Gone
  <1>4. ApplyInv'
    BY DEF IndInv, TypeOK, ApplyInv, Untouched, SendingSteps, WritingSteps,
       ExitFailsEvaluation, EvaluationOpen, Gone
  <1>5. LineageInv'
    BY DEF IndInv, TypeOK, LineageInv, SendingSteps, WritingSteps,
       ExitFailsEvaluation, EvaluationOpen, Gone
  <1>6. RowsInv'
    BY DEF IndInv, TypeOK, RowsInv, ExitFailsEvaluation, EvaluationOpen, Gone
  <1>7. QED
    BY <1>1, <1>2, <1>3, <1>4, <1>5, <1>6 DEF IndInv

\* Leaving changes no file.
LEMMA ExitTickInd ==
  ASSUME IndInv, NEW p \in Proc, ExitTick(p)
  PROVE  IndInv'
  <1>1. TypeOK'
    BY ConstantsAssumption DEF IndInv, TypeOK, Step, ExitTick, EvaluationOpen, Gone
  <1>2. LockInv' /\ StateInv' /\ StepInv'
    BY DEF IndInv, TypeOK, LockInv, StateInv, StepInv, EpochSteps, SendingSteps,
       WritingSteps, ExitTick, EvaluationOpen, Gone
  <1>3. UntouchedInv' /\ ChainInv'
    BY DEF IndInv, UntouchedInv, Untouched, ChainInv, DefiniteReceipt, ExitTick,
       EvaluationOpen, Gone
  <1>4. ApplyInv'
    BY DEF IndInv, TypeOK, ApplyInv, Untouched, SendingSteps, WritingSteps,
       ExitTick, EvaluationOpen, Gone
  <1>5. LineageInv'
    BY DEF IndInv, TypeOK, LineageInv, SendingSteps, WritingSteps, ExitTick,
       EvaluationOpen, Gone
  <1>6. RowsInv'
    BY DEF IndInv, TypeOK, RowsInv, ExitTick, EvaluationOpen, Gone
  <1>7. QED
    BY <1>1, <1>2, <1>3, <1>4, <1>5, <1>6 DEF IndInv

\* Leaving changes no file.
LEMMA ReleaseLockInd ==
  ASSUME IndInv, NEW p \in Proc, ReleaseLock(p)
  PROVE  IndInv'
  <1>1. TypeOK'
    BY DEF IndInv, TypeOK, Step, ReleaseLock, Gone
  <1>2. LockInv' /\ StateInv' /\ StepInv'
    BY DEF IndInv, TypeOK, LockInv, StateInv, StepInv, EpochSteps, SendingSteps,
       WritingSteps, ReleaseLock, Gone
  <1>3. UntouchedInv' /\ ChainInv'
    BY DEF IndInv, UntouchedInv, Untouched, ChainInv, DefiniteReceipt, ReleaseLock,
       Gone
  <1>4. ApplyInv'
    BY DEF IndInv, TypeOK, ApplyInv, Untouched, SendingSteps, WritingSteps,
       ReleaseLock, Gone
  <1>5. LineageInv'
    BY DEF IndInv, TypeOK, LineageInv, SendingSteps, WritingSteps, ReleaseLock, Gone
  <1>6. RowsInv'
    BY DEF IndInv, TypeOK, RowsInv, ReleaseLock, Gone
  <1>7. QED
    BY <1>1, <1>2, <1>3, <1>4, <1>5, <1>6 DEF IndInv

\* The handler of a step that may have sent weights keeps the attempt on
\* record.
LEMMA RaiseInd ==
  ASSUME IndInv, NEW p \in Proc, Raise(p)
  PROVE  IndInv'
  <1>1. TypeOK'
    BY ConstantsAssumption DEF IndInv, TypeOK, Step, Raise, Handler
  <1>2. LockInv' /\ StateInv' /\ StepInv'
    BY DEF IndInv, TypeOK, LockInv, StateInv, StepInv, EpochSteps, SendingSteps,
       WritingSteps, PhaseAt, Raise, Handler
  <1>3. UntouchedInv' /\ ChainInv'
    BY DEF IndInv, UntouchedInv, Untouched, ChainInv, DefiniteReceipt, Raise
  <1>4. ApplyInv'
    BY DEF IndInv, TypeOK, ApplyInv, Untouched, SendingSteps, WritingSteps, Raise,
       Handler
  <1>5. LineageInv'
    BY DEF IndInv, TypeOK, LineageInv, SendingSteps, WritingSteps, Raise, Handler
  <1>6. RowsInv'
    BY DEF IndInv, TypeOK, RowsInv, Raise, Handler
  <1>7. QED
    BY <1>1, <1>2, <1>3, <1>4, <1>5, <1>6 DEF IndInv

\* A killed process leaves every file as it is.
LEMMA CrashInd ==
  ASSUME IndInv, NEW p \in Proc, Crash(p)
  PROVE  IndInv'
  <1>1. TypeOK'
    BY ConstantsAssumption DEF IndInv, TypeOK, Step, Crash, Gone
  <1>2. LockInv' /\ StateInv' /\ StepInv'
    BY DEF IndInv, TypeOK, LockInv, StateInv, StepInv, EpochSteps, SendingSteps,
       WritingSteps, Crash, Gone
  <1>3. UntouchedInv' /\ ChainInv'
    BY DEF IndInv, UntouchedInv, Untouched, ChainInv, DefiniteReceipt, Crash, Gone
  <1>4. ApplyInv'
    BY DEF IndInv, TypeOK, ApplyInv, Untouched, SendingSteps, WritingSteps, Crash,
       Gone
  <1>5. LineageInv'
    BY DEF IndInv, TypeOK, LineageInv, SendingSteps, WritingSteps, Crash, Gone
  <1>6. RowsInv'
    BY DEF IndInv, TypeOK, RowsInv, Crash, Gone
  <1>7. QED
    BY <1>1, <1>2, <1>3, <1>4, <1>5, <1>6 DEF IndInv

\* The chain's own steps touch no file.
LEMMA IncludeLateInd ==
  ASSUME IndInv, NEW e \in Epoch, IncludeLate(e)
  PROVE  IndInv'
  <1>1. TypeOK'
    BY DEF IndInv, TypeOK, IncludeLate
  <1>2. LockInv' /\ StateInv' /\ StepInv'
    BY DEF IndInv, TypeOK, LockInv, StateInv, StepInv, IncludeLate
  <1>3. UntouchedInv' /\ ChainInv'
    BY DEF IndInv, UntouchedInv, Untouched, ChainInv, DefiniteReceipt, IncludeLate
  <1>4. ApplyInv'
    BY DEF IndInv, TypeOK, ApplyInv, Untouched, IncludeLate
  <1>5. LineageInv'
    BY DEF IndInv, TypeOK, LineageInv, IncludeLate
  <1>6. RowsInv'
    BY DEF IndInv, TypeOK, RowsInv, IncludeLate
  <1>7. QED
    BY <1>1, <1>2, <1>3, <1>4, <1>5, <1>6 DEF IndInv

\* Damage comes after the marker hashed the snapshot, so the steps that rely
\* on the snapshot are past.
LEMMA DamageSnapshotInd ==
  ASSUME IndInv, NEW e \in Epoch, DamageSnapshot(e)
  PROVE  IndInv'
  <1>1. TypeOK'
    BY DEF IndInv, TypeOK, DamageSnapshot
  <1>2. LockInv' /\ StateInv' /\ StepInv'
    BY DEF IndInv, TypeOK, LockInv, StateInv, StepInv, DamageSnapshot
  <1>3. UntouchedInv' /\ ChainInv'
    BY DEF IndInv, UntouchedInv, Untouched, ChainInv, DefiniteReceipt,
       DamageSnapshot
  <1>4. ApplyInv'
    BY DEF IndInv, TypeOK, ApplyInv, Untouched, DamageSnapshot
  <1>5. LineageInv'
    BY ConstantsAssumption DEF IndInv, TypeOK, LineageInv, LockInv, StateInv,
       StepInv, ApplyInv, UntouchedInv, Untouched, EpochSteps, SendingSteps,
       WritingSteps, PhaseAt, DamageSnapshot
  <1>6. RowsInv'
    BY DEF IndInv, TypeOK, RowsInv, DamageSnapshot
  <1>7. QED
    BY <1>1, <1>2, <1>3, <1>4, <1>5, <1>6 DEF IndInv

-----------------------------------------------------------------------------
\* Every step of the system preserves the invariant.
LEMMA StepInd == IndInv /\ [Next]_vars => IndInv'
  <1>1. SUFFICES ASSUME IndInv, [Next]_vars PROVE IndInv'
    OBVIOUS
  <1>2. CASE UNCHANGED vars
    <2>1. TypeOK'
      BY <1>1, <1>2 DEF IndInv, TypeOK, vars
    <2>2. LockInv' /\ StateInv' /\ StepInv' /\ RowsInv'
      BY <1>1, <1>2 DEF IndInv, LockInv, StateInv, StepInv, RowsInv, vars
    <2>3. UntouchedInv' /\ ChainInv' /\ ApplyInv'
      BY <1>1, <1>2 DEF IndInv, UntouchedInv, Untouched, ChainInv, DefiniteReceipt, ApplyInv, vars
    <2>4. LineageInv'
      BY <1>1, <1>2 DEF IndInv, LineageInv, vars
    <2>5. QED
      BY <2>1, <2>2, <2>3, <2>4 DEF IndInv
  <1>3. ASSUME NEW p \in Proc, ProcessNext(p) PROVE IndInv'
    <2>1. CASE TickStep(p)
      BY <1>1, <2>1, BeginRefusedInd, BeginAbandonsInd, BeginRetriesInd,
         BeginAllocatesInd, EpochBoundReachedInd, MarkQueryingInd,
         BeginEvaluationInd, AppendSubmissionsInd, ScoreEpochInd,
         BeginSubmittingInd, ApplyOfflineInd, ApplyWithoutSubmittingInd,
         StartAttemptInd, SetWeightsInd, ReadBackInd, WriteSubmittedReceiptInd,
         CompleteAttemptInd, MarkAmbiguousInd, SaveMinerStateInd,
         PersistPanelSidecarInd, WriteWeightsArtifactInd, WriteCompletionMarkerInd,
         PublishRollingInd, CommitRollingInd, CommitStateInd, VerificationFailsInd,
         RecoverRefusedInd, RecoverRollingInd, RecoverStateInd,
         ExitFailsEvaluationInd, ExitTickInd, ReleaseLockInd DEF TickStep
    <2>2. QED
      BY <1>1, <1>3, <2>1, StartTickInd, StartRecoveryInd, RaiseInd, CrashInd DEF ProcessNext
  <1>4. ASSUME NEW e \in Epoch, EnvironmentNext(e) PROVE IndInv'
    BY <1>1, <1>4, IncludeLateInd, DamageSnapshotInd DEF EnvironmentNext
  <1>5. QED
    BY <1>1, <1>2, <1>3, <1>4 DEF Next

\* IndInv holds in every reachable state of every instance.
LEMMA Invariance == Spec => []IndInv
  BY InitInd, StepInd, PTL DEF Spec

\* Every variable of the validator keeps its type: phases, file modes, EMA
\* lineages and epoch ids stay within what the code writes.
THEOREM TypeCorrect == Spec => []TypeOK
  <1>1. IndInv => TypeOK
    BY DEF IndInv
  <1>2. QED
    BY <1>1, Invariance, PTL

\* state.json always passes ValidatorRuntimeState.validate().
THEOREM StateAlwaysValid == Spec => []StateValid
  <1>1. IndInv => StateValid
    BY EpochNat, ConstantsAssumption DEF IndInv, TypeOK, StateInv, StateValid
  <1>2. QED
    BY <1>1, Invariance, PTL

\* Fail closed: an epoch that was handed to set_weights, or whose attempt file
\* is started or ambiguous, is committed or still the active epoch in
\* weights_submitting, for any number of crashes and exceptions.
THEOREM FailsClosed == Spec => []AmbiguityFailsClosed
  <1>1. IndInv => AmbiguityFailsClosed
    <2>1. SUFFICES ASSUME IndInv, NEW e \in Epoch, calls[e] > 0 \/ AmbiguousAttempt(e)
                   PROVE  \/ e \in committed
                          \/ active = e /\ phase = "weights_submitting" /\ nextEpoch = e + 1
      BY DEF AmbiguityFailsClosed
    <2>2. chainAttempt[e] # "none"
      BY <2>1 DEF IndInv, ChainInv, AmbiguousAttempt
    <2>3. e \in committed \/ (active = e /\ phase = "weights_submitting")
      BY <2>1, <2>2 DEF IndInv, ChainInv
    <2>4. QED
      BY <2>1, <2>3, EpochNat DEF IndInv, StateInv
  <1>2. QED
    BY <1>1, Invariance, PTL

\* set_weights is called at most once for an epoch, over all restarts.
THEOREM SubmitsAtMostOnce == Spec => []AtMostOneSubmission
  <1>1. IndInv => AtMostOneSubmission
    BY DEF IndInv, ChainInv, AtMostOneSubmission
  <1>2. QED
    BY <1>1, Invariance, PTL

\* The rolling EMA is made of exactly the committed epochs, except that in
\* weights_submitting it may already contain the active one.
THEOREM LineageExact == Spec => []EmaLineage
  <1>1. IndInv => EmaLineage
    BY DEF IndInv, LineageInv, EmaLineage
  <1>2. QED
    BY <1>1, Invariance, PTL

\* The rows of an epoch come from one evaluation.
THEOREM EvaluatesOnce == Spec => []SingleEvaluation
  <1>1. IndInv => SingleEvaluation
    BY DEF IndInv, RowsInv, SingleEvaluation
  <1>2. QED
    BY <1>1, Invariance, PTL

=============================================================================
