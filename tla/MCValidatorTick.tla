--------------------------- MODULE MCValidatorTick ---------------------------
(***************************************************************************)
(* Instances of ValidatorTick for TLC.                                     *)
(***************************************************************************)
EXTENDS ValidatorTickInv, TLC

\* The processes are interchangeable in the safety runs.
ProcSymmetry == Permutations(Proc)

=============================================================================
