-------------------------- MODULE MCEpochEvaluation --------------------------
(***************************************************************************)
(* Instances of EpochEvaluation for TLC.                                   *)
(***************************************************************************)
EXTENDS EpochEvaluation

\* Three packages in the first epoch, two in the second.
ThreeThenTwo == <<3, 2>>

=============================================================================
