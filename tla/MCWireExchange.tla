---------------------------- MODULE MCWireExchange ----------------------------
(***************************************************************************)
(* Instances of WireExchange for TLC.                                      *)
(***************************************************************************)
EXTENDS WireExchange, TLC

CONSTANTS small, large

PackageBytes == small :> 1 @@ large :> 2

\* The first list fits only in part, the second is longer than any quota.
MinerTasks == {<<small, large>>, <<small, small, small>>}

ValidatorSymmetry == Permutations(Validator)

=============================================================================
