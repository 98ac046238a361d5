--------------------------- MODULE MCMinerAdmission ---------------------------
(***************************************************************************)
(* Instances of MinerAdmission for TLC.                                    *)
(***************************************************************************)
EXTENDS MinerAdmission, TLC

CONSTANTS v1, v2, v3

\* The second validator's clock is ahead of the miner's; the third one is not
\* configured.
SkewedClocks == v1 :> 0 @@ v2 :> 1 @@ v3 :> 0

ConnSymmetry == Permutations(Conn)

=============================================================================
