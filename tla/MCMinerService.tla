---------------------------- MODULE MCMinerService ----------------------------
(***************************************************************************)
(* Instance of MinerService for TLC.                                       *)
(***************************************************************************)
EXTENDS MinerService, TLC

\* The validators' clocks are ahead of the miner's.
ClocksAhead == [h \in Hotkey |-> 1]

=============================================================================
