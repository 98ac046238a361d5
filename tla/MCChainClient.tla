---------------------------- MODULE MCChainClient ----------------------------
(***************************************************************************)
(* Instances of ChainClient for TLC.                                       *)
(***************************************************************************)
EXTENDS ChainClient, TLC

CONSTANTS v, m1, m2, m3

Base == [mode |-> "testnet", network |-> "test", env |-> "none", netuid |-> "cohort",
         manual |-> {}, publish |-> "live", gates |-> Gate, reveal |-> FALSE]
Local == [Base EXCEPT !.mode = "localnet", !.network = "loopback", !.netuid = "other"]
Wire == [Base EXCEPT !.mode = "wire", !.network = "none", !.netuid = "none",
                     !.publish = "off", !.gates = {}, !.manual = {m1}]

\* The command lines of the operations guides, and one wrong in each respect.
Accepted ==
  {Base, [Base EXCEPT !.reveal = TRUE], [Base EXCEPT !.gates = {"client_flag", "env"}],
   [Base EXCEPT !.publish = "dry-run", !.gates = {}],
   Local, [Local EXCEPT !.publish = "dry-run"], [Local EXCEPT !.manual = {m1, m3}],
   Wire}
Refused ==
  {[Base EXCEPT !.network = "finney"], [Base EXCEPT !.netuid = "other"],
   [Base EXCEPT !.manual = {m1}], [Base EXCEPT !.publish = "off"],
   [Wire EXCEPT !.env = "finney"], [Wire EXCEPT !.reveal = TRUE]}
AllCommands == Accepted \cup Refused

\* The validator and two miners.
Slots == {0 :> v @@ 1 :> m1 @@ 2 :> m2}

\* A subnet the validator can use, and one away from it in each respect.
Usable == [exists |-> TRUE, permit |-> TRUE, limit |-> 1, reveal |-> FALSE, min |-> 1]
OneAway == {Usable, [Usable EXCEPT !.exists = FALSE], [Usable EXCEPT !.permit = FALSE],
            [Usable EXCEPT !.limit = 0], [Usable EXCEPT !.reveal = TRUE],
            [Usable EXCEPT !.min = 2]}

AtFirst == {Usable}

\* One miner on a public address, one on a private one, one anywhere.
Published == m1 :> "public" @@ m2 :> "private" @@ m3 :> "public"

=============================================================================
