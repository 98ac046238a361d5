----------------------------- MODULE MCPreSubmit -----------------------------
(***************************************************************************)
(* A validator that only ever does dry runs, with the epochs whose         *)
(* apply_weights raised remembered: process_and_convert reads the chain    *)
(* and runs outside every try block, before the receipt of the dry run.    *)
(***************************************************************************)
EXTENDS ValidatorTick

VARIABLE raised

\* The exception leaves apply_weights and run_epoch; the process goes on to
\* __exit__ and releases the lock.
ConvertRaises(p) == At(p, "apply") /\ Raise(p)

PreInit == Init /\ raised = {}
PreNext == Next /\ raised' = raised \cup {ep[p] : p \in {q \in Proc : ConvertRaises(q)}}
PreSpec == PreInit /\ [][PreNext]_<<vars, raised>>

\* "A dry, pre-submit error/skip is definite and may advance"
\* (validator_cli.py, tick_command): a tick that is not live and whose
\* process_and_convert raised does not make the next tick refuse to begin.
PreSubmitErrorAdvances == \A e \in raised : ~Parked(e)

=============================================================================
