----------------------------- MODULE EpochLedger -----------------------------
(***************************************************************************)
(* What the recurring validator promises about epochs, without files,      *)
(* locks, processes or crashes: epoch ids are handed out once and in       *)
(* order, the weights of an epoch go to the chain at most once, an epoch's *)
(* scores are folded into the EMA at most once, and the validator never    *)
(* moves past an epoch whose weights may be on the chain before that epoch *)
(* has been folded.                                                        *)
(***************************************************************************)
EXTENDS Naturals

VARIABLES
  next,    \* the next epoch id to hand out
  open,    \* the epoch in hand, 0 when there is none
  sent,    \* the epochs whose weights were sent to the chain
  folded   \* the epochs whose scores are part of the rolling EMA

ledgerVars == <<next, open, sent, folded>>

LedgerInit ==
  /\ next = 1
  /\ open = 0
  /\ sent = {}
  /\ folded = {}

\* An epoch may be left behind only if nothing of it can be on the chain or
\* if it has been folded.
MayLeave == open = 0 \/ open \in folded \/ open \notin sent

Begin ==
  /\ MayLeave
  /\ open' = next
  /\ next' = next + 1
  /\ UNCHANGED <<sent, folded>>

Abandon ==
  /\ open # 0
  /\ open \notin sent \cup folded
  /\ open' = 0
  /\ UNCHANGED <<next, sent, folded>>

Send ==
  /\ open # 0
  /\ open \notin sent \cup folded
  /\ sent' = sent \cup {open}
  /\ UNCHANGED <<next, open, folded>>

Fold ==
  /\ open # 0
  /\ open \notin folded
  /\ folded' = folded \cup {open}
  /\ UNCHANGED <<next, open, sent>>

LedgerNext == Begin \/ Abandon \/ Send \/ Fold

LedgerSpec == LedgerInit /\ [][LedgerNext]_ledgerVars

=============================================================================
