------------------------------- MODULE Holdout -------------------------------
(***************************************************************************)
(* The validator-owned holdout of holdout.py: which tasks the cohort's     *)
(* policy supports, and what the runs of the reference and of the known-   *)
(* wrong probes against the private cases amount to.                       *)
(*                                                                         *)
(* A task is what the policy looks at: its concepts as pairs of a key and  *)
(* an item, its family, whether its reference is one root Python module,   *)
(* whether it has starter files and whether its reference has lines marked *)
(* PROBE-DROP.  The private cases themselves are left out.                 *)
(***************************************************************************)

SUPPORTED_FAMILY == "parser_roundtrip"
SUPPORTED_ARCHETYPES == {"escape_delim", "error_contract", "quoted_fields"}

\* External: the slugs that the parser family knows, one of each kind.
SymbolTable == [delimiter |-> {"comma"}, escape |-> {"backslash"}, quote |-> {"double"}]

Concept ==
  ({"archetype"} \X {"escape_delim", "quoted_fields", "other"})
    \cup ({"target_band"} \X {"core", "edge"})
    \cup {<<"delim", "comma">>, <<"special", "backslash">>, <<"special", "double">>}

Task == [concepts : SUBSET Concept, family : {SUPPORTED_FAMILY, "other"},
         module : BOOLEAN, starter : BOOLEAN, marked : BOOLEAN]

\* _concept_map, which refuses a key with two different items.
Ambiguous(concepts) == \E c, d \in concepts : c[1] = d[1] /\ c[2] # d[2]
ConceptItem(concepts, key) ==
  IF \E c \in concepts : c[1] = key THEN (CHOOSE c \in concepts : c[1] = key)[2] ELSE ""

validate_holdout_support(t) ==
  LET item(key) == ConceptItem(t.concepts, key)
      special == IF item("archetype") = "quoted_fields" THEN "quote" ELSE "escape"
  IN  /\ ~Ambiguous(t.concepts)
      /\ t.family = SUPPORTED_FAMILY
      /\ item("archetype") \in SUPPORTED_ARCHETYPES /\ item("target_band") = "core"
      /\ t.module
      /\ item("delim") \in SymbolTable.delimiter
      /\ item("special") \in SymbolTable[special]

\* build_holdout_plan.  The hash it compares is the task's own, computed by the
\* pre-gates.
build_holdout_plan(t, secret) == secret /\ validate_holdout_support(t)

\* _probe_candidates
ProbeCandidates(t) ==
  {p \in {"starter_files", "family_edge_removed"} :
     IF p = "starter_files" THEN t.starter ELSE t.marked}

-----------------------------------------------------------------------------
\* External: what a run of the Docker verifier may report.
RunResult == {r \in [passed : BOOLEAN, executed : BOOLEAN, containerized : BOOLEAN] :
                r.passed \/ r.containerized => r.executed}

Isolated(run) == run.containerized /\ run.executed

\* An entry of probes_caught: a probe that could not be run in isolation has
\* not been caught.
ProbeCaught(run) == ~run.passed /\ Isolated(run)

\* mutant: all() of no probes.
NoProbeNeeded(t, secret, reference, probes) ==
  CASE ~build_holdout_plan(t, secret) -> IF secret THEN "unsupported" ELSE "infra_error"
    [] ~Isolated(reference) -> "infra_error"
    [] OTHER -> IF reference.passed /\ \A p \in DOMAIN probes : ProbeCaught(probes[p])
                  THEN "passed" ELSE "failed"

\* The status of evaluate_holdout, with require_containerized; the probes run
\* only if the reference passed in isolation.
evaluate_holdout(t, secret, reference, probes) ==
  CASE ~build_holdout_plan(t, secret) -> IF secret THEN "unsupported" ELSE "infra_error"
    [] build_holdout_plan(t, secret) /\ ~Isolated(reference) -> "infra_error"
    [] OTHER -> IF /\ reference.passed
                   /\ DOMAIN probes # {}
                   /\ \A p \in DOMAIN probes : ProbeCaught(probes[p])
                  THEN "passed" ELSE "failed"

\* The reference solves the private cases, and every known-wrong solution, of
\* which there is one at least, was seen to fail them, all in a container.
Proven(reference, probes) ==
  /\ reference.passed /\ reference.containerized
  /\ \E p \in DOMAIN probes : TRUE
  /\ \A p \in DOMAIN probes : probes[p].executed /\ probes[p].containerized /\ ~probes[p].passed

=============================================================================
