-------------------------- MODULE MCJudgePipeline --------------------------
(***************************************************************************)
(* Instances of JudgePipeline for TLC.  The profiles are what the parser   *)
(* makes of a row's max_workers and its capabilities.                      *)
(***************************************************************************)
EXTENDS JudgePipeline

\* Every worker may hold one claim, or two of any kind.
MCSingle == [w \in Workers |-> ParseWorkerProfile(1, -1, -1, FALSE)]
MCTwo == [w \in Workers |-> ParseWorkerProfile(2, -1, -1, FALSE)]

\* Two claims, but one output slot only, and never both kinds together.
MCExclusive == [w \in Workers |-> ParseWorkerProfile(2, 1, -1, TRUE)]

Symmetry == Permutations(Handlers)
=============================================================================
