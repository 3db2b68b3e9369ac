-------------------------- MODULE MCModelPipeline --------------------------
(* A reduction for the runs of ModelPipeline, which check no liveness.       *)
EXTENDS ModelPipeline, TLC

\* Inputs, cases and versions are model values that no step tells apart.
Symmetry == Permutations(Inputs) \cup Permutations(Cases) \cup Permutations(Versions)
=============================================================================
