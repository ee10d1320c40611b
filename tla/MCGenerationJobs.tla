-------------------------- MODULE MCGenerationJobs --------------------------
(* Instances of GenerationJobs for TLC.                                    *)
EXTENDS GenerationJobs, TLC

Symmetry == Permutations(Jobs) \cup Permutations(Workers)
=============================================================================
