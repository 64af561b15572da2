---------------------------- MODULE MCJobPipeline ----------------------------
(* Small instances of JobPipeline for TLC. *)
EXTENDS JobPipelineProperties, TLC

\* Workers, requests and jobs are interchangeable: no definition tells one
\* from another.
Symmetry == Permutations(Worker) \cup Permutations(Request) \cup Permutations(Job)
=============================================================================
