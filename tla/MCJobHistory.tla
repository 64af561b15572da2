---------------------------- MODULE MCJobHistory ----------------------------
(* Small instances of JobPipelineHistory for TLC. *)
EXTENDS JobPipelineHistory, TLC

\* Workers, requests and jobs are interchangeable: no definition tells one
\* from another.
Symmetry == Permutations(Worker) \cup Permutations(Request) \cup Permutations(Job)
=============================================================================
