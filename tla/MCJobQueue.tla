----------------------------- MODULE MCJobQueue -----------------------------
(* Two workers and two projects: a job can wait behind another worker's     *)
(* lease, behind its own project's run lock, or in a queue that is full.    *)
EXTENDS JobQueue, TLC

\* Sound: nothing orders projects, jobs or workers, and no liveness property
\* is checked under it.
Symmetry == Permutations(Project) \cup Permutations(Job) \cup Permutations(Worker)
=============================================================================
