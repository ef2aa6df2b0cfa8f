----------------------------- MODULE MCJobQueue -----------------------------
(* The job queue on small instances: the constants are in the .cfg files.  *)
EXTENDS JobQueue, TLC

\* Workers, keys and requests are interchangeable; jobs are not, they are ordered by ID.
Symmetry == Permutations(Workers) \union Permutations(Keys) \union Permutations(Digests)
=============================================================================
