---------------------------- MODULE MCMapReduce ----------------------------
(* Instances of MapReduce for TLC. *)
EXTENDS MapReduce, TLC

\* Workers are interchangeable: nothing in the master names one.
WorkerSymmetry == Permutations(Workers)
=============================================================================
