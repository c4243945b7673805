----------------------------- MODULE MCWorkDag -----------------------------
(* Every graph of up to MaxNodes nodes, completed by racing threads. *)
EXTENDS WorkDagProofs, TLC

Symmetry == Permutations(Threads)
============================================================================
