---------------------------- MODULE MCWorkerPool ----------------------------
(* The pool on an item of each kind. *)
EXTENDS WorkerPool

CONSTANTS i1, i2, i3

OneOfEach == [i \in Items |-> CASE i = i1 -> "shell" [] i = i2 -> "lua" [] i = i3 -> "probe"]
============================================================================
