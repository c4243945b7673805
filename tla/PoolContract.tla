---------------------------- MODULE PoolContract ----------------------------
(***************************************************************************)
(* What the executor relies on the worker pool for: an item submitted is   *)
(* taken by one worker, oldest first, and answered by one result.          *)
(* WorkerPool.tla provides it, Executor.tla uses it and nothing more.      *)
(***************************************************************************)
EXTENDS Sequences

CONSTANTS
  Items,      \* what may be submitted
  Workers,    \* the threads of the pool
  None        \* no item

VARIABLES
  queue,      \* items submitted and not yet taken
  busy,       \* busy[w]: the item w executes
  results,    \* answers not yet received
  asked       \* every item submitted so far

vars == <<queue, busy, results, asked>>

Init ==
  /\ queue = <<>> /\ results = <<>> /\ asked = {}
  /\ busy = [w \in Workers |-> None]

Submit(i) ==
  /\ i \notin asked
  /\ asked' = asked \cup {i}
  /\ queue' = Append(queue, i)
  /\ UNCHANGED <<busy, results>>

Take(w) ==
  /\ busy[w] = None /\ queue # <<>>
  /\ busy' = [busy EXCEPT ![w] = Head(queue)]
  /\ queue' = Tail(queue)
  /\ UNCHANGED <<results, asked>>

SendResult(w, ok) ==
  /\ busy[w] # None
  /\ results' = Append(results, [node |-> busy[w], ok |-> ok])
  /\ busy' = [busy EXCEPT ![w] = None]
  /\ UNCHANGED <<queue, asked>>

Receive ==
  /\ results # <<>>
  /\ results' = Tail(results)
  /\ UNCHANGED <<queue, busy, asked>>

Next ==
  \/ \E i \in Items : Submit(i)
  \/ \E w \in Workers : Take(w) \/ \E ok \in BOOLEAN : SendResult(w, ok)
  \/ Receive

Spec == Init /\ [][Next]_vars
============================================================================
