----------------------------- MODULE WorkerPool -----------------------------
(***************************************************************************)
(* WorkerPool (cli/crates/cook-execute/src/pool.rs): threads that share a  *)
(* queue behind a mutex and a condition variable, and answer over a        *)
(* channel whose receiver the main thread holds.                           *)
(*                                                                         *)
(* A step is what happens between taking the queue's mutex and releasing   *)
(* it; the condition variable may wake a worker for no reason.  A worker   *)
(* whose VM cannot be set up panics before its loop and drops its sender.  *)
(* A panic of a body is caught and answered as a failure.  What a Lua body *)
(* prints, and the module files it loads, gather in accumulators the       *)
(* worker's VM keeps from item to item: sink[w] names the items whose      *)
(* traces are in them.  A shell command's output is read from its pipes.   *)
(***************************************************************************)
EXTENDS Integers, Sequences, FiniteSets

CONSTANTS
  Items,          \* work items
  Payload,        \* Payload[i]: what runs it
  Workers,        \* the threads spawned, one per job
  Shutdown,       \* QueueItem::Shutdown
  None,           \* no item
  SetupMayFail    \* whether a worker may panic while it sets up its VM

ASSUME MarkersAssumption == Shutdown \notin Items /\ None \notin Items /\ Shutdown # None
ASSUME PayloadAssumption == Payload \in [Items -> {"shell", "lua", "probe"}]
ASSUME WorkersAssumption == IsFiniteSet(Workers)
ASSUME SetupAssumption == SetupMayFail \in BOOLEAN

VARIABLES
  queue,      \* SharedQueue.queue
  state,      \* state[w]: where worker w is
  item,       \* item[w]: what it executes
  sink,       \* sink[w]: the traces in its accumulators, with their items
  results,    \* the mpsc channel
  main,       \* where the main thread is
  asked,      \* history: items submitted
  answered    \* history: items whose result was received

vars == <<queue, state, item, sink, results, main, asked, answered>>

(* gone: broke out of the loop on Shutdown.  failed: panicked in its setup.  *)
States == {"setup", "idle", "waiting", "running", "gone", "failed"}
(* rest: what goes to stderr, and the module files loaded.                   *)
Streams == {"stdout", "rest"}
Traces(i) == {i} \X Streams

In(s) == {w \in Workers : state[w] = s}
Ended == In("gone") \cup In("failed")

(* Variant: nobody is told. *)
NotifyNone == UNCHANGED state

(* Condvar::notify_one and notify_all, the lock held. *)
NotifyOne ==
  IF In("waiting") = {} THEN UNCHANGED state
  ELSE \E w \in In("waiting") : state' = [state EXCEPT ![w] = "idle"]

NotifyAll == state' = [w \in Workers |-> IF state[w] = "waiting" THEN "idle" ELSE state[w]]

(* Variant: one sentinel in all. *)
OneSentinel == <<Shutdown>>

(* One sentinel for each thread spawned. *)
Sentinels == [k \in 1 .. Cardinality(Workers) |-> Shutdown]

(* The queue once the sentinels are in it: they go behind the work.          *)
(* Variant: before it.                                                       *)
WithSentinelsFirst == Sentinels \o queue
WithSentinels == queue \o Sentinels
----------------------------------------------------------------------------
(* The main thread. *)

Submit(i) ==
  /\ main = "open" /\ i \notin asked
  /\ queue' = Append(queue, i)
  /\ NotifyOne
  /\ asked' = asked \cup {i}
  /\ UNCHANGED <<item, sink, results, main, answered>>

Receive ==
  /\ main = "open" /\ results # <<>>
  /\ results' = Tail(results)
  /\ answered' = answered \cup {Head(results).node}
  /\ UNCHANGED <<queue, state, item, sink, main, asked>>

(* recv() on a channel all of whose senders are gone: the expect of the main *)
(* loop panics.                                                              *)
Disconnected ==
  /\ main = "open" /\ results = <<>> /\ Ended = Workers
  /\ answered # asked
  /\ main' = "panicked"
  /\ UNCHANGED <<queue, state, item, sink, results, asked, answered>>

(* shutdown(), or the drop of the pool when the main thread leaves early.    *)
SignalAndJoin ==
  /\ main \in {"open", "panicked"}
  /\ queue' = WithSentinels
  /\ NotifyAll
  /\ main' = "joining"
  /\ UNCHANGED <<item, sink, results, asked, answered>>

Joined ==
  /\ main = "joining" /\ Ended = Workers
  /\ main' = "closed"
  /\ UNCHANGED <<queue, state, item, sink, results, asked, answered>>
----------------------------------------------------------------------------
(* A worker. *)

SetUp(w) ==
  /\ state[w] = "setup"
  /\ \/ state' = [state EXCEPT ![w] = "idle"]
     \/ SetupMayFail /\ state' = [state EXCEPT ![w] = "failed"]
  /\ UNCHANGED <<queue, item, sink, results, main, asked, answered>>

(* pop_front found the queue empty: wait, the mutex released. *)
Wait(w) ==
  /\ state[w] = "idle" /\ queue = <<>>
  /\ state' = [state EXCEPT ![w] = "waiting"]
  /\ UNCHANGED <<queue, item, sink, results, main, asked, answered>>

(* The condition variable returns for no reason. *)
SpuriousWake(w) ==
  /\ state[w] = "waiting"
  /\ state' = [state EXCEPT ![w] = "idle"]
  /\ UNCHANGED <<queue, item, sink, results, main, asked, answered>>

(* The accumulators at the start of an item, and after its result has taken  *)
(* what they held.  Variant: they are kept.                                  *)
KeptSink(w) == sink[w]
ClearedSink(w) == {}

(* Variants: a sentinel is run as an item; the newest item is taken first.   *)
TakeAnything(w) ==
  /\ state[w] = "idle" /\ queue # <<>>
  /\ queue' = Tail(queue)
  /\ state' = [state EXCEPT ![w] = "running"]
  /\ item' = [item EXCEPT ![w] = Head(queue)]
  /\ UNCHANGED <<sink, results, main, asked, answered>>
TakeNewest(w) ==
  /\ state[w] = "idle" /\ queue # <<>> /\ queue[Len(queue)] # Shutdown
  /\ queue' = SubSeq(queue, 1, Len(queue) - 1)
  /\ state' = [state EXCEPT ![w] = "running"]
  /\ item' = [item EXCEPT ![w] = queue[Len(queue)]]
  /\ UNCHANGED <<sink, results, main, asked, answered>>

Take(w) ==
  /\ state[w] = "idle" /\ queue # <<>> /\ Head(queue) # Shutdown
  /\ queue' = Tail(queue)
  /\ state' = [state EXCEPT ![w] = "running"]
  /\ item' = [item EXCEPT ![w] = Head(queue)]
  /\ sink' = [sink EXCEPT ![w] = ClearedSink(w)]
  /\ UNCHANGED <<results, main, asked, answered>>

Leave(w) ==
  /\ state[w] = "idle" /\ queue # <<>> /\ Head(queue) = Shutdown
  /\ queue' = Tail(queue)
  /\ state' = [state EXCEPT ![w] = "gone"]
  /\ UNCHANGED <<item, sink, results, main, asked, answered>>

(* What the body of item w leaves in the accumulators of the VM. *)
Leaves(w, traces) ==
  /\ state[w] = "running" /\ Payload[item[w]] # "shell"
  /\ traces \subseteq Traces(item[w])
  /\ sink' = [sink EXCEPT ![w] = @ \cup traces]
  /\ UNCHANGED <<queue, state, item, results, main, asked, answered>>

(* print and io.write, replaced on the VM. *)
Prints(w) == Leaves(w, {<<item[w], "stdout">>})

(* require, and the modules Cook loads for the body. *)
LoadsModule(w) == Leaves(w, {<<item[w], "rest">>})

(* cook.sh: what the command printed is kept, whether it failed or not. *)
CallsShell(w) == \E s \in Streams : Leaves(w, {<<item[w], s>>})

(* Variant: a probe's value is logged as well. *)
LoggedAll(w, value) == sink[w]

(* The stdout of a body that made a value is the value.                      *)
Logged(w, value) == IF value THEN sink[w] \ {<<item[w], "stdout">>} ELSE sink[w]

(* direct is what was read from the pipes of the item's own command. *)
Finish(w, ok, value, direct) ==
  /\ state[w] = "running"
  /\ results' = Append(results, [node |-> item[w], ok |-> ok, value |-> value,
                                 traces |-> Logged(w, value) \cup direct])
  /\ sink' = [sink EXCEPT ![w] = ClearedSink(w)]
  /\ item' = [item EXCEPT ![w] = None]
  /\ state' = [state EXCEPT ![w] = "idle"]
  /\ UNCHANGED <<queue, main, asked, answered>>

(* A placeholder without a value, or a command that cannot be spawned. *)
ShellNotStarted(w) == Payload[item[w]] = "shell" /\ Finish(w, FALSE, FALSE, {})

ShellExits(w) ==
  /\ Payload[item[w]] = "shell"
  /\ \E ok \in BOOLEAN : \E direct \in {{}, Traces(item[w])} :
       Finish(w, ok, FALSE, direct)

LuaEnds(w) == Payload[item[w]] = "lua" /\ \E ok \in BOOLEAN : Finish(w, ok, FALSE, {})

(* produce raised or gave what JSON cannot hold; or its value. *)
ProbeEnds(w) == Payload[item[w]] = "probe" /\ \E ok \in BOOLEAN : Finish(w, ok, ok, {})

(* catch_unwind: whatever the body was. *)
Panics(w) == Finish(w, FALSE, FALSE, {})

Ends(w) ==
  /\ state[w] = "running"
  /\ ShellNotStarted(w) \/ ShellExits(w) \/ LuaEnds(w) \/ ProbeEnds(w) \/ Panics(w)

Worker(w) ==
  \/ SetUp(w) \/ Wait(w) \/ Take(w) \/ Leave(w) \/ Ends(w)

Body(w) == state[w] = "running" /\ (Prints(w) \/ LoadsModule(w) \/ CallsShell(w))
----------------------------------------------------------------------------
Init ==
  /\ queue = <<>> /\ results = <<>> /\ main = "open" /\ asked = {} /\ answered = {}
  /\ state = [w \in Workers |-> "setup"]
  /\ item = [w \in Workers |-> None]
  /\ sink = [w \in Workers |-> {}]

MainThread ==
  \/ \E i \in Items : Submit(i)
  \/ Receive \/ Disconnected \/ SignalAndJoin \/ Joined

Next ==
  \/ MainThread
  \/ \E w \in Workers : Worker(w) \/ Body(w) \/ SpuriousWake(w)

(* A thread that can run runs, and every body ends.  Nothing is assumed of   *)
(* the main thread but that it finishes a join.                              *)
Fairness == WF_vars(Joined) /\ \A w \in Workers : WF_vars(Worker(w))

Spec == Init /\ [][Next]_vars
FairSpec == Spec /\ Fairness
----------------------------------------------------------------------------
(* Properties. *)

TypeOK ==
  /\ queue \in Seq(Items \cup {Shutdown})
  /\ state \in [Workers -> States]
  /\ item \in [Workers -> Items \cup {None}]
  /\ sink \in [Workers -> SUBSET (Items \X Streams)]
  /\ results \in Seq([node : Items, ok : BOOLEAN, value : BOOLEAN,
                      traces : SUBSET (Items \X Streams)])
  /\ main \in {"open", "panicked", "joining", "closed"}
  /\ asked \subseteq Items /\ answered \subseteq Items

(* No worker sleeps on the condition variable while the queue holds more     *)
(* than the workers already awake will take: no wakeup is lost, and work     *)
(* waits only when every worker is at work or on its way.                    *)
NoSleepOverWork == In("waiting") # {} => Len(queue) <= Cardinality(In("idle"))

(* What a result says was printed or loaded is its own unit's doing, though  *)
(* the VM is kept from one unit to the next and may have been left by a      *)
(* panic, and what a probe gave as its value is not printed as well.         *)
ReportsOwn(r) ==
  /\ r.traces \subseteq Traces(r.node)
  /\ r.value => <<r.node, "stdout">> \notin r.traces
OwnTraces == \A i \in DOMAIN results : ReportsOwn(results[i])

(* When the join returns, no submitted item is left unexecuted, unless there *)
(* never was a worker.                                                       *)
JoinFlushes ==
  main = "closed" /\ In("gone") # {} =>
    asked = answered \cup {results[i].node : i \in DOMAIN results}

(* Every item submitted is answered, and a shutdown ends, while one worker   *)
(* came up, and ends with nothing left behind.                               *)
EveryItemAnswered ==
  \A i \in Items :
    i \in asked ~> \/ i \in answered \cup {results[k].node : k \in DOMAIN results}
                   \/ In("failed") = Workers
JoinEnds == main = "joining" ~> main = "closed"
EveryItemEnds == EveryItemAnswered /\ JoinEnds /\ []JoinFlushes

Answer(r) == [node |-> r.node, ok |-> r.ok]

(* The items in the queue: they stand before the sentinels.                  *)
Work(q) == [j \in {k \in DOMAIN q : q[k] # Shutdown} |-> q[j]]
ResultOf(s) == [i \in DOMAIN s |-> Answer(s[i])]

(* The pool implements the contract: one worker takes an item, oldest first, *)
(* and one result answers it.                                                *)
Contract ==
  INSTANCE PoolContract WITH
    queue <- Work(queue), busy <- item, results <- ResultOf(results)

ImplementsContract == Contract!Spec
============================================================================
