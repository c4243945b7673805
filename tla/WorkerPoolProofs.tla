-------------------------- MODULE WorkerPoolProofs --------------------------
(***************************************************************************)
(* Proofs about the worker pool for any set of items and any finite set of *)
(* threads: its types, that no worker sleeps while there is work it could  *)
(* take, that a result carries the traces of its own unit only, that the   *)
(* pool refines PoolContract (the sentinels of a shutdown stay behind the  *)
(* work, LineInv), and that a join flushes what was submitted (Accounted). *)
(***************************************************************************)
EXTENDS WorkerPool, FiniteSetTheorems, SequenceTheorems, TLAPS

(* An idle worker's accumulators are left empty; those of a worker at work   *)
(* hold traces of its item only.                                             *)
SinkOK ==
  \A w \in Workers : sink[w] \subseteq (IF state[w] = "running" THEN Traces(item[w]) ELSE {})

ItemOK == \A w \in Workers : state[w] = "running" => item[w] \in Items

Traced == \A i \in 1 .. Len(results) : ReportsOwn(results[i])

Answers ==
  [node : Items, ok : BOOLEAN, value : BOOLEAN, traces : SUBSET (Items \X Streams)]

PoolInv == TypeOK /\ ItemOK /\ SinkOK /\ Traced /\ NoSleepOverWork
----------------------------------------------------------------------------
LEMMA Counting ==
  /\ \A s : IsFiniteSet(In(s)) /\ Cardinality(In(s)) \in Nat
  /\ \A S \in SUBSET Workers : IsFiniteSet(S) /\ Cardinality(S) \in Nat
<1>1. \A S \in SUBSET Workers : IsFiniteSet(S) /\ Cardinality(S) \in Nat
  BY WorkersAssumption, FS_Subset, FS_CardinalityType
<1> QED  BY <1>1 DEF In

LEMMA OneMore ==
  ASSUME NEW S \in SUBSET Workers, NEW w \in Workers, w \notin S
  PROVE  Cardinality(S \cup {w}) = Cardinality(S) + 1
  BY Counting, FS_AddElement

LEMMA OneLess ==
  ASSUME NEW S \in SUBSET Workers, NEW w \in S
  PROVE  Cardinality(S \ {w}) = Cardinality(S) - 1
  BY Counting, FS_RemoveElement

LEMMA MoreOrEqual ==
  ASSUME NEW T \in SUBSET Workers, NEW S \in SUBSET T
  PROVE  Cardinality(S) <= Cardinality(T)
  BY Counting, FS_Subset

LEMMA TailType ==
  ASSUME NEW S, NEW s \in Seq(S), s # <<>>
  PROVE  /\ Head(s) \in S /\ Tail(s) \in Seq(S) /\ Len(Tail(s)) = Len(s) - 1
         /\ Len(s) \in Nat /\ Len(s) >= 1 /\ Len(Tail(s)) \in Nat
         /\ \A i \in 1 .. Len(Tail(s)) : i + 1 \in 1 .. Len(s) /\ Tail(s)[i] = s[i + 1]
<1>1. Len(s) \in Nat /\ Len(s) >= 1  BY EmptySeq, LenProperties
<1>2. Tail(s) \in Seq(S) /\ Len(Tail(s)) = Len(s) - 1
      /\ \A i \in 1 .. Len(Tail(s)) : Tail(s)[i] = s[i + 1] /\ Head(s) \in S
  BY HeadTailProperties
<1>3. Head(s) \in S  BY HeadTailProperties
<1> QED  BY <1>1, <1>2, <1>3

(* A sequence of sentinels is a queue. *)
LEMMA SentinelsType ==
  Sentinels \in Seq(Items \cup {Shutdown})
<1>1. Cardinality(Workers) \in Nat  BY WorkersAssumption, FS_CardinalityType
<1> QED  BY <1>1 DEF Sentinels
----------------------------------------------------------------------------
LEMMA InitPool == ASSUME Init PROVE PoolInv
<1>1. Len(<<>>) = 0  OBVIOUS
<1>2. In("waiting") = {}  BY DEF Init, In
<1>3. TypeOK  BY DEF Init, TypeOK, States
<1> QED  BY <1>1, <1>2, <1>3 DEF Init, PoolInv, ItemOK, SinkOK, Traced, NoSleepOverWork

(* The invariant but for the counting, which each action settles apart. *)
Plain == TypeOK /\ ItemOK /\ SinkOK /\ Traced

(* A worker is woken: one more is idle. *)
LEMMA WakeOne ==
  ASSUME TypeOK, NEW w \in In("waiting"), state' = [state EXCEPT ![w] = "idle"]
  PROVE  /\ state' \in [Workers -> States]
         /\ In("idle")' = In("idle") \cup {w} /\ w \notin In("idle")
         /\ In("waiting")' \subseteq In("waiting")
         /\ Cardinality(In("idle")') = Cardinality(In("idle")) + 1
         /\ \A v \in Workers : state'[v] = "running" <=> state[v] = "running"
<1>1. w \in Workers /\ state[w] = "waiting"  BY DEF In
<1>2. /\ state' \in [Workers -> States]
      /\ In("idle")' = In("idle") \cup {w} /\ w \notin In("idle")
      /\ In("waiting")' \subseteq In("waiting")
      /\ \A v \in Workers : state'[v] = "running" <=> state[v] = "running"
  BY <1>1 DEF TypeOK, In, States
<1>3. In("idle") \in SUBSET Workers  BY DEF In
<1> QED  BY <1>1, <1>2, <1>3, OneMore

LEMMA SubmitInv == ASSUME PoolInv, NEW i \in Items, Submit(i) PROVE PoolInv'
<1> USE DEF PoolInv
<1>1. /\ queue' = Append(queue, i) /\ asked' = asked \cup {i}
      /\ UNCHANGED <<item, sink, results, main, answered>> /\ NotifyOne
  BY DEF Submit
<1>2. queue \in Seq(Items \cup {Shutdown})  BY DEF TypeOK
<1>3. queue' \in Seq(Items \cup {Shutdown}) /\ Len(queue') = Len(queue) + 1 /\ Len(queue) \in Nat
  BY <1>1, <1>2, AppendProperties, LenProperties
<1>4. CASE In("waiting") = {}
  <2>1. UNCHANGED state  BY <1>1, <1>4 DEF NotifyOne
  <2>2. In("waiting")' = {}  BY <1>4, <2>1 DEF In
  <2> QED  BY <1>1, <1>3, <2>1, <2>2 DEF TypeOK, ItemOK, SinkOK, Traced, NoSleepOverWork
<1>5. CASE In("waiting") # {}
  <2>1. PICK w \in In("waiting") : state' = [state EXCEPT ![w] = "idle"]
    BY <1>1, <1>5 DEF NotifyOne
  <2>2. /\ state' \in [Workers -> States]
        /\ Cardinality(In("idle")') = Cardinality(In("idle")) + 1
        /\ \A v \in Workers : state'[v] = "running" <=> state[v] = "running"
    BY <2>1, WakeOne
  <2>3. Len(queue) <= Cardinality(In("idle"))  BY <1>5 DEF NoSleepOverWork
  <2>4. Cardinality(In("idle")) \in Nat  BY Counting
  <2>5. NoSleepOverWork'  BY <1>3, <2>2, <2>3, <2>4 DEF NoSleepOverWork
  <2> QED  BY <1>1, <1>3, <2>2, <2>5 DEF TypeOK, ItemOK, SinkOK, Traced
<1> QED  BY <1>4, <1>5

LEMMA ReceiveInv == ASSUME PoolInv, Receive PROVE PoolInv'
<1> USE DEF PoolInv
<1>1. /\ results # <<>> /\ results' = Tail(results)
      /\ answered' = answered \cup {Head(results).node}
      /\ UNCHANGED <<queue, state, item, sink, main, asked>>
  BY DEF Receive
<1>2. results \in Seq(Answers)  BY DEF TypeOK, Answers
<1>3. /\ Head(results) \in Answers /\ Tail(results) \in Seq(Answers)
      /\ \A i \in 1 .. Len(Tail(results)) :
           i + 1 \in 1 .. Len(results) /\ Tail(results)[i] = results[i + 1]
  BY <1>1, <1>2, TailType
<1>4. TypeOK'  BY <1>1, <1>3 DEF TypeOK, Answers
<1>5. Traced'  BY <1>1, <1>3 DEF Traced
<1> QED  BY <1>1, <1>4, <1>5 DEF ItemOK, SinkOK, NoSleepOverWork, In

LEMMA SignalAndJoinInv == ASSUME PoolInv, SignalAndJoin PROVE PoolInv'
<1> USE DEF PoolInv
<1>1. /\ queue' = queue \o Sentinels /\ NotifyAll /\ main' = "joining"
      /\ UNCHANGED <<item, sink, results, asked, answered>>
  BY DEF SignalAndJoin, WithSentinels
<1>2. queue' \in Seq(Items \cup {Shutdown})
  BY <1>1, SentinelsType, ConcatProperties DEF TypeOK
<1>3. /\ state' \in [Workers -> States] /\ In("waiting")' = {}
      /\ \A v \in Workers : state'[v] = "running" <=> state[v] = "running"
  BY <1>1 DEF TypeOK, NotifyAll, In, States
<1>4. TypeOK'  BY <1>1, <1>2, <1>3 DEF TypeOK
<1> QED  BY <1>1, <1>3, <1>4 DEF ItemOK, SinkOK, Traced, NoSleepOverWork

LEMMA MainEndsInv == ASSUME PoolInv, Disconnected \/ Joined PROVE PoolInv'
<1>1. main' \in {"panicked", "closed"}
      /\ UNCHANGED <<queue, state, item, sink, results, asked, answered>>
  BY DEF Disconnected, Joined
<1> QED  BY <1>1 DEF PoolInv, TypeOK, ItemOK, SinkOK, Traced, NoSleepOverWork, In
----------------------------------------------------------------------------
(* A worker becomes idle, or fails to come up: nothing is taken away from    *)
(* the workers that are awake.                                               *)
LEMMA SetUpInv == ASSUME PoolInv, NEW w \in Workers, SetUp(w) PROVE PoolInv'
<1> USE DEF PoolInv
<1>1. /\ state[w] = "setup" /\ UNCHANGED <<queue, item, sink, results, main, asked, answered>>
      /\ \E s \in {"idle", "failed"} : state' = [state EXCEPT ![w] = s]
  BY DEF SetUp
<1>2. /\ state' \in [Workers -> States] /\ In("waiting")' = In("waiting")
      /\ In("idle") \subseteq In("idle")' /\ In("idle")' \in SUBSET Workers
      /\ \A v \in Workers : state'[v] = "running" <=> state[v] = "running"
  BY <1>1 DEF TypeOK, In, States
<1>3. Cardinality(In("idle")) <= Cardinality(In("idle")')  BY <1>2, MoreOrEqual
<1>4. Cardinality(In("idle")) \in Nat /\ Cardinality(In("idle")') \in Nat /\ Len(queue) \in Nat
  BY <1>2, Counting, LenProperties DEF TypeOK
<1>5. NoSleepOverWork'  BY <1>1, <1>2, <1>3, <1>4 DEF NoSleepOverWork
<1> QED  BY <1>1, <1>2, <1>5 DEF TypeOK, ItemOK, SinkOK, Traced

LEMMA WaitInv == ASSUME PoolInv, NEW w \in Workers, Wait(w) PROVE PoolInv'
<1> USE DEF PoolInv
<1>1. /\ state[w] = "idle" /\ queue = <<>> /\ state' = [state EXCEPT ![w] = "waiting"]
      /\ UNCHANGED <<queue, item, sink, results, main, asked, answered>>
  BY DEF Wait
<1>2. /\ state' \in [Workers -> States] /\ In("idle")' \in SUBSET Workers
      /\ \A v \in Workers : state'[v] = "running" <=> state[v] = "running"
  BY <1>1 DEF TypeOK, In, States
<1>3. Len(queue') = 0 /\ Cardinality(In("idle")') \in Nat  BY <1>1, <1>2, Counting
<1>4. NoSleepOverWork'  BY <1>3 DEF NoSleepOverWork
<1> QED  BY <1>1, <1>2, <1>4 DEF TypeOK, ItemOK, SinkOK, Traced

LEMMA SpuriousWakeInv == ASSUME PoolInv, NEW w \in Workers, SpuriousWake(w) PROVE PoolInv'
<1> USE DEF PoolInv
<1>1. /\ w \in In("waiting") /\ state' = [state EXCEPT ![w] = "idle"]
      /\ UNCHANGED <<queue, item, sink, results, main, asked, answered>>
  BY DEF SpuriousWake, In
<1>2. /\ state' \in [Workers -> States] /\ In("waiting")' \subseteq In("waiting")
      /\ Cardinality(In("idle")') = Cardinality(In("idle")) + 1
      /\ \A v \in Workers : state'[v] = "running" <=> state[v] = "running"
  BY <1>1, WakeOne
<1>3. Cardinality(In("idle")) \in Nat /\ Len(queue) \in Nat
  BY Counting, LenProperties DEF TypeOK
<1>4. NoSleepOverWork'  BY <1>1, <1>2, <1>3 DEF NoSleepOverWork
<1> QED  BY <1>1, <1>2, <1>4 DEF TypeOK, ItemOK, SinkOK, Traced

(* A worker takes an item, or the sentinel: one less is idle, and the queue  *)
(* is one shorter.                                                           *)
LEMMA TakeOne ==
  ASSUME PoolInv, NEW w \in Workers, NEW s \in {"running", "gone"},
         state[w] = "idle", queue # <<>>,
         queue' = Tail(queue), state' = [state EXCEPT ![w] = s]
  PROVE  /\ NoSleepOverWork' /\ state' \in [Workers -> States]
         /\ queue' \in Seq(Items \cup {Shutdown}) /\ Head(queue) \in Items \cup {Shutdown}
<1>1. queue \in Seq(Items \cup {Shutdown})  BY DEF PoolInv, TypeOK
<1>2. /\ Head(queue) \in Items \cup {Shutdown} /\ queue' \in Seq(Items \cup {Shutdown})
      /\ Len(queue') = Len(queue) - 1 /\ Len(queue) \in Nat
  BY <1>1, TailType
<1>3. /\ state' \in [Workers -> States] /\ In("waiting")' = In("waiting")
      /\ In("idle")' = In("idle") \ {w} /\ w \in In("idle") /\ In("idle") \in SUBSET Workers
  BY DEF PoolInv, TypeOK, In, States
<1>4. Cardinality(In("idle")') = Cardinality(In("idle")) - 1  BY <1>3, OneLess
<1>5. Cardinality(In("idle")) \in Nat  BY Counting
<1> QED  BY <1>2, <1>3, <1>4, <1>5 DEF PoolInv, NoSleepOverWork

LEMMA TakeInv == ASSUME PoolInv, NEW w \in Workers, Take(w) PROVE PoolInv'
<1>1. /\ state[w] = "idle" /\ queue # <<>> /\ Head(queue) # Shutdown
      /\ queue' = Tail(queue) /\ state' = [state EXCEPT ![w] = "running"]
      /\ item' = [item EXCEPT ![w] = Head(queue)] /\ sink' = [sink EXCEPT ![w] = {}]
      /\ UNCHANGED <<results, main, asked, answered>>
  BY DEF Take, ClearedSink
<1>2. /\ NoSleepOverWork' /\ state' \in [Workers -> States]
      /\ queue' \in Seq(Items \cup {Shutdown}) /\ Head(queue) \in Items
  BY <1>1, TakeOne
<1>3. TypeOK'  BY <1>1, <1>2 DEF PoolInv, TypeOK
<1>4. ItemOK' /\ SinkOK'  BY <1>1, <1>2 DEF PoolInv, TypeOK, ItemOK, SinkOK
<1> QED  BY <1>1, <1>2, <1>3, <1>4 DEF PoolInv, Traced

LEMMA LeaveInv == ASSUME PoolInv, NEW w \in Workers, Leave(w) PROVE PoolInv'
<1>1. /\ state[w] = "idle" /\ queue # <<>>
      /\ queue' = Tail(queue) /\ state' = [state EXCEPT ![w] = "gone"]
      /\ UNCHANGED <<item, sink, results, main, asked, answered>>
  BY DEF Leave
<1>2. /\ NoSleepOverWork' /\ state' \in [Workers -> States]
      /\ queue' \in Seq(Items \cup {Shutdown})
  BY <1>1, TakeOne
<1>3. TypeOK'  BY <1>1, <1>2 DEF PoolInv, TypeOK
<1>4. ItemOK' /\ SinkOK'  BY <1>1 DEF PoolInv, TypeOK, ItemOK, SinkOK
<1> QED  BY <1>1, <1>2, <1>3, <1>4 DEF PoolInv, Traced

(* Whatever a body leaves in the accumulators is of its own item. *)
LEMMA LeavesInv ==
  ASSUME PoolInv, NEW w \in Workers, NEW traces, Leaves(w, traces) PROVE PoolInv'
<1>1. /\ state[w] = "running" /\ traces \subseteq Traces(item[w])
      /\ sink' = [sink EXCEPT ![w] = @ \cup traces]
      /\ UNCHANGED <<queue, state, item, results, main, asked, answered>>
  BY DEF Leaves
<1>2. Traces(item[w]) \subseteq Items \X Streams  BY <1>1 DEF PoolInv, ItemOK, Traces
<1>3. TypeOK'  BY <1>1, <1>2 DEF PoolInv, TypeOK
<1>4. SinkOK'  BY <1>1 DEF PoolInv, TypeOK, SinkOK
<1> QED  BY <1>1, <1>3, <1>4 DEF PoolInv, ItemOK, Traced, NoSleepOverWork, In

LEMMA BodyInv == ASSUME PoolInv, NEW w \in Workers, Body(w) PROVE PoolInv'
<1>1. \E traces : Leaves(w, traces)  BY DEF Body, Prints, LoadsModule, CallsShell
<1> QED  BY <1>1, LeavesInv

(* A result takes what the accumulators hold, or leaves out its value, and   *)
(* only a result without a value has read from pipes of its own.             *)
LEMMA FinishInv ==
  ASSUME PoolInv, NEW w \in Workers, NEW ok \in BOOLEAN, NEW value \in BOOLEAN,
         NEW direct \in SUBSET Traces(item[w]), value => direct = {},
         Finish(w, ok, value, direct)
  PROVE  PoolInv'
<1> USE DEF PoolInv
<1> DEFINE r == [node |-> item[w], ok |-> ok, value |-> value,
                 traces |-> Logged(w, value) \cup direct]
<1>1. /\ state[w] = "running" /\ results' = Append(results, r)
      /\ sink' = [sink EXCEPT ![w] = {}] /\ item' = [item EXCEPT ![w] = None]
      /\ state' = [state EXCEPT ![w] = "idle"]
      /\ UNCHANGED <<queue, main, asked, answered>>
  BY DEF Finish, ClearedSink
<1>2. r \in Answers /\ ReportsOwn(r)
  <2>1. item[w] \in Items /\ sink[w] \subseteq Traces(item[w])
    BY <1>1 DEF ItemOK, SinkOK
  <2>2. Traces(item[w]) \subseteq Items \X Streams  BY <2>1 DEF Traces
  <2>3. /\ Logged(w, value) \subseteq sink[w]
        /\ value => <<item[w], "stdout">> \notin Logged(w, value)
    BY DEF Logged
  <2>4. r.traces \subseteq Traces(r.node) /\ r \in Answers  BY <2>1, <2>2, <2>3 DEF Answers
  <2>5. r.value => <<r.node, "stdout">> \notin r.traces  BY <2>3
  <2> QED  BY <2>4, <2>5 DEF ReportsOwn
<1> HIDE DEF r
<1>3. results \in Seq(Answers)  BY DEF TypeOK, Answers
<1>4. /\ results' \in Seq(Answers) /\ Len(results') = Len(results) + 1 /\ Len(results) \in Nat
      /\ results'[Len(results) + 1] = r
      /\ \A i \in 1 .. Len(results) : results'[i] = results[i]
  BY <1>1, <1>2, <1>3, AppendProperties, LenProperties
<1>5. Traced'
  <2> SUFFICES ASSUME NEW i \in 1 .. Len(results') PROVE ReportsOwn(results'[i])
    BY DEF Traced
  <2>1. i \in 1 .. Len(results) \/ i = Len(results) + 1  BY <1>4
  <2> QED  BY <1>2, <1>4, <2>1 DEF Traced
<1>6. /\ state' \in [Workers -> States] /\ In("waiting")' = In("waiting")
      /\ In("idle") \subseteq In("idle")' /\ In("idle")' \in SUBSET Workers
  BY <1>1 DEF TypeOK, In, States
<1>7. Cardinality(In("idle")) <= Cardinality(In("idle")')  BY <1>6, MoreOrEqual
<1>8. Cardinality(In("idle")) \in Nat /\ Cardinality(In("idle")') \in Nat /\ Len(queue) \in Nat
  BY <1>6, Counting, LenProperties DEF TypeOK
<1>9. NoSleepOverWork'  BY <1>1, <1>6, <1>7, <1>8 DEF NoSleepOverWork
<1>10. TypeOK'  BY <1>1, <1>4, <1>6 DEF TypeOK, Answers
<1>11. ItemOK' /\ SinkOK'  BY <1>1 DEF TypeOK, ItemOK, SinkOK
<1> QED  BY <1>5, <1>9, <1>10, <1>11
----------------------------------------------------------------------------
LEMMA EndsInv == ASSUME PoolInv, NEW w \in Workers, Ends(w) PROVE PoolInv'
<1>1. CASE ShellNotStarted(w) \/ LuaEnds(w) \/ Panics(w)
  <2>1. \E ok \in BOOLEAN : Finish(w, ok, FALSE, {})
    BY <1>1 DEF ShellNotStarted, LuaEnds, Panics
  <2> QED  BY <2>1, FinishInv
<1>2. CASE ShellExits(w)
  <2>1. PICK ok \in BOOLEAN, direct \in {{}, Traces(item[w])} : Finish(w, ok, FALSE, direct)
    BY <1>2 DEF ShellExits
  <2> QED  BY <2>1, FinishInv
<1>3. CASE ProbeEnds(w)
  <2>1. \E ok \in BOOLEAN : Finish(w, ok, ok, {})  BY <1>3 DEF ProbeEnds
  <2> QED  BY <2>1, FinishInv
<1> QED  BY <1>1, <1>2, <1>3 DEF Ends

LEMMA NextPool == ASSUME PoolInv, [Next]_vars PROVE PoolInv'
<1>1. CASE MainThread
  BY <1>1, SubmitInv, ReceiveInv, SignalAndJoinInv, MainEndsInv DEF MainThread
<1>2. ASSUME NEW w \in Workers, Worker(w) \/ Body(w) \/ SpuriousWake(w) PROVE PoolInv'
  BY <1>2, SetUpInv, WaitInv, TakeInv, LeaveInv, EndsInv, BodyInv, SpuriousWakeInv DEF Worker
<1>3. CASE UNCHANGED vars
  BY <1>3 DEF vars, PoolInv, TypeOK, ItemOK, SinkOK, Traced, NoSleepOverWork, In
<1> QED  BY <1>1, <1>2, <1>3 DEF Next

(* The invariant holds whatever the workers and the main thread do. *)
THEOREM PoolInvariance == Spec => []PoolInv
<1>1. Init => PoolInv  BY InitPool
<1>2. PoolInv /\ [Next]_vars => PoolInv'  BY NextPool
<1> QED  BY <1>1, <1>2, PTL DEF Spec

(* The queue holds items and sentinels, a worker executes an item. *)
THEOREM PoolTypeCorrect == Spec => []TypeOK
<1>1. PoolInv => TypeOK  BY DEF PoolInv
<1> QED  BY <1>1, PoolInvariance, PTL

(* No wakeup of the condition variable is lost, for any number of threads:   *)
(* one notify_one for each item is enough.                                   *)
THEOREM NoSleepOverWorkCorrect == Spec => []NoSleepOverWork
<1>1. PoolInv => NoSleepOverWork  BY DEF PoolInv
<1> QED  BY <1>1, PoolInvariance, PTL

(* A result never carries what another unit printed or loaded, nor the       *)
(* stdout that is its value.                                                 *)
THEOREM OwnTracesCorrect == Spec => []OwnTraces
<1>1. PoolInv => OwnTraces
  <2> SUFFICES ASSUME PoolInv PROVE OwnTraces
    OBVIOUS
  <2>1. DOMAIN results = 1 .. Len(results)  BY LenProperties DEF PoolInv, TypeOK
  <2> QED  BY <2>1 DEF PoolInv, Traced, OwnTraces
<1> QED  BY <1>1, PoolInvariance, PTL
----------------------------------------------------------------------------
(* The refinement.  In a queue the n items stand before the sentinels, a     *)
(* sentinel is there only once the main thread shuts the pool down, and a    *)
(* worker holds an item exactly while it runs one.                           *)
Parted(q, n) ==
  /\ n \in 0 .. Len(q)
  /\ \A j \in 1 .. n : q[j] \in Items
  /\ \A j \in (n + 1) .. Len(q) : q[j] = Shutdown

Holding == \A w \in Workers : state[w] # "running" => item[w] = None

Closing ==
  /\ main \in {"open", "panicked"} => Parted(queue, Len(queue))
  /\ In("gone") # {} => main \in {"joining", "closed"} /\ Parted(queue, 0)

LineInv == PoolInv /\ Holding /\ Closing /\ \E n \in Nat : Parted(queue, n)

Queues == Seq(Items \cup {Shutdown})

(* The items of a parted queue are its first n elements. *)
LEMMA WorkIs ==
  ASSUME NEW q \in Queues, NEW n, Parted(q, n)
  PROVE  /\ Work(q) = [j \in 1 .. n |-> q[j]]
         /\ Work(q) \in Seq(Items) /\ Len(Work(q)) = n /\ n \in Nat
         /\ \A j \in 1 .. n : Work(q)[j] = q[j]
<1>1. /\ Len(q) \in Nat /\ DOMAIN q = 1 .. Len(q) /\ n \in 0 .. Len(q)
      /\ \A j \in 1 .. n : q[j] \in Items
      /\ \A j \in (n + 1) .. Len(q) : q[j] = Shutdown
  BY LenProperties DEF Queues, Parted
<1>2. {k \in DOMAIN q : q[k] # Shutdown} = 1 .. n
  BY <1>1, MarkersAssumption
<1>3. Work(q) = [j \in 1 .. n |-> q[j]]  BY <1>2 DEF Work
<1> QED  BY <1>1, <1>3

(* Two sequences with the same elements are one. *)
LEMMA SameSequence ==
  ASSUME NEW S, NEW T, NEW s \in Seq(S), NEW t \in Seq(T), Len(s) = Len(t),
         \A i \in 1 .. Len(s) : s[i] = t[i]
  PROVE  s = t
<1>1. /\ s = [i \in 1 .. Len(s) |-> s[i]] /\ t = [i \in 1 .. Len(t) |-> t[i]]
  BY LenProperties
<1> QED  BY <1>1

Short == [node : Items, ok : BOOLEAN]

(* The answers of a channel. *)
LEMMA ResultIs ==
  ASSUME NEW s \in Seq(Answers)
  PROVE  /\ ResultOf(s) \in Seq(Short) /\ Len(ResultOf(s)) = Len(s)
         /\ \A i \in 1 .. Len(s) : ResultOf(s)[i] = Answer(s[i])
<1>1. Len(s) \in Nat /\ DOMAIN s = 1 .. Len(s) /\ \A i \in 1 .. Len(s) : s[i] \in Answers
  BY LenProperties, ElementOfSeq
<1>2. \A i \in 1 .. Len(s) : Answer(s[i]) \in Short
  BY <1>1 DEF Answer, Answers, Short
<1>3. ResultOf(s) = [i \in 1 .. Len(s) |-> Answer(s[i])]  BY <1>1 DEF ResultOf
<1> QED  BY <1>1, <1>2, <1>3

(* What is appended to a channel, and what is received from it, is so seen   *)
(* through the answers.                                                      *)
LEMMA ResultAppended ==
  ASSUME NEW s \in Seq(Answers), NEW r \in Answers
  PROVE  ResultOf(Append(s, r)) = Append(ResultOf(s), Answer(r))
<1> DEFINE t == Append(s, r)
<1>1. /\ t \in Seq(Answers) /\ Len(t) = Len(s) + 1 /\ Len(s) \in Nat
      /\ t[Len(s) + 1] = r /\ \A i \in 1 .. Len(s) : t[i] = s[i]
  BY AppendProperties, LenProperties
<1>2. Answer(r) \in Short  BY DEF Answer, Answers, Short
<1> DEFINE u == Append(ResultOf(s), Answer(r))
<1>3. /\ ResultOf(s) \in Seq(Short) /\ Len(ResultOf(s)) = Len(s)
      /\ \A i \in 1 .. Len(s) : ResultOf(s)[i] = Answer(s[i])
  BY ResultIs
<1>4. /\ u \in Seq(Short) /\ Len(u) = Len(s) + 1 /\ u[Len(s) + 1] = Answer(r)
      /\ \A i \in 1 .. Len(s) : u[i] = Answer(s[i])
  BY <1>2, <1>3, AppendProperties
<1> HIDE DEF t, u
<1>5. /\ ResultOf(t) \in Seq(Short) /\ Len(ResultOf(t)) = Len(s) + 1
      /\ \A i \in 1 .. Len(t) : ResultOf(t)[i] = Answer(t[i])
  BY <1>1, ResultIs
<1>6. \A i \in 1 .. Len(u) : u[i] = ResultOf(t)[i]  BY <1>1, <1>4, <1>5
<1>7. u = ResultOf(t)  BY <1>4, <1>5, <1>6, SameSequence
<1> QED  BY <1>7 DEF t, u

LEMMA ResultReceived ==
  ASSUME NEW s \in Seq(Answers), s # <<>>
  PROVE  ResultOf(s) # <<>> /\ ResultOf(Tail(s)) = Tail(ResultOf(s))
<1> DEFINE t == Tail(s)
           u == Tail(ResultOf(s))
<1>1. /\ t \in Seq(Answers) /\ Len(t) = Len(s) - 1 /\ Len(s) \in Nat /\ Len(s) >= 1
      /\ \A i \in 1 .. Len(t) : i + 1 \in 1 .. Len(s) /\ t[i] = s[i + 1]
  BY TailType
<1>2. /\ ResultOf(s) \in Seq(Short) /\ Len(ResultOf(s)) = Len(s)
      /\ \A i \in 1 .. Len(s) : ResultOf(s)[i] = Answer(s[i])
  BY ResultIs
<1>3. ResultOf(s) # <<>>  BY <1>1, <1>2
<1>4. /\ u \in Seq(Short) /\ Len(u) = Len(s) - 1
      /\ \A i \in 1 .. Len(u) : i + 1 \in 1 .. Len(s) /\ u[i] = ResultOf(s)[i + 1]
  BY <1>2, <1>3, TailType
<1> HIDE DEF t, u
<1>5. /\ ResultOf(t) \in Seq(Short) /\ Len(ResultOf(t)) = Len(t)
      /\ \A i \in 1 .. Len(t) : ResultOf(t)[i] = Answer(t[i])
  BY <1>1, ResultIs
<1>6. \A i \in 1 .. Len(u) : u[i] = ResultOf(t)[i]  BY <1>1, <1>2, <1>4, <1>5
<1>7. u = ResultOf(t)  BY <1>1, <1>4, <1>5, <1>6, SameSequence
<1> QED  BY <1>3, <1>7 DEF t, u

(* An item is queued where no sentinel is; sentinels are queued behind; the  *)
(* head is taken.                                                            *)
LEMMA WorkQueued ==
  ASSUME NEW q \in Queues, Parted(q, Len(q)), NEW i \in Items
  PROVE  /\ Parted(Append(q, i), Len(Append(q, i)))
         /\ Work(Append(q, i)) = Append(Work(q), i)
<1> DEFINE r == Append(q, i)
           u == Append(Work(q), i)
<1>1. /\ r \in Queues /\ Len(r) = Len(q) + 1 /\ Len(q) \in Nat
      /\ r[Len(q) + 1] = i /\ \A j \in 1 .. Len(q) : r[j] = q[j]
  BY AppendProperties, LenProperties DEF Queues
<1>2. /\ Work(q) \in Seq(Items) /\ Len(Work(q)) = Len(q)
      /\ \A j \in 1 .. Len(q) : Work(q)[j] = q[j]
  BY WorkIs
<1>3. /\ u \in Seq(Items) /\ Len(u) = Len(q) + 1 /\ u[Len(q) + 1] = i
      /\ \A j \in 1 .. Len(q) : u[j] = q[j]
  BY <1>2, AppendProperties
<1> HIDE DEF r, u
<1>4. Parted(r, Len(r))  BY <1>1 DEF Parted
<1>5. /\ Work(r) \in Seq(Items) /\ Len(Work(r)) = Len(r)
      /\ \A j \in 1 .. Len(r) : Work(r)[j] = r[j]
  BY <1>1, <1>4, WorkIs
<1>6. u = Work(r)  BY <1>1, <1>3, <1>5, SameSequence
<1> QED  BY <1>4, <1>6 DEF r, u

LEMMA WorkClosed ==
  ASSUME NEW q \in Queues, Parted(q, Len(q))
  PROVE  /\ Parted(q \o Sentinels, Len(q)) /\ q \o Sentinels \in Queues
         /\ Work(q \o Sentinels) = Work(q)
<1> DEFINE r == q \o Sentinels
<1>1. /\ Sentinels \in Queues /\ Len(Sentinels) \in Nat
      /\ \A k \in 1 .. Len(Sentinels) : Sentinels[k] = Shutdown
  BY WorkersAssumption, FS_CardinalityType, SentinelsType DEF Sentinels, Queues
<1>2. /\ r \in Queues /\ Len(r) = Len(q) + Len(Sentinels) /\ Len(q) \in Nat
      /\ \A j \in 1 .. Len(r) : r[j] = IF j <= Len(q) THEN q[j] ELSE Sentinels[j - Len(q)]
  BY <1>1, ConcatProperties, LenProperties DEF Queues
<1> HIDE DEF r
<1>3. Parted(r, Len(q))  BY <1>1, <1>2 DEF Parted
<1>4. /\ Work(q) \in Seq(Items) /\ Len(Work(q)) = Len(q)
      /\ \A j \in 1 .. Len(q) : Work(q)[j] = q[j]
  BY WorkIs
<1>5. /\ Work(r) \in Seq(Items) /\ Len(Work(r)) = Len(q)
      /\ \A j \in 1 .. Len(q) : Work(r)[j] = r[j]
  BY <1>2, <1>3, WorkIs
<1>6. Work(r) = Work(q)  BY <1>2, <1>4, <1>5, SameSequence
<1> QED  BY <1>2, <1>3, <1>6 DEF r

LEMMA WorkTaken ==
  ASSUME NEW q \in Queues, NEW n, Parted(q, n), q # <<>>
  PROVE  /\ Head(q) # Shutdown =>
              /\ n >= 1 /\ Parted(Tail(q), n - 1) /\ n - 1 \in Nat
              /\ Work(q) # <<>> /\ Head(Work(q)) = Head(q)
              /\ Work(Tail(q)) = Tail(Work(q))
         /\ Head(q) = Shutdown =>
              n = 0 /\ Parted(Tail(q), 0) /\ Work(Tail(q)) = Work(q)
<1> DEFINE r == Tail(q)
<1>1. /\ r \in Queues /\ Len(r) = Len(q) - 1 /\ Len(q) \in Nat /\ Len(q) >= 1
      /\ \A i \in 1 .. Len(r) : i + 1 \in 1 .. Len(q) /\ r[i] = q[i + 1]
  BY TailType DEF Queues
<1>2. Head(q) = q[1]  BY HeadTailProperties DEF Queues
<1> HIDE DEF r
<1>3. /\ n \in 0 .. Len(q) /\ \A j \in 1 .. n : q[j] \in Items
      /\ \A j \in (n + 1) .. Len(q) : q[j] = Shutdown
  BY DEF Parted
<1>4. /\ Work(q) \in Seq(Items) /\ Len(Work(q)) = n
      /\ \A j \in 1 .. n : Work(q)[j] = q[j]
  BY WorkIs
<1>5. CASE Head(q) # Shutdown
  <2>1. n >= 1  BY <1>1, <1>2, <1>3, <1>5
  <2>2. Parted(r, n - 1)  BY <1>1, <1>3, <2>1 DEF Parted
  <2>3. /\ Work(r) \in Seq(Items) /\ Len(Work(r)) = n - 1
        /\ \A j \in 1 .. n - 1 : Work(r)[j] = r[j]
    BY <1>1, <2>2, WorkIs
  <2>4. Work(q) # <<>>  BY <1>4, <2>1
  <2> DEFINE u == Tail(Work(q))
  <2>5. /\ u \in Seq(Items) /\ Len(u) = n - 1
        /\ \A i \in 1 .. Len(u) : i + 1 \in 1 .. n /\ u[i] = Work(q)[i + 1]
    BY <1>4, <2>4, TailType
  <2>6. Head(Work(q)) = Work(q)[1]  BY <1>4, <2>4, HeadTailProperties
  <2> HIDE DEF u
  <2>7. n - 1 \in Nat  BY <1>1, <1>3, <2>1
  <2>8. \A i \in 1 .. Len(u) : u[i] = Work(r)[i]
    BY <1>1, <1>3, <1>4, <2>3, <2>5, <2>7
  <2>9. u = Work(r)  BY <2>3, <2>5, <2>8, SameSequence
  <2> QED  BY <1>2, <1>4, <1>5, <2>1, <2>2, <2>4, <2>6, <2>7, <2>9 DEF u, r
<1>6. CASE Head(q) = Shutdown
  <2>1. n = 0  BY <1>1, <1>2, <1>3, <1>6, MarkersAssumption
  <2>2. Parted(r, 0)  BY <1>1, <1>3, <2>1 DEF Parted
  <2>3. Work(r) \in Seq(Items) /\ Len(Work(r)) = 0  BY <1>1, <2>2, WorkIs
  <2>4. Work(r) = Work(q)  BY <1>4, <2>1, <2>3, EmptySeq
  <2> QED  BY <1>5, <1>6, <2>1, <2>2, <2>4 DEF r
<1> QED  BY <1>5, <1>6
----------------------------------------------------------------------------
LEMMA InitLine == ASSUME Init PROVE LineInv
<1>1. PoolInv  BY InitPool
<1>2. Parted(queue, 0) /\ Len(queue) = 0 /\ In("gone") = {}
  BY DEF Init, Parted, In
<1>3. Holding  BY DEF Init, Holding
<1> QED  BY <1>1, <1>2, <1>3 DEF LineInv, Closing

(* A step that leaves the queue and the items alone keeps the line.          *)
LEMMA LineAlone ==
  ASSUME LineInv, UNCHANGED <<queue, item>>,
         \/ main' = main
         \/ main = "open" /\ main' = "panicked"
         \/ main = "joining" /\ main' = "closed",
         In("gone")' = In("gone"),
         \A w \in Workers : state'[w] = "running" <=> state[w] = "running"
  PROVE  Holding' /\ Closing' /\ (\E n \in Nat : Parted(queue, n))'
<1>1. Parted(queue, Len(queue)) => Parted(queue, Len(queue))'  BY DEF Parted
<1>2. Parted(queue, 0) => Parted(queue, 0)'  BY DEF Parted
<1>3. Closing'  BY <1>1, <1>2 DEF LineInv, Closing
<1>4. PICK n \in Nat : Parted(queue, n)  BY DEF LineInv
<1>5. Parted(queue, n)'  BY <1>4 DEF Parted
<1>6. Holding'  BY DEF LineInv, Holding
<1> QED  BY <1>3, <1>5, <1>6

StepKept == LineInv' /\ [Contract!Next]_(Contract!vars)

LEMMA SubmitStep == ASSUME LineInv, NEW i \in Items, Submit(i) PROVE StepKept
<1>1. /\ main = "open" /\ i \notin asked /\ queue' = Append(queue, i) /\ NotifyOne
      /\ asked' = asked \cup {i}
      /\ UNCHANGED <<item, sink, results, main, answered>>
  BY DEF Submit
<1>2. PoolInv'  BY SubmitInv DEF LineInv
<1>3. queue \in Queues /\ Parted(queue, Len(queue))
  BY <1>1 DEF LineInv, PoolInv, TypeOK, Queues, Closing
<1>4. /\ Parted(queue', Len(queue')) /\ Work(queue') = Append(Work(queue), i)
  BY <1>1, <1>3, WorkQueued
<1>5. Len(queue') \in Nat  BY <1>2, LenProperties DEF PoolInv, TypeOK
<1>6. /\ \A w \in Workers : state'[w] = "running" <=> state[w] = "running"
      /\ In("gone")' = In("gone")
  <2>1. CASE In("waiting") = {}  BY <1>1, <2>1 DEF NotifyOne, In
  <2>2. CASE In("waiting") # {}
    <3>1. PICK w \in In("waiting") : state' = [state EXCEPT ![w] = "idle"]
      BY <1>1, <2>2 DEF NotifyOne
    <3> QED  BY <3>1 DEF LineInv, PoolInv, TypeOK, In
  <2> QED  BY <2>1, <2>2
<1>7. In("gone") = {}  BY <1>1 DEF LineInv, Closing
<1>8. LineInv'
  BY <1>1, <1>2, <1>4, <1>5, <1>6, <1>7 DEF LineInv, Holding, Closing
<1>9. Contract!Submit(i)  BY <1>1, <1>4 DEF Contract!Submit
<1> QED  BY <1>8, <1>9 DEF StepKept, Contract!Next

LEMMA ReceiveStep == ASSUME LineInv, Receive PROVE StepKept
<1>1. /\ results # <<>> /\ results' = Tail(results)
      /\ UNCHANGED <<queue, state, item, sink, main, asked>>
  BY DEF Receive
<1>2. PoolInv'  BY ReceiveInv DEF LineInv
<1>3. LineInv'
  <2>1. In("gone")' = In("gone")  BY <1>1 DEF In
  <2> QED  BY <1>1, <1>2, <2>1, LineAlone DEF LineInv
<1>4. results \in Seq(Answers)  BY DEF LineInv, PoolInv, TypeOK, Answers
<1>5. ResultOf(results) # <<>> /\ ResultOf(results') = Tail(ResultOf(results))
  BY <1>1, <1>4, ResultReceived
<1>6. Contract!Receive  BY <1>1, <1>5 DEF Contract!Receive
<1> QED  BY <1>3, <1>6 DEF StepKept, Contract!Next

LEMMA SignalAndJoinStep == ASSUME LineInv, SignalAndJoin PROVE StepKept
<1>1. /\ main \in {"open", "panicked"} /\ queue' = queue \o Sentinels /\ NotifyAll
      /\ main' = "joining" /\ UNCHANGED <<item, sink, results, asked, answered>>
  BY DEF SignalAndJoin, WithSentinels
<1>2. PoolInv'  BY SignalAndJoinInv DEF LineInv
<1>3. queue \in Queues /\ Parted(queue, Len(queue)) /\ In("gone") = {}
  BY <1>1 DEF LineInv, PoolInv, TypeOK, Queues, Closing
<1>4. /\ Parted(queue', Len(queue)) /\ Work(queue') = Work(queue)
  BY <1>1, <1>3, WorkClosed
<1>5. Len(queue) \in Nat  BY <1>3, LenProperties DEF Queues
<1>6. /\ \A w \in Workers : state'[w] = "running" <=> state[w] = "running"
      /\ In("gone")' = {}
  BY <1>1, <1>3 DEF LineInv, PoolInv, TypeOK, NotifyAll, In
<1>7. LineInv'
  BY <1>1, <1>2, <1>4, <1>5, <1>6 DEF LineInv, Holding, Closing
<1>8. UNCHANGED Contract!vars  BY <1>1, <1>4 DEF Contract!vars
<1> QED  BY <1>7, <1>8 DEF StepKept

(* What leaves the contract's state alone. *)
LEMMA QuietStep ==
  ASSUME LineInv,
         \/ Disconnected \/ Joined
         \/ \E w \in Workers : SetUp(w) \/ Wait(w) \/ Body(w) \/ SpuriousWake(w)
         \/ UNCHANGED vars
  PROVE  StepKept
<1>1. PoolInv'
  <2>1. PoolInv  BY DEF LineInv
  <2>2. [Next]_vars  BY DEF Next, MainThread, Worker
  <2> QED  BY <2>1, <2>2, NextPool
<1>2. state \in [Workers -> States]  BY DEF LineInv, PoolInv, TypeOK
<1>3. UNCHANGED <<queue, item, results, asked>>
  BY DEF Disconnected, Joined, SetUp, Wait, Body, Prints, LoadsModule, CallsShell, Leaves,
         SpuriousWake, vars
<1>4. \/ main' = main
      \/ main = "open" /\ main' = "panicked"
      \/ main = "joining" /\ main' = "closed"
  BY DEF Disconnected, Joined, SetUp, Wait, Body, Prints, LoadsModule, CallsShell, Leaves,
         SpuriousWake, vars
<1>5. /\ In("gone")' = In("gone")
      /\ \A w \in Workers : state'[w] = "running" <=> state[w] = "running"
  <2>1. CASE UNCHANGED state  BY <2>1 DEF In
  <2>2. ASSUME NEW w \in Workers, SetUp(w) \/ Wait(w) \/ SpuriousWake(w) PROVE <1>5
    <3>1. PICK s \in {"idle", "failed", "waiting"} : state' = [state EXCEPT ![w] = s]
      BY <2>2 DEF SetUp, Wait, SpuriousWake
    <3>2. state[w] \in {"setup", "idle", "waiting"}  BY <2>2 DEF SetUp, Wait, SpuriousWake
    <3> QED  BY <1>2, <3>1, <3>2 DEF In
  <2>3. UNCHANGED state \/ \E w \in Workers : SetUp(w) \/ Wait(w) \/ SpuriousWake(w)
    BY DEF Disconnected, Joined, Body, Prints, LoadsModule, CallsShell, Leaves, vars
  <2> QED  BY <2>1, <2>2, <2>3
<1>6. LineInv'  BY <1>1, <1>3, <1>4, <1>5, LineAlone DEF LineInv
<1>7. UNCHANGED Contract!vars  BY <1>3 DEF Contract!vars
<1> QED  BY <1>6, <1>7 DEF StepKept

LEMMA TakeStep == ASSUME LineInv, NEW w \in Workers, Take(w) PROVE StepKept
<1>1. /\ state[w] = "idle" /\ queue # <<>> /\ Head(queue) # Shutdown
      /\ queue' = Tail(queue) /\ state' = [state EXCEPT ![w] = "running"]
      /\ item' = [item EXCEPT ![w] = Head(queue)]
      /\ UNCHANGED <<results, main, asked, answered>>
  BY DEF Take
<1>2. PoolInv'  BY TakeInv DEF LineInv
<1>3. /\ queue \in Queues /\ state \in [Workers -> States]
      /\ item \in [Workers -> Items \cup {None}]
  BY DEF LineInv, PoolInv, TypeOK, Queues
<1>4. PICK n \in Nat : Parted(queue, n)  BY DEF LineInv
<1>5. /\ n >= 1 /\ Parted(queue', n - 1) /\ n - 1 \in Nat
      /\ Work(queue) # <<>> /\ Head(Work(queue)) = Head(queue)
      /\ Work(queue') = Tail(Work(queue))
  BY <1>1, <1>3, <1>4, WorkTaken
<1>6. In("gone")' = In("gone")  BY <1>1, <1>3 DEF In
<1>7. Closing'
  <2>1. ASSUME In("gone") # {} PROVE FALSE
    <3>1. Parted(queue, 0)  BY <2>1 DEF LineInv, Closing
    <3> QED  BY <1>1, <1>3, <3>1, WorkTaken
  <2>2. ASSUME main \in {"open", "panicked"} PROVE Parted(queue', Len(queue'))
    <3>1. Parted(queue, Len(queue))  BY <2>2 DEF LineInv, Closing
    <3>2. Parted(queue', Len(queue) - 1)  BY <1>1, <1>3, <3>1, WorkTaken
    <3>3. Len(queue') = Len(queue) - 1  BY <1>1, <1>3, TailType DEF Queues
    <3> QED  BY <3>2, <3>3
  <2> QED  BY <1>1, <1>6, <2>1, <2>2 DEF Closing
<1>8. Holding'  BY <1>1, <1>3 DEF LineInv, Holding
<1>9. Contract!Take(w)
  BY <1>1, <1>5 DEF Contract!Take, LineInv, Holding
<1> QED  BY <1>2, <1>5, <1>7, <1>8, <1>9 DEF StepKept, LineInv, Contract!Next

LEMMA LeaveStep == ASSUME LineInv, NEW w \in Workers, Leave(w) PROVE StepKept
<1>1. /\ state[w] = "idle" /\ queue # <<>> /\ Head(queue) = Shutdown
      /\ queue' = Tail(queue) /\ state' = [state EXCEPT ![w] = "gone"]
      /\ UNCHANGED <<item, sink, results, main, asked, answered>>
  BY DEF Leave
<1>2. PoolInv'  BY LeaveInv DEF LineInv
<1>3. queue \in Queues /\ state \in [Workers -> States]
  BY DEF LineInv, PoolInv, TypeOK, Queues
<1>4. PICK n \in Nat : Parted(queue, n)  BY DEF LineInv
<1>5. n = 0 /\ Parted(queue', 0) /\ Work(queue') = Work(queue)
  BY <1>1, <1>3, <1>4, WorkTaken
<1>6. main \in {"joining", "closed"}
  <2>1. ASSUME main \in {"open", "panicked"} PROVE FALSE
    <3>1. Parted(queue, Len(queue))  BY <2>1 DEF LineInv, Closing
    <3>2. Len(queue) = 0  BY <1>1, <1>3, <3>1, WorkTaken
    <3> QED  BY <1>1, <1>3, <3>2, EmptySeq DEF Queues
  <2> QED  BY <2>1 DEF LineInv, PoolInv, TypeOK
<1>7. Closing'  BY <1>1, <1>5, <1>6 DEF Closing
<1>8. Holding'  BY <1>1, <1>3 DEF LineInv, Holding
<1>9. UNCHANGED Contract!vars  BY <1>1, <1>5 DEF Contract!vars
<1> QED  BY <1>2, <1>5, <1>7, <1>8, <1>9 DEF StepKept, LineInv

LEMMA EndsStep == ASSUME LineInv, NEW w \in Workers, Ends(w) PROVE StepKept
<1>0. PICK ok \in BOOLEAN, value \in BOOLEAN :
        \E direct \in {{}, Traces(item[w])} : Finish(w, ok, value, direct)
  BY DEF Ends, ShellNotStarted, ShellExits, LuaEnds, ProbeEnds, Panics
<1>1. PICK direct \in {{}, Traces(item[w])} : Finish(w, ok, value, direct)  BY <1>0
<1> DEFINE r == [node |-> item[w], ok |-> ok, value |-> value,
                 traces |-> Logged(w, value) \cup direct]
<1>2. /\ state[w] = "running" /\ results' = Append(results, r)
      /\ item' = [item EXCEPT ![w] = None] /\ state' = [state EXCEPT ![w] = "idle"]
      /\ UNCHANGED <<queue, main, asked, answered>>
  BY <1>1 DEF Finish
<1>3. PoolInv'  BY EndsInv DEF LineInv
<1>4. /\ state \in [Workers -> States] /\ item \in [Workers -> Items \cup {None}]
      /\ results \in Seq(Answers) /\ item[w] \in Items
  BY <1>2 DEF LineInv, PoolInv, TypeOK, ItemOK, Answers
<1>5. r \in Answers
  <2>1. results' \in Seq(Answers)  BY <1>3 DEF PoolInv, TypeOK, Answers
  <2> HIDE DEF r
  <2>2. /\ Len(results') = Len(results) + 1 /\ results'[Len(results) + 1] = r
        /\ Len(results) \in Nat
    BY <1>2, <1>4, AppendProperties, LenProperties
  <2> QED  BY <2>1, <2>2, ElementOfSeq
<1>6. Answer(r) = [node |-> item[w], ok |-> ok]  BY DEF Answer
<1> HIDE DEF r
<1>7. ResultOf(results') = Append(ResultOf(results), [node |-> item[w], ok |-> ok])
  BY <1>2, <1>4, <1>5, <1>6, ResultAppended
<1>8. Contract!SendResult(w, ok)
  BY <1>2, <1>4, <1>7, MarkersAssumption DEF Contract!SendResult
<1>9. Holding'  BY <1>2, <1>4 DEF LineInv, Holding
<1>10. In("gone")' = In("gone")  BY <1>2, <1>4 DEF In
<1>11. Closing' /\ (\E n \in Nat : Parted(queue, n))'  BY <1>2, <1>10 DEF LineInv, Closing
<1> QED  BY <1>3, <1>8, <1>9, <1>11 DEF StepKept, LineInv, Contract!Next

LEMMA NextLine == ASSUME LineInv, [Next]_vars PROVE StepKept
<1>1. CASE MainThread
  BY <1>1, SubmitStep, ReceiveStep, SignalAndJoinStep, QuietStep DEF MainThread
<1>2. ASSUME NEW w \in Workers, Worker(w) \/ Body(w) \/ SpuriousWake(w) PROVE StepKept
  BY <1>2, TakeStep, LeaveStep, EndsStep, QuietStep DEF Worker
<1>3. CASE UNCHANGED vars  BY <1>3, QuietStep
<1> QED  BY <1>1, <1>2, <1>3 DEF Next

(* The pool is what the executor takes it for, with any number of threads:   *)
(* every item submitted is taken by one worker, oldest first, and answered   *)
(* once; a shutdown, a wakeup for no reason, a worker that fails to come up  *)
(* change nothing of it.                                                     *)
THEOREM ImplementsContractCorrect == Spec => ImplementsContract
<1>1. Init => LineInv  BY InitLine
<1>2. Init => Contract!Init
  <2> SUFFICES ASSUME Init PROVE Contract!Init
    OBVIOUS
  <2>1. queue = <<>> /\ results = <<>> /\ asked = {} /\ item = [w \in Workers |-> None]
    BY DEF Init
  <2>2. /\ <<>> \in Queues /\ Parted(<<>>, 0) /\ <<>> \in Seq(Answers) /\ Len(<<>>) = 0
    BY DEF Queues, Parted
  <2>3. Work(<<>>) = <<>>  BY <2>2, WorkIs, EmptySeq
  <2>4. ResultOf(<<>>) = <<>>  BY <2>2, ResultIs, EmptySeq
  <2> QED  BY <2>1, <2>3, <2>4 DEF Contract!Init
<1>3. LineInv /\ [Next]_vars => LineInv' /\ [Contract!Next]_(Contract!vars)
  BY NextLine DEF StepKept
<1> QED  BY <1>1, <1>2, <1>3, PTL DEF Spec, ImplementsContract, Contract!Spec
----------------------------------------------------------------------------
(* Nothing submitted gets lost: an item is in the queue, with a worker, in   *)
(* the channel or received; and once the join is over no worker runs.        *)
Holds(s, x) == \E j \in 1 .. Len(s) : s[j] = x
Answering(i) == \E k \in 1 .. Len(results) : results[k].node = i
Somewhere(i) ==
  \/ Holds(queue, i)
  \/ \E w \in Workers : item[w] = i
  \/ Answering(i)
  \/ i \in answered

Accounted == \A i \in Items : i \in asked <=> Somewhere(i)
Over == main = "closed" => \A w \in Workers : state[w] \in {"gone", "failed"}
FlushInv == LineInv /\ Accounted /\ Over

LEMMA TailHolds ==
  ASSUME NEW S, NEW s \in Seq(S), s # <<>>, NEW x
  PROVE  Holds(s, x) <=> Head(s) = x \/ Holds(Tail(s), x)
<1>1. /\ Len(Tail(s)) = Len(s) - 1 /\ Len(s) \in Nat /\ Len(s) >= 1
      /\ \A i \in 1 .. Len(Tail(s)) : i + 1 \in 1 .. Len(s) /\ Tail(s)[i] = s[i + 1]
  BY TailType
<1>2. Head(s) = s[1]  BY HeadTailProperties
<1>3. ASSUME NEW j \in 1 .. Len(s), s[j] = x, j # 1 PROVE Holds(Tail(s), x)
  <2>1. j - 1 \in 1 .. Len(Tail(s)) /\ Tail(s)[j - 1] = s[j]  BY <1>1, <1>3
  <2> QED  BY <1>3, <2>1 DEF Holds
<1>4. Holds(s, x) => Head(s) = x \/ Holds(Tail(s), x)  BY <1>2, <1>3 DEF Holds
<1>5. Holds(Tail(s), x) => Holds(s, x)  BY <1>1 DEF Holds
<1>6. Head(s) = x => Holds(s, x)  BY <1>1, <1>2 DEF Holds
<1> QED  BY <1>4, <1>5, <1>6

LEMMA AppendHolds ==
  ASSUME NEW S, NEW s \in Seq(S), NEW e \in S, NEW x
  PROVE  Holds(Append(s, e), x) <=> Holds(s, x) \/ e = x
<1> DEFINE r == Append(s, e)
<1>1. /\ Len(r) = Len(s) + 1 /\ Len(s) \in Nat
      /\ r[Len(s) + 1] = e /\ \A j \in 1 .. Len(s) : r[j] = s[j]
  BY AppendProperties, LenProperties
<1> HIDE DEF r
<1>2. \A j \in 1 .. Len(r) : j \in 1 .. Len(s) \/ j = Len(s) + 1  BY <1>1
<1>3. Holds(r, x) => Holds(s, x) \/ e = x  BY <1>1, <1>2 DEF Holds
<1>4. Holds(s, x) \/ e = x => Holds(r, x)  BY <1>1 DEF Holds
<1> QED  BY <1>3, <1>4 DEF r

LEMMA SentinelsHold ==
  ASSUME NEW q \in Queues, NEW x \in Items
  PROVE  Holds(q \o Sentinels, x) <=> Holds(q, x)
<1> DEFINE r == q \o Sentinels
<1>1. /\ Sentinels \in Queues /\ Len(Sentinels) \in Nat
      /\ \A k \in 1 .. Len(Sentinels) : Sentinels[k] = Shutdown
  BY WorkersAssumption, FS_CardinalityType, SentinelsType DEF Sentinels, Queues
<1>2. /\ Len(r) = Len(q) + Len(Sentinels) /\ Len(q) \in Nat
      /\ \A j \in 1 .. Len(r) : r[j] = IF j <= Len(q) THEN q[j] ELSE Sentinels[j - Len(q)]
  BY <1>1, ConcatProperties, LenProperties DEF Queues
<1> HIDE DEF r
<1>3. \A j \in 1 .. Len(r) : r[j] = x => j \in 1 .. Len(q) /\ q[j] = x
  BY <1>1, <1>2, MarkersAssumption
<1>4. Holds(r, x) => Holds(q, x)  BY <1>3 DEF Holds
<1>5. Holds(q, x) => Holds(r, x)  BY <1>1, <1>2 DEF Holds
<1> QED  BY <1>4, <1>5 DEF r

LEMMA InitFlush == ASSUME Init PROVE FlushInv
<1>1. LineInv  BY InitLine
<1>2. Len(queue) = 0 /\ Len(results) = 0 /\ answered = {} /\ asked = {}  BY DEF Init
<1>3. Accounted
  BY <1>2, MarkersAssumption DEF Init, Accounted, Somewhere, Holds, Answering
<1> QED  BY <1>1, <1>3 DEF Init, FlushInv, Over

LEMMA MainAccounts == ASSUME FlushInv, MainThread PROVE Accounted' /\ Over'
<1>1. /\ queue \in Queues /\ results \in Seq(Answers) /\ asked \subseteq Items
      /\ answered \subseteq Items /\ Accounted /\ Over
  BY DEF FlushInv, LineInv, PoolInv, TypeOK, Queues, Answers
<1>2. ASSUME NEW i \in Items, Submit(i) PROVE Accounted' /\ Over'
  <2>1. /\ main = "open" /\ queue' = Append(queue, i) /\ asked' = asked \cup {i}
        /\ UNCHANGED <<item, sink, results, main, answered>>
    BY <1>2 DEF Submit
  <2>2. \A x \in Items : Holds(queue, x)' <=> Holds(queue, x) \/ x = i
    BY <1>1, <2>1, AppendHolds DEF Queues, Holds
  <2>3. \A x \in Items : Somewhere(x)' <=> Somewhere(x) \/ x = i
    BY <2>1, <2>2 DEF Somewhere, Answering
  <2> QED  BY <1>1, <2>1, <2>3 DEF Accounted, Over
<1>3. CASE Receive
  <2>1. /\ results # <<>> /\ results' = Tail(results)
        /\ answered' = answered \cup {Head(results).node}
        /\ UNCHANGED <<queue, state, item, sink, main, asked>>
    BY <1>3 DEF Receive
  <2>2. /\ Len(results') = Len(results) - 1 /\ Len(results) \in Nat /\ Len(results) >= 1
        /\ \A k \in 1 .. Len(results') : k + 1 \in 1 .. Len(results) /\ results'[k] = results[k + 1]
    BY <1>1, <2>1, TailType
  <2>3. Head(results) = results[1]  BY <1>1, <2>1, HeadTailProperties
  <2>4. \A x \in Items : Answering(x)' => Answering(x)  BY <2>2 DEF Answering
  <2>5. ASSUME NEW x \in Items, NEW k \in 1 .. Len(results), results[k].node = x, k # 1
        PROVE  Answering(x)'
    <3>1. k - 1 \in 1 .. Len(results') /\ results'[k - 1] = results[k]  BY <2>2, <2>5
    <3> QED  BY <2>5, <3>1 DEF Answering
  <2>6. \A x \in Items : Answering(x) => Answering(x)' \/ x = Head(results).node
    BY <2>3, <2>5 DEF Answering
  <2>7. Answering(Head(results).node)  BY <2>2, <2>3 DEF Answering
  <2>8. \A x \in Items : Somewhere(x)' <=> Somewhere(x)
    BY <2>1, <2>4, <2>6, <2>7 DEF Somewhere, Holds
  <2> QED  BY <1>1, <2>1, <2>8 DEF Accounted, Over
<1>4. CASE SignalAndJoin
  <2>1. /\ queue' = queue \o Sentinels /\ main' = "joining"
        /\ UNCHANGED <<item, sink, results, asked, answered>>
    BY <1>4 DEF SignalAndJoin, WithSentinels
  <2>2. \A x \in Items : Holds(queue, x)' <=> Holds(queue, x)
    BY <1>1, <2>1, SentinelsHold DEF Holds
  <2>3. \A x \in Items : Somewhere(x)' <=> Somewhere(x)
    BY <2>1, <2>2 DEF Somewhere, Answering
  <2> QED  BY <1>1, <2>1, <2>3 DEF Accounted, Over
<1>5. CASE Disconnected \/ Joined
  <2>1. /\ UNCHANGED <<queue, state, item, results, asked, answered>>
        /\ main' = "closed" => Ended = Workers
    BY <1>5 DEF Disconnected, Joined
  <2>2. Over'  BY <2>1 DEF Over, Ended, In
  <2> QED  BY <1>1, <2>1, <2>2 DEF Accounted, Somewhere, Holds, Answering
<1> QED  BY <1>2, <1>3, <1>4, <1>5 DEF MainThread

LEMMA WorkerAccounts ==
  ASSUME FlushInv, NEW w \in Workers, Worker(w) \/ Body(w) \/ SpuriousWake(w)
  PROVE  Accounted' /\ Over'
<1>1. /\ queue \in Queues /\ results \in Seq(Answers) /\ Accounted /\ Over
      /\ state \in [Workers -> States] /\ item \in [Workers -> Items \cup {None}]
      /\ \A v \in Workers : state[v] # "running" => item[v] = None
      /\ \A v \in Workers : state[v] = "running" => item[v] \in Items
  BY DEF FlushInv, LineInv, PoolInv, TypeOK, Queues, Answers, Holding, ItemOK
<1>2. Over'
  <2>1. CASE Ends(w)
    BY <1>1, <2>1 DEF Over, Ends, Finish, ShellNotStarted, ShellExits, LuaEnds, ProbeEnds, Panics
  <2>2. CASE Body(w)
    BY <1>1, <2>2 DEF Over, Body, Prints, LoadsModule, CallsShell, Leaves
  <2>3. CASE SetUp(w) \/ Wait(w) \/ Take(w) \/ Leave(w) \/ SpuriousWake(w)
    <3>1. state[w] \in {"setup", "idle", "waiting"} /\ UNCHANGED main
      BY <2>3 DEF SetUp, Wait, Take, Leave, SpuriousWake
    <3> QED  BY <1>1, <3>1 DEF Over
  <2> QED  BY <2>1, <2>2, <2>3 DEF Worker
<1>3. CASE SetUp(w) \/ Wait(w) \/ SpuriousWake(w) \/ Body(w)
  <2>1. UNCHANGED <<queue, item, results, asked, answered>>
    BY <1>3 DEF SetUp, Wait, SpuriousWake, Body, Prints, LoadsModule, CallsShell, Leaves
  <2> QED  BY <1>1, <1>2, <2>1 DEF Accounted, Somewhere, Holds, Answering
<1>4. CASE Take(w) \/ Leave(w)
  <2>1. /\ state[w] = "idle" /\ queue # <<>> /\ queue' = Tail(queue)
        /\ UNCHANGED <<results, asked, answered>>
        /\ \/ item' = [item EXCEPT ![w] = Head(queue)]
           \/ Head(queue) = Shutdown /\ item' = item
    BY <1>4 DEF Take, Leave
  <2>2. \A x \in Items : Holds(queue, x) <=> Head(queue) = x \/ Holds(queue, x)'
    <3> SUFFICES ASSUME NEW x \in Items
                 PROVE  Holds(queue, x) <=> Head(queue) = x \/ Holds(Tail(queue), x)
      BY <2>1 DEF Holds
    <3> QED  BY <1>1, <2>1, TailHolds DEF Queues
  <2>3. item[w] = None  BY <1>1, <2>1
  <2>4. \A x \in Items : Somewhere(x)' <=> Somewhere(x)
    BY <1>1, <2>1, <2>2, <2>3, MarkersAssumption DEF Somewhere, Answering
  <2> QED  BY <1>1, <1>2, <2>1, <2>4 DEF Accounted
<1>5. CASE Ends(w)
  <2>0. PICK ok \in BOOLEAN, value \in BOOLEAN :
          \E direct \in {{}, Traces(item[w])} : Finish(w, ok, value, direct)
    BY <1>5 DEF Ends, ShellNotStarted, ShellExits, LuaEnds, ProbeEnds, Panics
  <2>1. PICK direct \in {{}, Traces(item[w])} : Finish(w, ok, value, direct)  BY <2>0
  <2> DEFINE r == [node |-> item[w], ok |-> ok, value |-> value,
                   traces |-> Logged(w, value) \cup direct]
  <2>2. /\ state[w] = "running" /\ results' = Append(results, r)
        /\ item' = [item EXCEPT ![w] = None]
        /\ UNCHANGED <<queue, asked, answered>>
    BY <2>1 DEF Finish
  <2>3. r.node = item[w]  OBVIOUS
  <2> HIDE DEF r
  <2>4. results' \in Seq(Answers)
    <3>1. PoolInv'  BY <1>5, EndsInv DEF FlushInv, LineInv
    <3> QED  BY <3>1 DEF PoolInv, TypeOK, Answers
  <2>5. /\ Len(results') = Len(results) + 1 /\ Len(results) \in Nat
        /\ results'[Len(results) + 1] = r
        /\ \A k \in 1 .. Len(results) : results'[k] = results[k]
    BY <1>1, <2>2, AppendProperties, LenProperties
  <2>6. \A x \in Items : Answering(x)' <=> Answering(x) \/ x = item[w]
    <3>1. \A k \in 1 .. Len(results') : k \in 1 .. Len(results) \/ k = Len(results) + 1
      BY <2>5
    <3>2. \A x \in Items : Answering(x)' => Answering(x) \/ x = item[w]
      BY <2>3, <2>5, <3>1 DEF Answering
    <3>3. \A x \in Items : Answering(x) => Answering(x)'  BY <2>5 DEF Answering
    <3>4. \A x \in Items : x = item[w] => Answering(x)'
      <4>1. \E k \in 1 .. Len(results') : results'[k].node = item[w]  BY <2>3, <2>5
      <4> QED  BY <4>1 DEF Answering
    <3> QED  BY <3>2, <3>3, <3>4
  <2>7. \A x \in Items : Somewhere(x)' <=> Somewhere(x)
    BY <1>1, <2>2, <2>6, MarkersAssumption DEF Somewhere, Holds
  <2> QED  BY <1>1, <1>2, <2>2, <2>7 DEF Accounted
<1> QED  BY <1>3, <1>4, <1>5 DEF Worker

LEMMA NextFlush == ASSUME FlushInv, [Next]_vars PROVE FlushInv'
<1>1. LineInv'  BY NextLine DEF FlushInv, StepKept
<1>2. CASE MainThread  BY <1>1, <1>2, MainAccounts DEF FlushInv
<1>3. ASSUME NEW w \in Workers, Worker(w) \/ Body(w) \/ SpuriousWake(w) PROVE FlushInv'
  BY <1>1, <1>3, WorkerAccounts DEF FlushInv
<1>4. CASE UNCHANGED vars
  BY <1>1, <1>4 DEF vars, FlushInv, Accounted, Somewhere, Holds, Answering, Over
<1> QED  BY <1>2, <1>3, <1>4 DEF Next

(* A shutdown leaves nothing submitted unexecuted, whatever was in the queue *)
(* when it was asked for, provided one worker came up: its sentinel is       *)
(* behind the work.                                                          *)
THEOREM JoinFlushesCorrect == Spec => []JoinFlushes
<1>1. Init => FlushInv  BY InitFlush
<1>2. FlushInv /\ [Next]_vars => FlushInv'  BY NextFlush
<1>3. FlushInv => JoinFlushes
  <2> SUFFICES ASSUME FlushInv, main = "closed", In("gone") # {}
               PROVE  asked = answered \cup {results[i].node : i \in DOMAIN results}
    BY DEF JoinFlushes
  <2>1. /\ Parted(queue, 0) /\ queue \in Queues /\ results \in Seq(Answers)
        /\ asked \subseteq Items /\ answered \subseteq Items
        /\ \A w \in Workers : item[w] = None
    BY DEF FlushInv, LineInv, Closing, Over, Holding, PoolInv, TypeOK, Queues, Answers
  <2>2. \A i \in Items : ~ Holds(queue, i)
    BY <2>1, LenProperties, MarkersAssumption DEF Parted, Holds, Queues
  <2>3. /\ DOMAIN results = 1 .. Len(results)
        /\ \A k \in 1 .. Len(results) : results[k].node \in Items
    <3>1. DOMAIN results = 1 .. Len(results) /\ \A k \in 1 .. Len(results) : results[k] \in Answers
      BY <2>1, LenProperties, ElementOfSeq
    <3> QED  BY <3>1 DEF Answers
  <2>4. \A i \in Items : i \in asked <=> Answering(i) \/ i \in answered
    BY <2>1, <2>2, MarkersAssumption DEF FlushInv, Accounted, Somewhere
  <2> QED  BY <2>1, <2>3, <2>4 DEF Answering
<1> QED  BY <1>1, <1>2, <1>3, PTL DEF Spec
============================================================================
