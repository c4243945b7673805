------------------------------ MODULE Executor ------------------------------
(***************************************************************************)
(* execute_dag (cli/crates/cook-engine/src/executor.rs): the main thread   *)
(* that walks the work DAG, the worker pool it feeds, the terminal it      *)
(* hands to interactive steps and chore bodies, and the report it keeps.   *)
(*                                                                         *)
(* The main thread is sequential and the workers are concurrent with it.   *)
(* process_ready is recursive in the code; here the calls still to be made *)
(* are the stack `ready', and each step makes the call on its head, so the *)
(* workers interleave with the cascade as they do in the program.          *)
(*                                                                         *)
(* Abstracted: what a body does (it succeeds or fails), what the cache     *)
(* answers (a hit or a miss, at any time), event text, timings, the        *)
(* contents of the probe store.  The dependency counters of cook-dag are   *)
(* the set `completed': WorkDag.tla shows the counter of n is the number   *)
(* of its dependencies outside it.                                         *)
(***************************************************************************)
EXTENDS Integers, Sequences, FiniteSets

CONSTANTS
  NodeCount,     \* size of the work DAG
  Recipes,       \* recipe names
  Workers,       \* the threads of the pool
  None,          \* no node: an idle worker, a free terminal
  Plans,         \* the work DAGs build_dag may hand over
  DrainMayFail   \* whether a chore's process group may survive its drain

Node == 0 .. NodeCount - 1

(* presatisfied: payload None.  cook: any cacheable command or Lua chunk.    *)
(* interactive: an interactive unit outside a chore.  chore, choreLua: the   *)
(* shell and Lua steps of a chore body.                                      *)
Kinds == {"presatisfied", "probe", "cook", "test", "interactive", "chore", "choreLua"}

PlanRecord ==
  [deps : [Node -> SUBSET Node], kind : [Node -> Kinds],
   recipe : [Node -> Recipes], pinned : SUBSET Node]

ASSUME NodeCountAssumption == NodeCount \in Nat \ {0}
ASSUME NoneAssumption == None \notin Nat
ASSUME WorkersAssumption == IsFiniteSet(Workers)
ASSUME DrainAssumption == DrainMayFail \in BOOLEAN
ASSUME PlansAssumption ==
  \A p \in Plans : p \in PlanRecord /\ \A n \in Node : \A d \in p.deps[n] : d < n

(* What waits for a chore step and is not a step of the same chore waits for *)
(* the whole chore: a chore's body holds steps and probes only (the parser   *)
(* bans cook and test steps there), and UnitGraph!WaitsForWhole shows that   *)
(* what crosses to another recipe waits for every unit of it.                *)
ChoreWith(p, n) ==
  {k \in Node : p.kind[k] \in {"chore", "choreLua"} /\ p.recipe[k] = p.recipe[n]}

ASSUME ChoresAssumption ==
  \A p \in Plans : \A m \in Node : \A n \in p.deps[m] :
    n \in ChoreWith(p, n) /\ m \notin ChoreWith(p, n) =>
      \A D \in SUBSET Node :
        p.deps[m] \subseteq D /\ (\A k \in D : p.deps[k] \subseteq D) =>
          ChoreWith(p, n) \subseteq D

VARIABLES
  deps, kind, recipe, pinned,   \* the work DAG, fixed for the run
  completed,    \* nodes on which Dag::complete was called
  cancelled,    \* cancelled[n] of the code, as a set
  ready,        \* process_ready calls still to be made, next one first
  interactive,  \* interactive_queue
  window,       \* the chore window: its members, the step it is at, the failed step
  terminal,     \* the node whose body the main thread runs or waits for
  phase,        \* where the main thread is
  queue,        \* SharedQueue: items submitted and not yet taken
  busy,         \* busy[w]: the node worker w executes
  results,      \* the mpsc channel back to the main thread
  pending,      \* results the main thread still waits for
  book,         \* recipe_trackers, with the verdict events each has emitted
  failures,     \* the hard failures of the run
  rows,         \* rows[n]: the TestResult rows reported for test n
  ran,          \* history: nodes whose body was handed to a worker or the terminal
  good,         \* history: nodes that succeeded or were served
  bad           \* history: nodes that failed

plan == <<deps, kind, recipe, pinned>>
pool == <<queue, busy, results, pending>>
drive == <<interactive, window, terminal, phase>>
outcome == <<completed, cancelled, good, bad, book, failures, rows>>
vars == <<plan, pool, drive, outcome, ready, ran>>

NoWindow == [members |-> <<>>, at |-> 1, failed |-> 0]
----------------------------------------------------------------------------
(* The graph. *)

Dependents(n) == {m \in Node : n \in deps[m]}

(* Lists a set of ids in increasing order, the order of Node::dependents. *)
Listings(S) ==
  {s \in [1 .. Cardinality(S) -> S] :
     \A i, j \in 1 .. Cardinality(S) : i < j => s[i] < s[j]}

(* Dag::initial_ready *)
InitialReady == {n \in Node : deps[n] = {}}

(* Variants, each with one plausible mistake; the operators follow. *)
ReleasedByAny(n) == Dependents(n)
CascadeDirectOnly(S, out) == {m \in Node \ out : deps[m] \cap S # {}}

(* Dag::complete(n): the dependents whose last unfinished dependency is n. *)
Released(n) ==
  IF n \in completed THEN {}
  ELSE {m \in Dependents(n) : deps[m] \ completed = {n}}

(* cancel_subtree on every dependent of a node of S: what is downstream of S *)
(* and is reached without passing through a node of `out', which is          *)
(* cancelled already.                                                        *)
Cascade(S, out) ==
  {m \in Node :
     \A C \in SUBSET Node :
       (\A k \in Node \ out : deps[k] \cap (S \cup C) # {} => k \in C) => m \in C}
----------------------------------------------------------------------------
(* The recipe trackers (finish_recipe_node). *)

InRecipe(S, r) == {n \in S : recipe[n] = r}

(* Variant: units with nothing to run are left out of the count. *)
TotalToRun(r) == Cardinality(InRecipe({n \in Node : kind[n] # "presatisfied"}, r))

(* recipe_node_counts *)
Total(r) == Cardinality(InRecipe(Node, r))

Verdict(failed, skipped) ==
  IF failed THEN "failed" ELSE IF skipped > 0 THEN "skipped" ELSE "completed"

(* One tick for each node of S.  A tick that brings the count to the total   *)
(* emits the recipe's verdict; one beyond the total emits nothing.           *)
Tick(b, S, skips, fails) ==
  [r \in Recipes |->
    LET c == Cardinality(InRecipe(S, r))
        done == b[r].done + c
        skipped == IF skips THEN b[r].skipped + c ELSE b[r].skipped
        failed == b[r].failed \/ (fails /\ c > 0)
        emits == b[r].done < Total(r) /\ done >= Total(r)
    IN [done |-> done, skipped |-> skipped, failed |-> failed,
        verdicts |-> IF emits THEN Append(b[r].verdicts, Verdict(failed, skipped))
                     ELSE b[r].verdicts]]

TickOk(b, S) == Tick(b, S, FALSE, FALSE)
TickFailed(b, S) == Tick(b, S, FALSE, TRUE)

(* Variant: cancelled units are not counted. *)
NoTick(b, S) == b
TickSkipped(b, S) == Tick(b, S, TRUE, FALSE)

BlockedRows(R, S) ==
  [n \in Node |-> IF n \in S /\ kind[n] = "test" THEN Append(R[n], "blocked") ELSE R[n]]

(* Variant: a test served from the cache is not reported. *)
WithRowIfRun(R, n, row) ==
  IF kind[n] = "test" /\ row # "cached" THEN [R EXCEPT ![n] = Append(@, row)] ELSE R

WithRow(R, n, row) ==
  IF kind[n] = "test" THEN [R EXCEPT ![n] = Append(@, row)] ELSE R
----------------------------------------------------------------------------
(* What settling a node does. *)

(* complete(n), then process_ready on what it releases, before the calls     *)
(* already outstanding (`rest').                                             *)
Complete(n, rest) ==
  /\ completed' = completed \cup {n}
  /\ \E s \in Listings(Released(n)) : ready' = s \o rest

Settle(n, rest) ==
  /\ Complete(n, rest)
  /\ good' = good \cup {n}
  /\ book' = TickOk(book, {n})
  /\ UNCHANGED <<cancelled, bad, failures>>

(* A hard failure: it joins the failures, and its dependents are cancelled.  *)
(* The node is not completed.                                                *)
FailHard(n) ==
  LET cone == Cascade({n}, cancelled)
  IN /\ cancelled' = cancelled \cup cone
     /\ bad' = bad \cup {n}
     /\ failures' = failures \cup {n}
     /\ book' = TickSkipped(TickFailed(book, {n}), cone)
     /\ rows' = BlockedRows(rows, cone)
     /\ UNCHANGED <<completed, good>>

(* Variant: the dependents of a failed test are released, not cancelled.     *)
ConeOfNothing(n) == {}

(* What a failed test cancels. *)
ConeOfTest(n) == Cascade({n}, cancelled)

(* A failed test: reported in its row and not among the failures.  Its       *)
(* dependents are cancelled before it is completed (COOK-341).               *)
FailSoft(n) ==
  LET cone == ConeOfTest(n)
  IN /\ cancelled' = cancelled \cup cone
     /\ bad' = bad \cup {n}
     /\ book' = TickSkipped(TickOk(book, {n}), cone)
     /\ rows' = BlockedRows(WithRow(rows, n, "failed"), cone)
     /\ Complete(n, <<>>)
     /\ UNCHANGED <<good, failures>>

Submit(n) == queue' = Append(queue, n) /\ ran' = ran \cup {n}
----------------------------------------------------------------------------
(* process_ready, one action per arm, on the head of `ready'. *)

Turn(n) == ready # <<>> /\ n = Head(ready)
Live(n) == Turn(n) /\ n \notin cancelled

SkipCancelled(n) ==
  /\ Turn(n) /\ n \in cancelled
  /\ ready' = Tail(ready)
  /\ UNCHANGED <<plan, pool, drive, outcome, ran>>

(* A unit completed without running. *)
Served(n, k) ==
  /\ Live(n) /\ kind[n] = k
  /\ Settle(n, Tail(ready))
  /\ UNCHANGED <<plan, pool, drive, ran>>

ServeNothing(n) == Served(n, "presatisfied") /\ UNCHANGED rows

(* A hit of a test is its verdict: it is reported as passed, and no backend  *)
(* is asked for a file.                                                      *)
ServeTest(n) == Served(n, "test") /\ rows' = WithRow(rows, n, "cached")

(* The value is in hand: declared at top level, or produced while this       *)
(* invocation registered.                                                    *)
ServeProbe(n) == Served(n, "probe") /\ UNCHANGED rows
ServeHit(n) == Served(n, "cook") /\ UNCHANGED rows

Serve(n) == ServeNothing(n) \/ ServeTest(n) \/ ServeProbe(n) \/ ServeHit(n)

QueueInteractive(n) ==
  /\ Live(n) /\ kind[n] \in {"interactive", "chore", "choreLua"}
  /\ interactive' = Append(interactive, n)
  /\ ready' = Tail(ready)
  /\ UNCHANGED <<plan, pool, outcome, window, terminal, phase, ran>>

(* A unit that fails before its body starts: the lookup of a probe errs, a   *)
(* pinned unit is in no store, a directory for an output cannot be made.     *)
FailEarly(n) ==
  /\ Live(n)
  /\ FailHard(n)
  /\ ready' = Tail(ready)
  /\ UNCHANGED <<plan, pool, drive, ran>>

FailLookup(n) == kind[n] = "probe" /\ FailEarly(n)
FailPinned(n) == kind[n] = "cook" /\ n \in pinned /\ FailEarly(n)
FailDirs(n) == kind[n] = "cook" /\ n \notin pinned /\ FailEarly(n)

FailReady(n) == FailLookup(n) \/ FailPinned(n) \/ FailDirs(n)

(* A miss sends the unit to a worker.  The test arm ignores PinnedColdMiss,  *)
(* the generic arm does not.                                                 *)
Send(n) ==
  /\ Live(n)
  /\ Submit(n)
  /\ pending' = pending + 1
  /\ ready' = Tail(ready)
  /\ UNCHANGED <<plan, drive, outcome, busy, results>>

SendProbe(n) == kind[n] = "probe" /\ Send(n)
SendTest(n) == kind[n] = "test" /\ Send(n)
SendUnit(n) == kind[n] = "cook" /\ n \notin pinned /\ Send(n)

Dispatch(n) == SendProbe(n) \/ SendTest(n) \/ SendUnit(n)

ProcessReady ==
  \E n \in Node :
    \/ SkipCancelled(n) \/ Serve(n) \/ QueueInteractive(n)
    \/ FailReady(n) \/ Dispatch(n)
----------------------------------------------------------------------------
(* The interactive half of the main loop: it runs only on a drained pool. *)

(* Variant: an interactive step starts while workers are busy. *)
AlwaysDrained == TRUE
Drained == pending = 0

AtHead(n) ==
  /\ phase = "loop" /\ terminal = None /\ ready = <<>>
  /\ Drained
  /\ interactive # <<>> /\ n = Head(interactive)

IsChore(n) == kind[n] \in {"chore", "choreLua"}

DropCancelledHead(n) ==
  /\ AtHead(n) /\ n \in cancelled
  /\ interactive' = Tail(interactive)
  /\ UNCHANGED <<plan, pool, outcome, window, terminal, phase, ready, ran>>

(* An interactive unit outside a chore, alone on the terminal. *)
StartInteractive(n) ==
  /\ AtHead(n) /\ n \notin cancelled /\ ~IsChore(n)
  /\ interactive' = Tail(interactive)
  /\ terminal' = n
  /\ ran' = ran \cup {n}
  /\ UNCHANGED <<plan, pool, outcome, window, phase, ready>>

EndInteractive(ok) ==
  /\ phase = "loop" /\ terminal # None
  /\ terminal' = None
  /\ IF ok THEN Settle(terminal, <<>>) /\ UNCHANGED rows
           ELSE FailHard(terminal) /\ UNCHANGED ready
  /\ UNCHANGED <<plan, pool, interactive, window, phase, ran>>
----------------------------------------------------------------------------
(* The chore window (CS-0051): the head, the steps of the same chore queued  *)
(* behind it, and the chain of steps that follow.                            *)

Members == {window.members[i] : i \in DOMAIN window.members}
LastMember == window.members[Len(window.members)]
SameChore(n) == IsChore(n) /\ recipe[n] = recipe[window.members[1]]

OpenWindow(n) ==
  /\ AtHead(n) /\ n \notin cancelled /\ IsChore(n)
  /\ interactive' = Tail(interactive)
  /\ window' = [members |-> <<n>>, at |-> 1, failed |-> 0]
  /\ phase' = "gather"
  /\ UNCHANGED <<plan, pool, outcome, terminal, ready, ran>>

CanGather == interactive # <<>> /\ SameChore(Head(interactive))

Gather ==
  /\ phase = "gather" /\ CanGather
  /\ window' = [window EXCEPT !.members = Append(@, Head(interactive))]
  /\ interactive' = Tail(interactive)
  /\ UNCHANGED <<plan, pool, outcome, terminal, phase, ready, ran>>

(* m is the only dependent of the last member and waits for nothing else     *)
(* (remaining_deps() = 1).                                                   *)
Follows(m) ==
  /\ Dependents(LastMember) = {m}
  /\ SameChore(m)
  /\ deps[m] \ completed = {LastMember}

Extend(m) ==
  /\ phase = "gather" /\ ~CanGather /\ Follows(m)
  /\ window' = [window EXCEPT !.members = Append(@, m)]
  /\ UNCHANGED <<plan, pool, outcome, interactive, terminal, phase, ready, ran>>

(* The process group of the window is created, or cannot be. *)
StartWindow(ok) ==
  /\ phase = "gather" /\ ~CanGather /\ \A m \in Node : ~Follows(m)
  /\ window' = [window EXCEPT !.failed = IF ok THEN 0 ELSE 1]
  /\ phase' = "window"
  /\ UNCHANGED <<plan, pool, outcome, interactive, terminal, ready, ran>>

InWindow == phase = "window" /\ terminal = None /\ ready = <<>>
AtStep(n) ==
  /\ InWindow /\ window.failed = 0
  /\ window.at <= Len(window.members) /\ n = window.members[window.at]

SkipStep(n) ==
  /\ AtStep(n) /\ n \in cancelled
  /\ window' = [window EXCEPT !.at = @ + 1]
  /\ UNCHANGED <<plan, pool, outcome, interactive, terminal, phase, ready, ran>>

(* A shell step runs on the main thread; a Lua step is submitted to the pool *)
(* and the main thread blocks on the next result.                            *)
StartStep(n) ==
  /\ AtStep(n) /\ n \notin cancelled
  /\ terminal' = n
  /\ IF kind[n] = "choreLua" THEN Submit(n) ELSE ran' = ran \cup {n} /\ UNCHANGED queue
  /\ UNCHANGED <<plan, outcome, interactive, window, phase, ready, busy, results, pending>>

StepEnds(ok) ==
  /\ terminal' = None
  /\ IF ok
     THEN /\ window' = [window EXCEPT !.at = @ + 1]
          /\ completed' = completed \cup {terminal}
          /\ good' = good \cup {terminal}
          /\ \E s \in Listings(Released(terminal) \ Members) : ready' = s
     ELSE /\ window' = [window EXCEPT !.failed = window.at]
          /\ UNCHANGED <<completed, good, ready>>
  /\ UNCHANGED <<plan, interactive, phase, ran, cancelled, bad, book, failures, rows>>

EndShellStep(ok) ==
  /\ phase = "window" /\ terminal # None /\ kind[terminal] # "choreLua"
  /\ StepEnds(ok)
  /\ UNCHANGED pool

EndLuaStep ==
  /\ phase = "window" /\ terminal # None /\ kind[terminal] = "choreLua"
  /\ results # <<>>
  /\ StepEnds(Head(results).ok)
  /\ results' = Tail(results)
  /\ UNCHANGED <<queue, busy, pending>>

(* The drain of the process group, then the bookkeeping of the whole window: *)
(* a tick for each step before the failed one, a failed tick for that one,   *)
(* the rest cancelled with no tick, and what is downstream of them cancelled *)
(* with one.                                                                 *)
CloseWindow(survives) ==
  LET n == Len(window.members)
      k == IF window.failed # 0 THEN window.failed ELSE IF survives THEN n ELSE 0
      Between(i, j) == {window.members[x] : x \in i .. j}
      tail == Between(k + 1, n) \ cancelled
      cone == Cascade(Between(k, n), cancelled \cup tail)
  IN /\ InWindow /\ (window.failed # 0 \/ window.at > n)
     /\ survives => DrainMayFail
     /\ IF k = 0
        THEN /\ book' = TickOk(book, Members)
             /\ UNCHANGED <<cancelled, good, bad, failures, rows>>
        ELSE /\ cancelled' = cancelled \cup tail \cup cone
             /\ good' = good \ {window.members[k]}
             /\ bad' = bad \cup {window.members[k]}
             /\ failures' = failures \cup {window.members[k]}
             /\ book' = TickSkipped(TickFailed(TickOk(book, Between(1, k - 1)),
                                               {window.members[k]}), cone)
             /\ rows' = BlockedRows(rows, cone)
     /\ window' = NoWindow
     /\ phase' = "loop"
     /\ UNCHANGED <<plan, pool, interactive, terminal, completed, ready, ran>>
----------------------------------------------------------------------------
(* The receiving half of the main loop. *)

Receiving == phase = "loop" /\ terminal = None /\ ready = <<>> /\ pending > 0

(* Variants: a result that reports failure is not counted as received, or is *)
(* counted again in the failure arm.                                         *)
PendingAfterOk(r) == IF r.ok THEN pending - 1 ELSE pending
PendingAfterTwice(r) == IF r.ok THEN pending - 1 ELSE pending - 2
PendingAfter(r) == pending - 1

Receive(r) ==
  /\ Receiving /\ results # <<>> /\ r = Head(results)
  /\ results' = Tail(results)
  /\ pending' = PendingAfter(r)
  /\ \/ r.ok /\ Settle(r.node, <<>>) /\ rows' = WithRow(rows, r.node, "passed")
     \/ ~r.ok /\ kind[r.node] = "test" /\ FailSoft(r.node)
     \/ ~r.ok /\ kind[r.node] # "test" /\ FailHard(r.node) /\ UNCHANGED ready
  /\ UNCHANGED <<plan, drive, queue, busy, ran>>

(* Nothing pending and nothing queued: the pool is shut down and the run     *)
(* reports.                                                                  *)
Stop ==
  /\ phase = "loop" /\ terminal = None /\ ready = <<>>
  /\ pending = 0 /\ interactive = <<>>
  /\ phase' = "done"
  /\ UNCHANGED <<plan, pool, outcome, interactive, window, terminal, ready, ran>>
----------------------------------------------------------------------------
(* The workers: take the oldest item, execute it, send the result.  A body   *)
(* that panics sends a failure too.                                          *)

Take(w) ==
  /\ busy[w] = None /\ queue # <<>>
  /\ busy' = [busy EXCEPT ![w] = Head(queue)]
  /\ queue' = Tail(queue)
  /\ UNCHANGED <<plan, drive, outcome, ready, ran, results, pending>>

SendResult(w, ok) ==
  /\ busy[w] # None
  /\ results' = Append(results, [node |-> busy[w], ok |-> ok])
  /\ busy' = [busy EXCEPT ![w] = None]
  /\ UNCHANGED <<plan, drive, outcome, ready, ran, queue, pending>>
----------------------------------------------------------------------------
Init ==
  /\ \E p \in Plans :
       deps = p.deps /\ kind = p.kind /\ recipe = p.recipe /\ pinned = p.pinned
  /\ completed = {} /\ cancelled = {} /\ good = {} /\ bad = {} /\ failures = {}
  /\ book = [r \in Recipes |->
              [done |-> 0, skipped |-> 0, failed |-> FALSE, verdicts |-> <<>>]]
  /\ rows = [n \in Node |-> <<>>]
  /\ ready \in Listings(InitialReady)
  /\ interactive = <<>> /\ window = NoWindow /\ terminal = None /\ phase = "loop"
  /\ queue = <<>> /\ busy = [w \in Workers |-> None] /\ results = <<>> /\ pending = 0
  /\ ran = {}

Interact ==
  \/ \E n \in Node : DropCancelledHead(n) \/ StartInteractive(n)
  \/ \E ok \in BOOLEAN : EndInteractive(ok)

Window ==
  \/ \E n \in Node : OpenWindow(n) \/ Extend(n) \/ SkipStep(n) \/ StartStep(n)
  \/ Gather
  \/ \E ok \in BOOLEAN : StartWindow(ok) \/ EndShellStep(ok) \/ CloseWindow(ok)
  \/ EndLuaStep

MainThread ==
  \/ ProcessReady
  \/ Interact
  \/ Window
  \/ \E n \in Node, ok \in BOOLEAN : Receive([node |-> n, ok |-> ok])
  \/ Stop

Worker(w) == Take(w) \/ \E ok \in BOOLEAN : SendResult(w, ok)

Next == MainThread \/ \E w \in Workers : Worker(w)

(* The main thread never sleeps while it can go on, and every body ends: the *)
(* code sets no time limit on one (CS-0135).                                 *)
Fairness == WF_vars(MainThread) /\ \A w \in Workers : WF_vars(Worker(w))

Spec == Init /\ [][Next]_vars
FairSpec == Spec /\ Fairness
----------------------------------------------------------------------------
(* Properties. *)

InQueue == {queue[i] : i \in DOMAIN queue}
Executing == {busy[w] : w \in Workers} \ {None}
InChannel == {results[i].node : i \in DOMAIN results}
InFlight == InQueue \cup Executing \cup InChannel
AwaitsLua == phase = "window" /\ terminal # None /\ kind[terminal] = "choreLua"

(* Types. *)
PlanTypeOK ==
  /\ deps \in [Node -> SUBSET Node]
  /\ kind \in [Node -> Kinds]
  /\ recipe \in [Node -> Recipes]
  /\ pinned \in SUBSET Node

DriveTypeOK ==
  /\ ready \in Seq(Node)
  /\ interactive \in Seq(Node)
  /\ window \in [members : Seq(Node), at : Nat, failed : Nat]
  /\ terminal \in Node \cup {None}
  /\ phase \in {"loop", "gather", "window", "done"}

PoolTypeOK ==
  /\ queue \in Seq(Node)
  /\ busy \in [Workers -> Node \cup {None}]
  /\ results \in Seq([node : Node, ok : BOOLEAN])
  /\ pending \in Nat

OutcomeTypeOK ==
  /\ completed \in SUBSET Node /\ cancelled \in SUBSET Node
  /\ good \in SUBSET Node /\ bad \in SUBSET Node
  /\ failures \in SUBSET Node /\ ran \in SUBSET Node
  /\ book \in [Recipes -> [done : Nat, skipped : Nat, failed : BOOLEAN,
                           verdicts : Seq({"completed", "skipped", "failed"})]]
  /\ rows \in [Node -> Seq({"cached", "passed", "failed", "blocked"})]

TypeOK == PlanTypeOK /\ DriveTypeOK /\ PoolTypeOK /\ OutcomeTypeOK

(* A body starts, or a unit is served, only when every dependency has        *)
(* succeeded and the unit has not been cancelled.  It relates the order of   *)
(* cancel_subtree and complete in the failed-test path, the cascade of       *)
(* process_ready, the interactive queue and the steps of a chore window.     *)
StartsAfterDeps ==
  [][\A n \in (ran' \cup good') \ (ran \cup good) :
       deps[n] \subseteq good /\ n \notin cancelled]_vars

(* While a step owns the terminal no other unit is queued, executing or      *)
(* waiting to be received: the drain of an interactive unit and the single   *)
(* drain of a chore body.  A Lua step of a chore is itself the one item in   *)
(* the pool, so the next result received is its own.                         *)
TerminalAlone ==
  terminal # None => InFlight \subseteq (IF AwaitsLua THEN {terminal} ELSE {})

(* `pending' counts the results still to come, so the main thread never      *)
(* blocks on a channel nobody will send to, and never stops with work in the *)
(* pool.                                                                     *)
PendingExact ==
  pending + (IF AwaitsLua THEN 1 ELSE 0)
    = Len(queue) + Cardinality({w \in Workers : busy[w] # None}) + Len(results)

(* When the run stops, every unit of the DAG has succeeded, failed or been   *)
(* cancelled: none is forgotten by the cascade.                              *)
AllAccountedFor == phase = "done" => Node = good \cup bad \cup cancelled

(* Every test is reported exactly once and as what became of it: the rows    *)
(* the executor returns, whichever of the three lists they come from.        *)
TestsReported ==
  phase = "done" =>
    \A n \in Node : kind[n] = "test" =>
      /\ Len(rows[n]) = 1
      /\ rows[n][1] = "blocked" <=> n \in cancelled
      /\ rows[n][1] = "failed" <=> n \in bad

(* A recipe's verdict event comes at most once, and only when no unit of the *)
(* recipe is left to run.                                                    *)
VerdictLast ==
  \A r \in Recipes : book[r].verdicts # <<>> =>
    /\ Len(book[r].verdicts) = 1
    /\ InRecipe(Node, r) \subseteq (good \cup bad \cup cancelled) \ InFlight

(* A recipe that is not a chore gets its verdict, and the verdict is         *)
(* "failed" exactly when one of its units is among the hard failures.        *)
VerdictGiven ==
  phase = "done" =>
    \A r \in Recipes :
      (InRecipe(Node, r) # {} /\ \A n \in InRecipe(Node, r) : ~IsChore(n)) =>
        /\ Len(book[r].verdicts) = 1
        /\ book[r].verdicts[1] = "failed" <=> InRecipe(failures, r) # {}
        /\ book[r].verdicts[1] = "skipped" =>
             InRecipe(cancelled, r) # {} /\ InRecipe(failures, r) = {}

(* What the run tells of itself is what happened: every unit has an end,     *)
(* every test its one row, every recipe its one verdict.                     *)
OutcomeTold == AllAccountedFor /\ TestsReported /\ VerdictLast /\ VerdictGiven

(* The run comes to its end: no wait of the main thread is for ever.         *)
Terminates == <>(phase = "done")

(* The executor implements the contract. *)
Contract ==
  INSTANCE BuildContract WITH
    drained <- {n \in Node : IsChore(n)},
    fate <- [n \in Node |->
              IF n \in cancelled THEN "blocked"
              ELSE IF n \in bad THEN "failed"
              ELSE IF n \in good THEN "ok"
              ELSE IF n \in ran THEN "running" ELSE "waiting"]

(* The scheduler, seen through the fates of the units, takes only the steps  *)
(* of the contract: start after the dependencies, settle once, block what is *)
(* downstream in the step that fails.                                        *)
ImplementsContract == Contract!Spec

(* What the executor asks of its worker threads: a body is submitted once,   *)
(* and every result it receives answers one.  The pool provides no more.     *)
Threads ==
  INSTANCE PoolContract WITH
    Items <- Node,
    asked <- {n \in ran : kind[n] \notin {"interactive", "chore"}}

UsesPool == Threads!Spec

============================================================================
