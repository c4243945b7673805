---------------------------- MODULE Materialize ----------------------------
(***************************************************************************)
(* The materializer coordinator and the passes that share it: cook-plan    *)
(* registers.rs and cook.materialize of cook-register/src/context.rs.      *)
(* Before the bodies of a workspace may run, its members' top-level chunks *)
(* are evaluated: by a few threads that take members off a counter (pre),  *)
(* then one after another for their names (list), then to register.  Each  *)
(* evaluation may call cook.materialize, which declares a namespace, asks  *)
(* the store, or has a worker run the producer and waits for its result on *)
(* a channel all callers share.  The pool is PoolContract.tla's.           *)
(***************************************************************************)
EXTENDS Integers, Sequences, FiniteSets

CONSTANTS
  Plans,       \* for each member, the sequence of its calls [key, decl, caught]
  Threads,     \* the scoped threads of pre_materialize_workspace
  Main,        \* the thread of the invocation
  Workers,     \* the pool
  Apart,       \* Apart: workspace.root.dir is not the workspace root
  Nothing,
  Running,     \* a cell some thread is filling
  Conflict     \* a call refused

ASSUME MainAssumption == Main \notin Threads
ASSUME PlansShape ==
  \A p \in Plans : \A m \in DOMAIN p : \A k \in DOMAIN p[m] :
    DOMAIN p[m][k] = {"key", "decl", "caught"}

VARIABLES
  plan,        \* the workspace, fixed
  stage,       \* "pre", "list", "register", "done", "failed"
  next,        \* members taken off the counter, or registered, in this stage
  th,          \* th[t]: the thread's place in a member's calls
  errors,      \* the members whose pass failed
  declarations,\* namespace -> its declaration
  cell,        \* namespace -> the OnceLock of its result
  wanted,      \* wanted[i]: the namespace the item of id i produces
  queue, busy, results, asked,        \* the worker pool
  alive,       \* some worker came up
  receiver,    \* the thread that holds the receiving end
  buffered,    \* results received by a thread they were not for
  store,       \* artifacts in the shared store
  reported,    \* the materializations reported, in order
  answers      \* what each call was answered (history)

pool == <<queue, busy, results, asked>>
vars == <<plan, stage, next, th, errors, declarations, cell, wanted, pool, alive,
          receiver, buffered, store, reported, answers>>

Everyone == Threads \cup {Main}
Stages == {"pre", "list", "register"}

(* A call: the stage, the member and the place in its chunk, and what it asks.*)
CallOf(s, m, k, r) == [stage |-> s, member |-> m, n |-> k, ask |-> r]

AllCalls ==
  {CallOf(s, m, k, p[m][k]) :
     <<s, p, m, k>> \in {x \in Stages \X Plans \X (1..9) \X (1..9) :
                          x[3] \in DOMAIN x[2] /\ x[4] \in DOMAIN x[2][x[3]]}}

(* The codegen pass writes its label from workspace.root.dir, the others from *)
(* the workspace root: another namespace when these are not one directory.   *)
Label(s) == IF s = "list" /\ Apart THEN "of entry" ELSE "of root"
Space(c) == <<Label(c.stage), c.ask.key>>
Declares(c) == c.ask.decl
Caught(c) == c.ask.caught

AllSpaces == {Space(c) : c \in AllCalls}
Ids == 1..Cardinality(AllSpaces)

Pool == INSTANCE PoolContract WITH Items <- Ids, None <- Nothing

----------------------------------------------------------------------------
Idle == [at |-> "idle", member |-> 0, call |-> 0, id |-> 0]
Call(t) == CallOf(stage, th[t].member, th[t].call, plan[th[t].member][th[t].call])
Here(t) == Space(Call(t))

Ended(t) == th[t].call > Len(plan[th[t].member])

(* A thread takes the next member, and begins its chunk.                     *)
TakeMember(t) ==
  /\ stage = "pre" /\ t \in Threads
  /\ th[t].at = "idle" /\ next < Len(plan) /\ Len(plan) > 1
  /\ next' = next + 1
  /\ th' = [th EXCEPT ![t] = [Idle EXCEPT !.at = "run", !.member = next + 1, !.call = 1]]
  /\ UNCHANGED <<plan, stage, errors, declarations, cell, wanted, pool, alive, receiver,
                 buffered, store, reported, answers>>

(* The chunk is over: at its end, or at an error nothing in it caught.       *)
LeaveMember(t) ==
  /\ \/ th[t].at = "run" /\ Ended(t) /\ UNCHANGED errors
     \/ th[t].at = "raised" /\ errors' = errors \cup {th[t].member}
  /\ th' = [th EXCEPT ![t] = Idle]
  /\ UNCHANGED <<plan, stage, next, declarations, cell, wanted, pool, alive, receiver,
                 buffered, store, reported, answers>>

Quiet == \A t \in Everyone : th[t].at = "idle"

(* The scope joins its threads; the first error in member order fails all. A *)
(* workspace of one member skips the pass.                                   *)
JoinPre ==
  /\ stage = "pre" /\ Quiet
  /\ next = Len(plan) \/ Len(plan) = 1
  /\ stage' = IF errors # {} THEN "failed" ELSE "list"
  /\ next' = 0
  /\ UNCHANGED <<plan, th, errors, declarations, cell, wanted, pool, alive, receiver,
                 buffered, store, reported, answers>>

(* The listing and the registration run the members on the main thread, and  *)
(* stop at the first that fails.                                             *)
RunMember ==
  /\ stage \in {"list", "register"} /\ Quiet
  /\ errors = {} /\ next < Len(plan)
  /\ next' = next + 1
  /\ th' = [th EXCEPT ![Main] = [Idle EXCEPT !.at = "run", !.member = next + 1, !.call = 1]]
  /\ UNCHANGED <<plan, stage, errors, declarations, cell, wanted, pool, alive, receiver,
                 buffered, store, reported, answers>>

EndStage ==
  /\ stage \in {"list", "register"} /\ Quiet
  /\ errors # {} \/ next = Len(plan)
  /\ stage' = CASE errors # {} -> "failed" [] stage = "list" -> "register" [] OTHER -> "done"
  /\ next' = 0
  /\ UNCHANGED <<plan, th, errors, declarations, cell, wanted, pool, alive, receiver,
                 buffered, store, reported, answers>>

----------------------------------------------------------------------------
(* One call.                                                                 *)
Answered(t, v) ==
  /\ answers' = [answers EXCEPT ![Call(t)] = v]
  /\ th' = [th EXCEPT ![t] =
       IF (v # Conflict /\ v.ok) \/ Caught(Call(t))
       THEN [@ EXCEPT !.at = "run", !.call = th[t].call + 1] ELSE [@ EXCEPT !.at = "raised"]]

(* Variant: the declaration already there is not compared. *)
ConflictsNever(t) == FALSE

Conflicts(t) == declarations[Here(t)] \notin {Nothing, Declares(Call(t))}

(* Under the declarations' mutex.                                            *)
Declare(t) ==
  /\ th[t].at = "run" /\ ~Ended(t)
  /\ IF Conflicts(t)
     THEN Answered(t, Conflict) /\ UNCHANGED declarations
     ELSE /\ declarations' = [declarations EXCEPT ![Here(t)] = Declares(Call(t))]
          /\ th' = [th EXCEPT ![t].at = "cell"]
          /\ UNCHANGED answers
  /\ UNCHANGED <<plan, stage, next, errors, cell, wanted, pool, alive, receiver, buffered,
                 store, reported>>

(* OnceLock::get_or_init: a result that is there is everyone's; while one    *)
(* thread makes it the others wait.                                          *)
Reuse(t) ==
  /\ th[t].at = "cell"
  /\ cell[Here(t)] \notin {Nothing, Running}
  /\ Answered(t, cell[Here(t)])
  /\ UNCHANGED <<plan, stage, next, errors, declarations, cell, wanted, pool, alive, receiver,
                 buffered, store, reported>>

Settle(t, v) ==
  /\ cell' = [cell EXCEPT ![Here(t)] = v]
  /\ Answered(t, v)
  /\ reported' = IF v.ok THEN Append(reported, Here(t)) ELSE reported

Value(s) == [ok |-> TRUE, of |-> s]
Failed(s) == [ok |-> FALSE, of |-> s]

(* get_bytes: a store that is down is a miss.                                *)
Restore(t) ==
  /\ th[t].at = "cell" /\ cell[Here(t)] = Nothing
  /\ Here(t) \in store
  /\ Settle(t, Value(Here(t)))
  /\ UNCHANGED <<plan, stage, next, errors, declarations, wanted, pool, alive, receiver,
                 buffered, store>>

Submit(t) ==
  /\ th[t].at = "cell" /\ cell[Here(t)] = Nothing
  /\ LET id == Len(wanted) + 1
     IN /\ Pool!Submit(id)
        /\ wanted' = Append(wanted, Here(t))
        /\ th' = [th EXCEPT ![t].at = "wait", ![t].id = id]
  /\ cell' = [cell EXCEPT ![Here(t)] = Running]
  /\ UNCHANGED <<plan, stage, next, errors, declarations, alive, receiver, buffered, store,
                 reported, answers>>

(* The receiving end first, then what another waiter may have put aside.     *)
Own(t) ==
  /\ th[t].at = "wait" /\ receiver = Nothing
  /\ receiver' = t
  /\ th' = [th EXCEPT ![t].at = "own"]
  /\ UNCHANGED <<plan, stage, next, errors, declarations, cell, wanted, pool, alive, buffered,
                 store, reported, answers>>

Mine(t, r) == r.node = th[t].id

(* The producer's result: its failure is kept, and its value offered to the  *)
(* store, which may refuse it or be off.                                     *)
Take(t, r) ==
  /\ receiver' = Nothing
  /\ IF r.ok
     THEN /\ Settle(t, Value(wanted[r.node]))
          /\ store' \in {store, store \cup {Here(t)}}
     ELSE Settle(t, Failed(wanted[r.node])) /\ UNCHANGED store

TakeBuffered(t) ==
  /\ th[t].at = "own" /\ receiver = t
  /\ \E r \in buffered : Mine(t, r) /\ Take(t, r) /\ buffered' = buffered \ {r}
  /\ UNCHANGED <<plan, stage, next, errors, declarations, wanted, pool, alive>>

(* Variant: a result meant for another caller is thrown away. *)
PutAsideNone(r) == buffered

PutAside(r) == buffered \cup {r}

Receive(t) ==
  /\ th[t].at = "own" /\ receiver = t
  /\ \A r \in buffered : ~Mine(t, r)
  /\ Pool!Receive
  /\ LET r == Head(results)
     IN IF Mine(t, r)
        THEN Take(t, r) /\ UNCHANGED buffered
        ELSE /\ buffered' = PutAside(r)
             /\ receiver' = Nothing
             /\ th' = [th EXCEPT ![t].at = "wait"]
             /\ UNCHANGED <<cell, store, reported, answers>>
  /\ UNCHANGED <<plan, stage, next, errors, declarations, wanted, alive>>

(* recv on a channel every worker has closed.                                *)
ReceiveClosed(t) ==
  /\ th[t].at = "own" /\ receiver = t
  /\ \A r \in buffered : ~Mine(t, r)
  /\ ~alive /\ results = <<>>
  /\ receiver' = Nothing
  /\ Settle(t, Failed(Here(t)))
  /\ UNCHANGED <<plan, stage, next, errors, declarations, wanted, pool, alive, buffered, store>>

CallStep(t) ==
  \/ Declare(t) \/ Reuse(t) \/ Restore(t) \/ Submit(t)
  \/ Own(t) \/ TakeBuffered(t) \/ Receive(t) \/ ReceiveClosed(t)

(* A worker takes the oldest item and runs its producer.                     *)
WorkerTakes(w) ==
  /\ alive
  /\ Pool!Take(w)
  /\ UNCHANGED <<plan, stage, next, th, errors, declarations, cell, wanted, alive, receiver,
                 buffered, store, reported, answers>>

WorkerAnswers(w) ==
  /\ \E ok \in BOOLEAN : Pool!SendResult(w, ok)
  /\ UNCHANGED <<plan, stage, next, th, errors, declarations, cell, wanted, alive, receiver,
                 buffered, store, reported, answers>>

Init ==
  /\ plan \in Plans
  /\ stage = "pre" /\ next = 0 /\ errors = {}
  /\ th = [t \in Everyone |-> Idle]
  /\ declarations = [s \in AllSpaces |-> Nothing]
  /\ cell = [s \in AllSpaces |-> Nothing]
  /\ wanted = <<>>
  /\ Pool!Init
  /\ alive \in BOOLEAN       \* no worker comes up when every one fails in its set-up
  /\ receiver = Nothing /\ buffered = {}
  /\ store \in SUBSET {s \in AllSpaces : s[1] = "of root"}
  /\ reported = <<>>
  /\ answers = [c \in AllCalls |-> Nothing]

ThreadStep(t) == TakeMember(t) \/ LeaveMember(t) \/ CallStep(t)

Next ==
  \/ \E t \in Everyone : ThreadStep(t)
  \/ JoinPre \/ RunMember \/ EndStage
  \/ \E w \in Workers : WorkerTakes(w) \/ WorkerAnswers(w)

(* A thread that can go on does, and producers end.  The mutex of the         *)
(* receiving end need not be fair: each pass through it takes a result.      *)
Fairness ==
  /\ \A t \in Everyone : WF_vars(ThreadStep(t))
  /\ WF_vars(JoinPre \/ RunMember \/ EndStage)
  /\ \A w \in Workers : WF_vars(WorkerTakes(w)) /\ WF_vars(WorkerAnswers(w))

Spec == Init /\ [][Next]_vars /\ Fairness

----------------------------------------------------------------------------
(* Properties.                                                               *)
TypeOK ==
  /\ stage \in Stages \cup {"done", "failed"}
  /\ receiver \in Everyone \cup {Nothing}
  /\ \A t \in Everyone : th[t].at \in {"idle", "run", "cell", "wait", "own", "raised"}

(* Whatever thread receives whose result, every caller of a namespace gets   *)
(* the value of that namespace or is refused: MaterializeContract.           *)
Made(s) == IF cell[s] = Running THEN Nothing ELSE cell[s]

Contract ==
  INSTANCE MaterializeContract
    WITH Calls <- AllCalls, Spaces <- AllSpaces, meaning <- declarations,
         value <- [s \in AllSpaces |-> Made(s)]

ImplementsContract == Contract!Spec

(* Nobody waits for ever, whoever holds the receiving end and whoever's      *)
(* result it was: the invocation ends, even when no worker came up.          *)
InvocationEnds == <>(stage \in {"done", "failed"})

=============================================================================
