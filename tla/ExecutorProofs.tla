--------------------------- MODULE ExecutorProofs ---------------------------
(***************************************************************************)
(* Proofs about the executor for every plan and every number of workers:   *)
(* its types, StartsAfterDeps, PendingExact, that it asks of the pool what *)
(* PoolContract gives, TerminalAlone, and, when no drain fails, that it    *)
(* refines BuildContract and that what it tells of the run happened.       *)
(*                                                                         *)
(* The argument for StartsAfterDeps.  What waits in `ready', in the        *)
(* interactive queue or in the chore window has all its dependencies       *)
(* completed, those of a window member up to the member before it.  A      *)
(* completed unit succeeded or failed, and what depends on a failed unit   *)
(* is cancelled.  So a unit that is at its turn and is not cancelled has   *)
(* only dependencies that succeeded.  The window needs one fact more: its  *)
(* steps pass over a cancelled member without completing it, so cancelled  *)
(* units are closed under dependents.                                      *)
(*                                                                         *)
(* The rest stands on Once: a unit waits in one place, or is in flight, or *)
(* is settled.  Quiet adds that beside a chore nothing is in flight, and   *)
(* Apart and Fates that the sets of the executor give each unit one fate   *)
(* of the contract, which every step moves as the contract allows.  Told   *)
(* says what the books and the rows hold at every moment in between, and   *)
(* that a unit without an end is somewhere or still waits for another.     *)
(***************************************************************************)
EXTENDS Executor, FiniteSetTheorems, SequenceTheorems, WellFoundedInduction, TLAPS

Entries(s) == {s[i] : i \in 1 .. Len(s)}

(* What is about to be processed has only completed dependencies. *)
QueuedOK ==
  \A n \in Entries(ready) \cup Entries(interactive) : deps[n] \subseteq completed

(* A completed unit succeeded or failed. *)
CompletedOK == completed \subseteq good \cup bad

(* What depends on a failed unit is cancelled. *)
FailedOK == \A n \in bad : Dependents(n) \subseteq cancelled

(* What depends on a cancelled unit is cancelled. *)
CancelledOK == \A n \in cancelled : Dependents(n) \subseteq cancelled

(* The position in the window, and what its members still wait for. *)
WindowOK ==
  /\ window.at >= 1 /\ window.at <= Len(window.members) + 1
  /\ window.failed <= Len(window.members)
  /\ phase \in {"gather", "window"} => Len(window.members) >= 1
  /\ phase = "gather" => terminal = None
  /\ phase = "window" /\ terminal # None =>
       window.at <= Len(window.members) /\ terminal = window.members[window.at]
  /\ \A j \in 1 .. Len(window.members) : \A d \in deps[window.members[j]] :
       d \in completed \/ (j > 1 /\ d = window.members[j - 1])
  /\ \A j \in 1 .. window.at - 1 : window.members[j] \in completed \cup cancelled

(* Whatever a worker or the terminal has was handed out. *)
HandedOK ==
  /\ terminal # None => terminal \in ran
  /\ Entries(queue) \subseteq ran
  /\ \A w \in Workers : busy[w] # None => busy[w] \in ran
  /\ \A i \in 1 .. Len(results) : results[i].node \in ran

IInv ==
  /\ TypeOK /\ QueuedOK /\ CompletedOK /\ FailedOK /\ CancelledOK
  /\ WindowOK /\ HandedOK
----------------------------------------------------------------------------
(* Sequences and listings. *)

(* Node is finite, and None is not in it. *)
LEMMA NodeFacts == IsFiniteSet(Node) /\ Node \subseteq Nat /\ None \notin Node
  BY NodeCountAssumption, NoneAssumption, FS_Interval DEF Node

LEMMA CountNodes ==
  ASSUME NEW S \in SUBSET Node PROVE Cardinality(S) \in Nat
  BY NodeFacts, FS_Subset, FS_CardinalityType

LEMMA AppendEntries ==
  ASSUME NEW S, NEW s \in Seq(S), NEW e \in S
  PROVE  Append(s, e) \in Seq(S) /\ Entries(Append(s, e)) = Entries(s) \cup {e}
  BY DEF Entries

LEMMA TailEntries ==
  ASSUME NEW S, NEW s \in Seq(S), s # <<>>
  PROVE  /\ Head(s) \in S /\ Head(s) \in Entries(s)
         /\ Tail(s) \in Seq(S) /\ Entries(Tail(s)) \subseteq Entries(s)
<1>1. Len(s) \in Nat /\ Len(s) >= 1  BY EmptySeq, LenProperties
<1>2. Head(s) = s[1] /\ Head(s) \in S  BY <1>1, HeadTailProperties
<1>3. Tail(s) \in Seq(S) /\ Len(Tail(s)) = Len(s) - 1
      /\ \A i \in 1 .. Len(Tail(s)) : Tail(s)[i] = s[i + 1]
  BY HeadTailProperties
<1> QED  BY <1>1, <1>2, <1>3 DEF Entries

LEMMA ConcatEntries ==
  ASSUME NEW S, NEW s \in Seq(S), NEW t \in Seq(S)
  PROVE  s \o t \in Seq(S) /\ Entries(s \o t) \subseteq Entries(s) \cup Entries(t)
<1>1. s \o t \in Seq(S) /\ Len(s \o t) = Len(s) + Len(t)
      /\ \A i \in 1 .. Len(s) + Len(t) :
           (s \o t)[i] = IF i <= Len(s) THEN s[i] ELSE t[i - Len(s)]
  BY ConcatProperties
<1>2. Len(s) \in Nat /\ Len(t) \in Nat  BY LenProperties
<1> QED  BY <1>1, <1>2 DEF Entries

(* A listing of a set of units is a sequence of units of that set. *)
LEMMA ListingEntries ==
  ASSUME NEW S \in SUBSET Node, NEW s \in Listings(S)
  PROVE  s \in Seq(Node) /\ Entries(s) \subseteq S
<1>1. Cardinality(S) \in Nat  BY CountNodes
<1>2. s \in [1 .. Cardinality(S) -> S]  BY DEF Listings
<1>3. s \in Seq(S) /\ Len(s) = Cardinality(S)  BY <1>1, <1>2
<1> QED  BY <1>2, <1>3 DEF Entries
----------------------------------------------------------------------------
(* What the helpers of the main thread return. *)

(* A cascade leaves nothing downstream of its roots uncancelled: this is     *)
(* what makes FailedOK and CancelledOK survive a failure.                    *)
LEMMA CascadeCloses ==
  ASSUME PlanTypeOK, NEW S \in SUBSET Node, NEW out \in SUBSET Node
  PROVE  /\ Cascade(S, out) \in SUBSET Node
         /\ \A m \in S \cup Cascade(S, out) : Dependents(m) \subseteq out \cup Cascade(S, out)
<1>1. Cascade(S, out) \in SUBSET Node  BY DEF Cascade
<1>2. ASSUME NEW m \in S \cup Cascade(S, out), NEW k \in Dependents(m), k \notin out
      PROVE  k \in Cascade(S, out)
  <2>1. k \in Node /\ m \in deps[k]  BY <1>2 DEF Dependents
  <2> SUFFICES ASSUME NEW C \in SUBSET Node,
                      \A j \in Node \ out : deps[j] \cap (S \cup C) # {} => j \in C
               PROVE  k \in C
    BY <2>1 DEF Cascade
  <2>2. m \in S \cup C  BY <1>2 DEF Cascade
  <2> QED  BY <1>2, <2>1, <2>2
<1> QED  BY <1>1, <1>2

Books == [Recipes -> [done : Nat, skipped : Nat, failed : BOOLEAN,
                      verdicts : Seq({"completed", "skipped", "failed"})]]

LEMMA TickBooks ==
  ASSUME PlanTypeOK, NEW b \in Books, NEW S \in SUBSET Node,
         NEW skips \in BOOLEAN, NEW fails \in BOOLEAN
  PROVE  Tick(b, S, skips, fails) \in Books
<1> SUFFICES ASSUME NEW r \in Recipes
             PROVE  Tick(b, S, skips, fails)[r] \in
                      [done : Nat, skipped : Nat, failed : BOOLEAN,
                       verdicts : Seq({"completed", "skipped", "failed"})]
  BY DEF Tick, Books
<1> DEFINE c == Cardinality(InRecipe(S, r))
           done == b[r].done + c
           skipped == IF skips THEN b[r].skipped + c ELSE b[r].skipped
           failed == b[r].failed \/ (fails /\ c > 0)
           emits == b[r].done < Total(r) /\ done >= Total(r)
<1>1. c \in Nat  BY CountNodes DEF InRecipe
<1>2. b[r] \in [done : Nat, skipped : Nat, failed : BOOLEAN,
                verdicts : Seq({"completed", "skipped", "failed"})]
  BY DEF Books
<1>3. done \in Nat /\ skipped \in Nat /\ failed \in BOOLEAN  BY <1>1, <1>2
<1>4. Verdict(failed, skipped) \in {"completed", "skipped", "failed"}  BY DEF Verdict
<1>5. (IF emits THEN Append(b[r].verdicts, Verdict(failed, skipped)) ELSE b[r].verdicts)
        \in Seq({"completed", "skipped", "failed"})
  BY <1>2, <1>4, AppendProperties
<1>6. Tick(b, S, skips, fails)[r] =
        [done |-> done, skipped |-> skipped, failed |-> failed,
         verdicts |-> IF emits THEN Append(b[r].verdicts, Verdict(failed, skipped))
                      ELSE b[r].verdicts]
  BY DEF Tick
<1> HIDE DEF c, done, skipped, failed, emits
<1> QED  BY <1>3, <1>5, <1>6

Row == {"cached", "passed", "failed", "blocked"}

LEMMA RowTypes ==
  ASSUME NEW R \in [Node -> Seq(Row)], NEW S \in SUBSET Node,
         NEW n \in Node, NEW row \in Row
  PROVE  BlockedRows(R, S) \in [Node -> Seq(Row)] /\ WithRow(R, n, row) \in [Node -> Seq(Row)]
<1>1. \A k \in Node : \A x \in Row : Append(R[k], x) \in Seq(Row)  BY AppendProperties
<1>2. "blocked" \in Row  BY DEF Row
<1> QED  BY <1>1, <1>2 DEF BlockedRows, WithRow
----------------------------------------------------------------------------
(* Settling a unit. *)

(* The invariant, as seen by the fates of the units. *)
FateOK == OutcomeTypeOK /\ CompletedOK /\ FailedOK /\ CancelledOK

LEMMA CompleteLemma ==
  ASSUME PlanTypeOK, OutcomeTypeOK, UNCHANGED plan,
         NEW n \in Node, NEW rest \in Seq(Node),
         \A m \in Entries(rest) : deps[m] \subseteq completed,
         Complete(n, rest)
  PROVE  /\ completed' = completed \cup {n}
         /\ ready' \in Seq(Node)
         /\ \A m \in Entries(ready') : deps[m] \subseteq completed'
<1>1. completed' = completed \cup {n}  BY DEF Complete
<1>2. Released(n) \in SUBSET Node /\ \A m \in Released(n) : deps[m] \subseteq completed'
  BY <1>1 DEF Released, Dependents
<1>3. PICK s \in Listings(Released(n)) : ready' = s \o rest  BY DEF Complete
<1>4. s \in Seq(Node) /\ Entries(s) \subseteq Released(n)  BY <1>2, <1>3, ListingEntries
<1>5. ready' \in Seq(Node) /\ Entries(ready') \subseteq Released(n) \cup Entries(rest)
  BY <1>3, <1>4, ConcatEntries
<1> QED  BY <1>1, <1>2, <1>5

LEMMA SettleLemma ==
  ASSUME PlanTypeOK, FateOK, UNCHANGED plan, rows' \in [Node -> Seq(Row)],
         NEW n \in Node, NEW rest \in Seq(Node), UNCHANGED ran, Settle(n, rest)
  PROVE  FateOK'
<1>1. completed' = completed \cup {n} /\ good' = good \cup {n}
      /\ UNCHANGED <<cancelled, bad, failures>>
  BY DEF Settle, Complete
<1>2. book' \in Books
  BY TickBooks DEF Settle, TickOk, FateOK, OutcomeTypeOK, Books
<1> QED  BY <1>1, <1>2 DEF FateOK, OutcomeTypeOK, CompletedOK, FailedOK, CancelledOK,
                           Dependents, plan, Books, Row

(* A failure with its cone, as FailHard and FailSoft share it. *)
LEMMA ConeLemma ==
  ASSUME PlanTypeOK, FateOK, UNCHANGED plan, NEW n \in Node,
         cancelled' = cancelled \cup Cascade({n}, cancelled),
         bad' = bad \cup {n}
  PROVE  FailedOK' /\ CancelledOK' /\ cancelled' \in SUBSET Node /\ bad' \in SUBSET Node
<1>1. cancelled \in SUBSET Node /\ bad \in SUBSET Node  BY DEF FateOK, OutcomeTypeOK
<1>2. /\ Cascade({n}, cancelled) \in SUBSET Node
      /\ \A m \in {n} \cup Cascade({n}, cancelled) :
           Dependents(m) \subseteq cancelled \cup Cascade({n}, cancelled)
  BY <1>1, CascadeCloses
<1>3. \A m : Dependents(m)' = Dependents(m)  BY DEF Dependents, plan
<1>4. FailedOK'  BY <1>2, <1>3 DEF FateOK, FailedOK
<1>5. CancelledOK'  BY <1>2, <1>3 DEF FateOK, CancelledOK
<1> QED  BY <1>1, <1>2, <1>4, <1>5

LEMMA FailHardLemma ==
  ASSUME PlanTypeOK, FateOK, UNCHANGED <<plan, ran>>, NEW n \in Node, FailHard(n)
  PROVE  FateOK'
<1> DEFINE cone == Cascade({n}, cancelled)
<1>1. /\ cancelled' = cancelled \cup cone /\ bad' = bad \cup {n}
      /\ failures' = failures \cup {n} /\ UNCHANGED <<completed, good>>
      /\ book' = TickSkipped(TickFailed(book, {n}), cone)
      /\ rows' = BlockedRows(rows, cone)
  BY DEF FailHard
<1>2. cone \in SUBSET Node  BY CascadeCloses DEF FateOK, OutcomeTypeOK
<1>3. book \in Books /\ rows \in [Node -> Seq(Row)]
  BY DEF FateOK, OutcomeTypeOK, Books, Row
<1>4. TickFailed(book, {n}) \in Books  BY <1>3, TickBooks DEF TickFailed
<1> HIDE DEF cone
<1>5. book' \in Books  BY <1>1, <1>2, <1>4, TickBooks DEF TickSkipped
<1>6. rows' \in [Node -> Seq(Row)]  BY <1>1, <1>2, <1>3, RowTypes DEF Row
<1>7. FailedOK' /\ CancelledOK' /\ cancelled' \in SUBSET Node /\ bad' \in SUBSET Node
  BY <1>1, ConeLemma DEF cone
<1>8. CompletedOK'  BY <1>1 DEF FateOK, CompletedOK
<1>9. OutcomeTypeOK'
  BY <1>1, <1>5, <1>6, <1>7 DEF FateOK, OutcomeTypeOK, Books, Row
<1> QED  BY <1>7, <1>8, <1>9 DEF FateOK

LEMMA FailSoftLemma ==
  ASSUME PlanTypeOK, FateOK, UNCHANGED <<plan, ran>>, NEW n \in Node, FailSoft(n)
  PROVE  FateOK'
<1> DEFINE cone == Cascade({n}, cancelled)
<1>1. /\ cancelled' = cancelled \cup cone /\ bad' = bad \cup {n}
      /\ completed' = completed \cup {n} /\ UNCHANGED <<good, failures>>
      /\ book' = TickSkipped(TickOk(book, {n}), cone)
      /\ rows' = BlockedRows(WithRow(rows, n, "failed"), cone)
  BY DEF FailSoft, ConeOfTest, Complete
<1>2. cone \in SUBSET Node  BY CascadeCloses DEF FateOK, OutcomeTypeOK
<1>3. book \in Books /\ rows \in [Node -> Seq(Row)]
  BY DEF FateOK, OutcomeTypeOK, Books, Row
<1>4. TickOk(book, {n}) \in Books  BY <1>3, TickBooks DEF TickOk
<1>5. WithRow(rows, n, "failed") \in [Node -> Seq(Row)]  BY <1>3, RowTypes DEF Row
<1> HIDE DEF cone
<1>6. book' \in Books  BY <1>1, <1>2, <1>4, TickBooks DEF TickSkipped
<1>7. rows' \in [Node -> Seq(Row)]  BY <1>1, <1>2, <1>5, RowTypes DEF Row
<1>8. FailedOK' /\ CancelledOK' /\ cancelled' \in SUBSET Node /\ bad' \in SUBSET Node
  BY <1>1, ConeLemma DEF cone
<1>9. CompletedOK'  BY <1>1 DEF FateOK, CompletedOK
<1>10. OutcomeTypeOK'
  BY <1>1, <1>6, <1>7, <1>8 DEF FateOK, OutcomeTypeOK, Books, Row
<1> QED  BY <1>8, <1>9, <1>10 DEF FateOK
----------------------------------------------------------------------------
(* Steps that leave a conjunct of the invariant alone. *)

LEMMA WindowKept ==
  ASSUME WindowOK, UNCHANGED <<plan, window, terminal, phase>>,
         completed \subseteq completed', cancelled \subseteq cancelled'
  PROVE  WindowOK'
  BY DEF WindowOK, plan

LEMMA QueuedKept ==
  ASSUME QueuedOK, UNCHANGED plan, completed \subseteq completed',
         Entries(ready') \subseteq Entries(ready),
         Entries(interactive') \subseteq Entries(interactive)
  PROVE  QueuedOK'
  BY DEF QueuedOK, plan

LEMMA FateKept ==
  ASSUME FateOK, UNCHANGED <<plan, outcome>>, ran' \in SUBSET Node
  PROVE  FateOK'
  BY DEF FateOK, OutcomeTypeOK, CompletedOK, FailedOK, CancelledOK, Dependents, plan, outcome

LEMMA HandedKept ==
  ASSUME HandedOK, UNCHANGED <<terminal, queue, busy, results>>, ran \subseteq ran'
  PROVE  HandedOK'
  BY DEF HandedOK

(* The unit at its turn. *)
LEMMA TurnFacts ==
  ASSUME DriveTypeOK, QueuedOK, NEW n \in Node, Turn(n)
  PROVE  /\ deps[n] \subseteq completed
         /\ Tail(ready) \in Seq(Node)
         /\ Entries(Tail(ready)) \subseteq Entries(ready)
         /\ \A m \in Entries(Tail(ready)) : deps[m] \subseteq completed
<1>1. ready \in Seq(Node) /\ ready # <<>> /\ n = Head(ready)  BY DEF DriveTypeOK, Turn
<1> QED  BY <1>1, TailEntries DEF QueuedOK

(* The unit at the head of the interactive queue. *)
LEMMA HeadFacts ==
  ASSUME DriveTypeOK, QueuedOK, interactive # <<>>
  PROVE  /\ Head(interactive) \in Node
         /\ deps[Head(interactive)] \subseteq completed
         /\ Tail(interactive) \in Seq(Node)
         /\ Entries(Tail(interactive)) \subseteq Entries(interactive)
<1>1. interactive \in Seq(Node)  BY DEF DriveTypeOK
<1> QED  BY <1>1, TailEntries DEF QueuedOK

Inside ==
  /\ PlanTypeOK /\ DriveTypeOK /\ PoolTypeOK /\ FateOK
  /\ QueuedOK /\ WindowOK /\ HandedOK

LEMMA IInvParts == IInv <=> Inside
  BY DEF IInv, Inside, TypeOK, FateOK

LEMMA PlanKept ==
  ASSUME PlanTypeOK, UNCHANGED plan PROVE PlanTypeOK'
  BY DEF PlanTypeOK, plan
----------------------------------------------------------------------------
(* One lemma per step of the main thread's process_ready. *)

LEMMA SkipCancelledInv ==
  ASSUME Inside, NEW n \in Node, SkipCancelled(n) PROVE Inside'
<1> USE DEF Inside
<1>1. /\ Turn(n) /\ ready' = Tail(ready)
      /\ UNCHANGED <<plan, pool, drive, outcome, ran>>
  BY DEF SkipCancelled
<1>2. Tail(ready) \in Seq(Node) /\ Entries(Tail(ready)) \subseteq Entries(ready)
  BY <1>1, TurnFacts
<1>3. DriveTypeOK' /\ PoolTypeOK'  BY <1>1, <1>2 DEF DriveTypeOK, PoolTypeOK, drive, pool
<1>4. FateOK'  BY <1>1, FateKept DEF FateOK, OutcomeTypeOK
<1>5. QueuedOK'  BY <1>1, <1>2, QueuedKept DEF drive, outcome
<1>6. WindowOK'  BY <1>1, WindowKept DEF drive, outcome
<1>7. HandedOK'  BY <1>1, HandedKept DEF drive, pool
<1> QED  BY <1>1, <1>3, <1>4, <1>5, <1>6, <1>7, PlanKept

LEMMA ServeInv ==
  ASSUME Inside, NEW n \in Node, Serve(n) PROVE Inside'
<1> USE DEF Inside
<1>1. /\ Turn(n) /\ Settle(n, Tail(ready)) /\ rows' = WithRow(rows, n, "cached")
      /\ UNCHANGED <<plan, pool, drive, ran>>
  <2>1. /\ Turn(n) /\ Settle(n, Tail(ready)) /\ UNCHANGED <<plan, pool, drive, ran>>
    BY DEF Serve, ServeNothing, ServeTest, ServeProbe, ServeHit, Served, Live
  <2>2. CASE ServeTest(n)  BY <2>2, <2>1 DEF ServeTest
  <2>3. CASE ServeNothing(n) \/ ServeProbe(n) \/ ServeHit(n)
    <3>1. kind[n] # "test" /\ rows' = rows
      BY <2>3 DEF ServeNothing, ServeProbe, ServeHit, Served
    <3> QED  BY <2>1, <3>1 DEF WithRow
  <2> QED  BY <2>2, <2>3 DEF Serve
<1>2. /\ Tail(ready) \in Seq(Node)
      /\ \A m \in Entries(Tail(ready)) : deps[m] \subseteq completed
  BY <1>1, TurnFacts
<1>3. /\ completed' = completed \cup {n} /\ ready' \in Seq(Node)
      /\ \A m \in Entries(ready') : deps[m] \subseteq completed'
  BY <1>1, <1>2, CompleteLemma DEF Settle, FateOK
<1>4. rows' \in [Node -> Seq(Row)]  BY <1>1, RowTypes DEF FateOK, OutcomeTypeOK, Row
<1>5. FateOK'  BY <1>1, <1>2, <1>4, SettleLemma
<1>6. UNCHANGED cancelled  BY <1>1 DEF Settle
<1>7. DriveTypeOK' /\ PoolTypeOK'  BY <1>1, <1>3 DEF DriveTypeOK, PoolTypeOK, drive, pool
<1>8. QueuedOK'  BY <1>1, <1>3 DEF QueuedOK, drive, plan
<1>9. WindowOK'  BY <1>1, <1>3, <1>6, WindowKept DEF drive
<1>10. HandedOK'  BY <1>1, HandedKept DEF drive, pool
<1> QED  BY <1>1, <1>5, <1>7, <1>8, <1>9, <1>10, PlanKept

LEMMA QueueInteractiveInv ==
  ASSUME Inside, NEW n \in Node, QueueInteractive(n) PROVE Inside'
<1> USE DEF Inside
<1>1. /\ Turn(n) /\ ready' = Tail(ready) /\ interactive' = Append(interactive, n)
      /\ UNCHANGED <<plan, pool, outcome, window, terminal, phase, ran>>
  BY DEF QueueInteractive, Live
<1>2. deps[n] \subseteq completed /\ Tail(ready) \in Seq(Node)
      /\ Entries(Tail(ready)) \subseteq Entries(ready)
  BY <1>1, TurnFacts
<1>3. interactive' \in Seq(Node) /\ Entries(interactive') = Entries(interactive) \cup {n}
  BY <1>1, AppendEntries DEF DriveTypeOK
<1>4. DriveTypeOK' /\ PoolTypeOK'  BY <1>1, <1>2, <1>3 DEF DriveTypeOK, PoolTypeOK, pool
<1>5. FateOK'  BY <1>1, FateKept DEF FateOK, OutcomeTypeOK
<1>6. QueuedOK'  BY <1>1, <1>2, <1>3 DEF QueuedOK, outcome, plan
<1>7. WindowOK'  BY <1>1, WindowKept DEF outcome
<1>8. HandedOK'  BY <1>1, HandedKept DEF pool
<1> QED  BY <1>1, <1>4, <1>5, <1>6, <1>7, <1>8, PlanKept

LEMMA FailReadyInv ==
  ASSUME Inside, NEW n \in Node, FailReady(n) PROVE Inside'
<1> USE DEF Inside
<1>1. /\ Turn(n) /\ FailHard(n) /\ ready' = Tail(ready)
      /\ UNCHANGED <<plan, pool, drive, ran>>
  BY DEF FailReady, FailLookup, FailPinned, FailDirs, FailEarly, Live
<1>2. Tail(ready) \in Seq(Node) /\ Entries(Tail(ready)) \subseteq Entries(ready)
  BY <1>1, TurnFacts
<1>3. completed' = completed /\ cancelled \subseteq cancelled'  BY <1>1 DEF FailHard
<1>4. FateOK'  BY <1>1, FailHardLemma
<1>5. DriveTypeOK' /\ PoolTypeOK'  BY <1>1, <1>2 DEF DriveTypeOK, PoolTypeOK, drive, pool
<1>6. QueuedOK'  BY <1>1, <1>2, <1>3, QueuedKept DEF drive
<1>7. WindowOK'  BY <1>1, <1>3, WindowKept DEF drive
<1>8. HandedOK'  BY <1>1, HandedKept DEF drive, pool
<1> QED  BY <1>1, <1>4, <1>5, <1>6, <1>7, <1>8, PlanKept

LEMMA DispatchInv ==
  ASSUME Inside, NEW n \in Node, Dispatch(n) PROVE Inside'
<1> USE DEF Inside
<1>1. /\ Turn(n) /\ queue' = Append(queue, n) /\ ran' = ran \cup {n}
      /\ pending' = pending + 1 /\ ready' = Tail(ready)
      /\ UNCHANGED <<plan, drive, outcome, busy, results>>
  BY DEF Dispatch, SendProbe, SendTest, SendUnit, Send, Live, Submit
<1>2. Tail(ready) \in Seq(Node) /\ Entries(Tail(ready)) \subseteq Entries(ready)
  BY <1>1, TurnFacts
<1>3. queue' \in Seq(Node) /\ Entries(queue') = Entries(queue) \cup {n}
  BY <1>1, AppendEntries DEF PoolTypeOK
<1>4. DriveTypeOK'  BY <1>1, <1>2 DEF DriveTypeOK, drive
<1>5. PoolTypeOK'  BY <1>1, <1>3 DEF PoolTypeOK
<1>6. FateOK'  BY <1>1, FateKept DEF FateOK, OutcomeTypeOK
<1>7. QueuedOK'  BY <1>1, <1>2, QueuedKept DEF drive, outcome
<1>8. WindowOK'  BY <1>1, WindowKept DEF drive, outcome
<1>9. HandedOK'  BY <1>1, <1>3 DEF HandedOK, drive
<1> QED  BY <1>1, <1>4, <1>5, <1>6, <1>7, <1>8, <1>9, PlanKept
----------------------------------------------------------------------------
(* The terminal. *)

LEMMA DropCancelledHeadInv ==
  ASSUME Inside, NEW n \in Node, DropCancelledHead(n) PROVE Inside'
<1> USE DEF Inside
<1>1. /\ interactive # <<>> /\ interactive' = Tail(interactive)
      /\ UNCHANGED <<plan, pool, outcome, window, terminal, phase, ready, ran>>
  BY DEF DropCancelledHead, AtHead
<1>2. Tail(interactive) \in Seq(Node) /\ Entries(Tail(interactive)) \subseteq Entries(interactive)
  BY <1>1, HeadFacts
<1>3. DriveTypeOK' /\ PoolTypeOK'  BY <1>1, <1>2 DEF DriveTypeOK, PoolTypeOK, pool
<1>4. FateOK'  BY <1>1, FateKept DEF FateOK, OutcomeTypeOK
<1>5. QueuedOK'  BY <1>1, <1>2, QueuedKept DEF outcome
<1>6. WindowOK'  BY <1>1, WindowKept DEF outcome
<1>7. HandedOK'  BY <1>1, HandedKept DEF pool
<1> QED  BY <1>1, <1>3, <1>4, <1>5, <1>6, <1>7, PlanKept

LEMMA StartInteractiveInv ==
  ASSUME Inside, NEW n \in Node, StartInteractive(n) PROVE Inside'
<1> USE DEF Inside
<1>1. /\ interactive # <<>> /\ interactive' = Tail(interactive) /\ phase = "loop"
      /\ terminal' = n /\ ran' = ran \cup {n}
      /\ UNCHANGED <<plan, pool, outcome, window, phase, ready>>
  BY DEF StartInteractive, AtHead
<1>2. Tail(interactive) \in Seq(Node) /\ Entries(Tail(interactive)) \subseteq Entries(interactive)
  BY <1>1, HeadFacts
<1>3. DriveTypeOK' /\ PoolTypeOK'  BY <1>1, <1>2 DEF DriveTypeOK, PoolTypeOK, pool
<1>4. FateOK'  BY <1>1, FateKept DEF FateOK, OutcomeTypeOK
<1>5. QueuedOK'  BY <1>1, <1>2, QueuedKept DEF outcome
<1>6. WindowOK'  BY <1>1 DEF WindowOK, outcome, plan
<1>7. HandedOK'  BY <1>1 DEF HandedOK, pool
<1> QED  BY <1>1, <1>3, <1>4, <1>5, <1>6, <1>7, PlanKept

LEMMA EndInteractiveInv ==
  ASSUME Inside, NEW ok \in BOOLEAN, EndInteractive(ok) PROVE Inside'
<1> USE DEF Inside
<1>1. /\ phase = "loop" /\ terminal \in Node /\ terminal' = None
      /\ UNCHANGED <<plan, pool, interactive, window, phase, ran>>
  BY DEF EndInteractive, DriveTypeOK
<1>2. HandedOK'  BY <1>1 DEF HandedOK, pool
<1>3. CASE ok
  <2>1. Settle(terminal, <<>>) /\ UNCHANGED rows  BY <1>3 DEF EndInteractive
  <2>2. <<>> \in Seq(Node) /\ \A m \in Entries(<<>>) : deps[m] \subseteq completed
    BY DEF Entries
  <2>3. /\ completed' = completed \cup {terminal} /\ ready' \in Seq(Node)
        /\ \A m \in Entries(ready') : deps[m] \subseteq completed'
    BY <1>1, <2>1, <2>2, CompleteLemma DEF Settle, FateOK
  <2>4. FateOK'  BY <1>1, <2>1, <2>2, SettleLemma DEF FateOK, OutcomeTypeOK, Row
  <2>5. UNCHANGED cancelled  BY <2>1 DEF Settle
  <2>6. DriveTypeOK' /\ PoolTypeOK'  BY <1>1, <2>3 DEF DriveTypeOK, PoolTypeOK, pool
  <2>7. QueuedOK'  BY <1>1, <2>3 DEF QueuedOK, plan
  <2>8. WindowOK'  BY <1>1, <2>3, <2>5 DEF WindowOK, plan
  <2> QED  BY <1>1, <1>2, <2>4, <2>6, <2>7, <2>8, PlanKept
<1>4. CASE ~ok
  <2>1. FailHard(terminal) /\ UNCHANGED ready  BY <1>4 DEF EndInteractive
  <2>2. completed' = completed /\ cancelled \subseteq cancelled'  BY <2>1 DEF FailHard
  <2>3. FateOK'  BY <1>1, <2>1, FailHardLemma
  <2>4. DriveTypeOK' /\ PoolTypeOK'  BY <1>1, <2>1 DEF DriveTypeOK, PoolTypeOK, pool
  <2>5. QueuedOK'  BY <1>1, <2>1, <2>2, QueuedKept
  <2>6. WindowOK'  BY <1>1, <2>2 DEF WindowOK, plan
  <2> QED  BY <1>1, <1>2, <2>3, <2>4, <2>5, <2>6, PlanKept
<1> QED  BY <1>3, <1>4
----------------------------------------------------------------------------
(* The chore window. *)

LEMMA OpenWindowInv ==
  ASSUME Inside, NEW n \in Node, OpenWindow(n) PROVE Inside'
<1> USE DEF Inside
<1>1. /\ interactive # <<>> /\ n = Head(interactive) /\ interactive' = Tail(interactive)
      /\ terminal = None /\ phase' = "gather"
      /\ window' = [members |-> <<n>>, at |-> 1, failed |-> 0]
      /\ UNCHANGED <<plan, pool, outcome, terminal, ready, ran>>
  BY DEF OpenWindow, AtHead
<1>2. /\ deps[n] \subseteq completed
      /\ Tail(interactive) \in Seq(Node) /\ Entries(Tail(interactive)) \subseteq Entries(interactive)
  BY <1>1, HeadFacts
<1>3. <<n>> \in Seq(Node) /\ Len(<<n>>) = 1 /\ <<n>>[1] = n  OBVIOUS
<1>4. DriveTypeOK' /\ PoolTypeOK'  BY <1>1, <1>2, <1>3 DEF DriveTypeOK, PoolTypeOK, pool
<1>5. FateOK'  BY <1>1, FateKept DEF FateOK, OutcomeTypeOK
<1>6. QueuedOK'  BY <1>1, <1>2, QueuedKept DEF outcome
<1>7. WindowOK'  BY <1>1, <1>2, <1>3 DEF WindowOK, outcome, plan
<1>8. HandedOK'  BY <1>1, HandedKept DEF pool
<1> QED  BY <1>1, <1>4, <1>5, <1>6, <1>7, <1>8, PlanKept

(* A member joins: its dependencies are completed, except perhaps the member *)
(* before it. *)
LEMMA JoinWindow ==
  ASSUME Inside, NEW m \in Node, phase = "gather",
         \A d \in deps[m] : d \in completed \/ d = LastMember,
         window' = [window EXCEPT !.members = Append(@, m)],
         UNCHANGED <<plan, outcome, terminal, phase>>
  PROVE  WindowOK' /\ window' \in [members : Seq(Node), at : Nat, failed : Nat]
<1> USE DEF Inside
<1> DEFINE old == window.members  new == window'.members
<1>1. window \in [members : Seq(Node), at : Nat, failed : Nat]  BY DEF DriveTypeOK
<1>2. /\ new = Append(old, m) /\ new \in Seq(Node) /\ Len(new) = Len(old) + 1
      /\ \A i \in 1 .. Len(old) : new[i] = old[i]
      /\ new[Len(old) + 1] = m /\ Len(old) \in Nat
  BY <1>1, AppendProperties, LenProperties
<1>3. window'.at = window.at /\ window'.failed = window.failed
      /\ window' \in [members : Seq(Node), at : Nat, failed : Nat]
  BY <1>1, <1>2
<1>4. Len(old) >= 1 /\ window.at >= 1 /\ window.at <= Len(old) + 1
      /\ window.failed <= Len(old)
  BY DEF WindowOK
<1>5. LastMember = old[Len(old)]  BY DEF LastMember
<1>6. ASSUME NEW j \in 1 .. Len(new), NEW d \in deps[new[j]]
      PROVE  d \in completed \/ (j > 1 /\ d = new[j - 1])
  <2>1. CASE j <= Len(old)
    <3>1. j \in 1 .. Len(old) /\ new[j] = old[j]  BY <1>2, <2>1
    <3>2. d \in completed \/ (j > 1 /\ d = old[j - 1])  BY <1>6, <3>1 DEF WindowOK
    <3>3. j > 1 => new[j - 1] = old[j - 1]  BY <1>2, <2>1
    <3> QED  BY <3>2, <3>3
  <2>2. CASE j = Len(old) + 1
    <3>1. new[j] = m /\ new[j - 1] = old[Len(old)] /\ j > 1  BY <1>2, <1>4, <2>2
    <3> QED  BY <1>5, <1>6, <3>1
  <2> QED  BY <1>2, <2>1, <2>2
<1>7. \A j \in 1 .. window.at - 1 : new[j] \in completed \cup cancelled
  BY <1>1, <1>2, <1>4 DEF WindowOK
<1> HIDE DEF old, new
<1>8. /\ window'.at >= 1 /\ window'.at <= Len(new) + 1 /\ window'.failed <= Len(new)
      /\ Len(new) >= 1
  BY <1>1, <1>2, <1>3, <1>4
<1>9. phase' = "gather" /\ UNCHANGED <<completed, cancelled, deps>>  BY DEF outcome, plan
<1>10. WindowOK'  BY <1>3, <1>6, <1>7, <1>8, <1>9 DEF WindowOK, new
<1> QED  BY <1>3, <1>10

LEMMA GatherInv ==
  ASSUME Inside, Gather PROVE Inside'
<1> USE DEF Inside
<1> DEFINE m == Head(interactive)
<1>1. /\ phase = "gather" /\ interactive # <<>> /\ interactive' = Tail(interactive)
      /\ window' = [window EXCEPT !.members = Append(@, m)]
      /\ UNCHANGED <<plan, pool, outcome, terminal, phase, ready, ran>>
  BY DEF Gather, CanGather
<1>2. /\ m \in Node /\ deps[m] \subseteq completed
      /\ Tail(interactive) \in Seq(Node) /\ Entries(Tail(interactive)) \subseteq Entries(interactive)
  BY <1>1, HeadFacts
<1> HIDE DEF m
<1>3. WindowOK' /\ window' \in [members : Seq(Node), at : Nat, failed : Nat]
  BY <1>1, <1>2, JoinWindow
<1>4. DriveTypeOK' /\ PoolTypeOK'  BY <1>1, <1>2, <1>3 DEF DriveTypeOK, PoolTypeOK, pool
<1>5. FateOK'  BY <1>1, FateKept DEF FateOK, OutcomeTypeOK
<1>6. QueuedOK'  BY <1>1, <1>2, QueuedKept DEF outcome
<1>7. HandedOK'  BY <1>1, HandedKept DEF pool
<1> QED  BY <1>1, <1>3, <1>4, <1>5, <1>6, <1>7, PlanKept

LEMMA ExtendInv ==
  ASSUME Inside, NEW m \in Node, Extend(m) PROVE Inside'
<1> USE DEF Inside
<1>1. /\ phase = "gather" /\ deps[m] \ completed = {LastMember}
      /\ window' = [window EXCEPT !.members = Append(@, m)]
      /\ UNCHANGED <<plan, pool, outcome, interactive, terminal, phase, ready, ran>>
  BY DEF Extend, Follows
<1>2. \A d \in deps[m] : d \in completed \/ d = LastMember  BY <1>1
<1>3. WindowOK' /\ window' \in [members : Seq(Node), at : Nat, failed : Nat]
  BY <1>1, <1>2, JoinWindow
<1>4. DriveTypeOK' /\ PoolTypeOK'  BY <1>1, <1>3 DEF DriveTypeOK, PoolTypeOK, pool
<1>5. FateOK'  BY <1>1, FateKept DEF FateOK, OutcomeTypeOK
<1>6. QueuedOK'  BY <1>1, QueuedKept DEF outcome
<1>7. HandedOK'  BY <1>1, HandedKept DEF pool
<1> QED  BY <1>1, <1>3, <1>4, <1>5, <1>6, <1>7, PlanKept

LEMMA StartWindowInv ==
  ASSUME Inside, NEW ok \in BOOLEAN, StartWindow(ok) PROVE Inside'
<1> USE DEF Inside
<1>1. /\ phase = "gather" /\ phase' = "window"
      /\ window' = [window EXCEPT !.failed = IF ok THEN 0 ELSE 1]
      /\ UNCHANGED <<plan, pool, outcome, interactive, terminal, ready, ran>>
  BY DEF StartWindow
<1>2. window \in [members : Seq(Node), at : Nat, failed : Nat]  BY DEF DriveTypeOK
<1>3. window' \in [members : Seq(Node), at : Nat, failed : Nat]
      /\ window'.members = window.members /\ window'.at = window.at
      /\ window'.failed \in {0, 1}
  BY <1>1, <1>2
<1>4. DriveTypeOK' /\ PoolTypeOK'  BY <1>1, <1>3 DEF DriveTypeOK, PoolTypeOK, pool
<1>5. FateOK'  BY <1>1, FateKept DEF FateOK, OutcomeTypeOK
<1>6. QueuedOK'  BY <1>1, QueuedKept DEF outcome
<1>7. terminal = None  BY <1>1 DEF WindowOK
<1>8. WindowOK'  BY <1>1, <1>2, <1>3, <1>7 DEF WindowOK, outcome, plan
<1>9. HandedOK'  BY <1>1, HandedKept DEF pool
<1> QED  BY <1>1, <1>4, <1>5, <1>6, <1>8, <1>9, PlanKept

LEMMA SkipStepInv ==
  ASSUME Inside, NEW n \in Node, SkipStep(n) PROVE Inside'
<1> USE DEF Inside
<1>1. /\ terminal = None /\ window.at <= Len(window.members)
      /\ n = window.members[window.at] /\ n \in cancelled
      /\ window' = [window EXCEPT !.at = @ + 1]
      /\ UNCHANGED <<plan, pool, outcome, interactive, terminal, phase, ready, ran>>
  BY DEF SkipStep, AtStep, InWindow
<1>2. window \in [members : Seq(Node), at : Nat, failed : Nat]
      /\ Len(window.members) \in Nat
  BY LenProperties DEF DriveTypeOK
<1>3. window' \in [members : Seq(Node), at : Nat, failed : Nat]
      /\ window'.members = window.members /\ window'.at = window.at + 1
      /\ window'.failed = window.failed
  BY <1>1, <1>2
<1>4. DriveTypeOK' /\ PoolTypeOK'  BY <1>1, <1>3 DEF DriveTypeOK, PoolTypeOK, pool
<1>5. FateOK'  BY <1>1, FateKept DEF FateOK, OutcomeTypeOK
<1>6. QueuedOK'  BY <1>1, QueuedKept DEF outcome
<1>7. \A j \in 1 .. window.at : window.members[j] \in completed \cup cancelled
  BY <1>1, <1>2 DEF WindowOK
<1>8. UNCHANGED <<completed, cancelled, deps>>  BY <1>1 DEF outcome, plan
<1>9. WindowOK'  BY <1>1, <1>2, <1>3, <1>7, <1>8 DEF WindowOK
<1>10. HandedOK'  BY <1>1, HandedKept DEF pool
<1> QED  BY <1>1, <1>4, <1>5, <1>6, <1>9, <1>10, PlanKept

LEMMA StartStepInv ==
  ASSUME Inside, NEW n \in Node, StartStep(n) PROVE Inside'
<1> USE DEF Inside
<1>1. /\ window.at <= Len(window.members) /\ n = window.members[window.at]
      /\ phase = "window" /\ terminal' = n
      /\ UNCHANGED <<plan, outcome, interactive, window, phase, ready, busy, results, pending>>
  BY DEF StartStep, AtStep, InWindow
<1>2. /\ ran' = ran \cup {n}
      /\ queue' \in Seq(Node) /\ Entries(queue') \subseteq Entries(queue) \cup {n}
  <2>1. queue \in Seq(Node)  BY DEF PoolTypeOK
  <2>2. Append(queue, n) \in Seq(Node) /\ Entries(Append(queue, n)) = Entries(queue) \cup {n}
    BY <2>1, AppendEntries
  <2>3. CASE kind[n] = "choreLua"
    BY <2>2, <2>3 DEF StartStep, Submit
  <2>4. CASE kind[n] # "choreLua"
    BY <2>1, <2>4 DEF StartStep
  <2> QED  BY <2>3, <2>4
<1>3. DriveTypeOK' /\ PoolTypeOK'  BY <1>1, <1>2 DEF DriveTypeOK, PoolTypeOK
<1>4. FateOK'  BY <1>1, <1>2, FateKept DEF FateOK, OutcomeTypeOK
<1>5. QueuedOK'  BY <1>1, QueuedKept DEF outcome
<1>6. WindowOK'  BY <1>1 DEF WindowOK, outcome, plan
<1>7. HandedOK'  BY <1>1, <1>2 DEF HandedOK
<1> QED  BY <1>1, <1>3, <1>4, <1>5, <1>6, <1>7, PlanKept

(* A step of the window ends: on success it is completed and what it         *)
(* releases outside the window is processed; on failure it is remembered.    *)
LEMMA StepEndsLemma ==
  ASSUME Inside, NEW ok \in BOOLEAN, phase = "window", terminal # None, StepEnds(ok)
  PROVE  /\ PlanTypeOK' /\ DriveTypeOK' /\ FateOK' /\ QueuedOK' /\ WindowOK'
         /\ terminal' = None /\ UNCHANGED ran
<1> USE DEF Inside
<1>1. /\ terminal \in Node /\ terminal = window.members[window.at]
      /\ window.at <= Len(window.members) /\ terminal' = None
      /\ UNCHANGED <<plan, interactive, phase, ran, cancelled, bad, book, failures, rows>>
  BY DEF StepEnds, DriveTypeOK, WindowOK
<1>2. window \in [members : Seq(Node), at : Nat, failed : Nat]
      /\ Len(window.members) \in Nat
  BY LenProperties DEF DriveTypeOK
<1>3. PlanTypeOK'  BY <1>1, PlanKept
<1>4. CASE ok
  <2>1. /\ window' = [window EXCEPT !.at = @ + 1]
        /\ completed' = completed \cup {terminal} /\ good' = good \cup {terminal}
    BY <1>4 DEF StepEnds
  <2>2. PICK s \in Listings(Released(terminal) \ Members) : ready' = s
    BY <1>4 DEF StepEnds
  <2>3. Released(terminal) \in SUBSET Node
        /\ \A m \in Released(terminal) : deps[m] \subseteq completed'
    BY <2>1 DEF Released, Dependents
  <2>4. ready' \in Seq(Node) /\ Entries(ready') \subseteq Released(terminal)
    BY <2>2, <2>3, ListingEntries
  <2>5. /\ window' \in [members : Seq(Node), at : Nat, failed : Nat]
        /\ window'.members = window.members /\ window'.at = window.at + 1
        /\ window'.failed = window.failed
    BY <1>2, <2>1
  <2>6. DriveTypeOK'  BY <1>1, <2>4, <2>5 DEF DriveTypeOK
  <2>7. FateOK'
    BY <1>1, <2>1 DEF FateOK, OutcomeTypeOK, CompletedOK, FailedOK, CancelledOK, Dependents, plan
  <2>8. QueuedOK'  BY <1>1, <2>1, <2>3, <2>4 DEF QueuedOK, plan
  <2>9. \A j \in 1 .. window.at : window.members[j] \in completed' \cup cancelled
    BY <1>1, <1>2, <2>1 DEF WindowOK
  <2>10. UNCHANGED deps  BY <1>1 DEF plan
  <2>11. WindowOK'  BY <1>1, <1>2, <2>1, <2>5, <2>9, <2>10 DEF WindowOK
  <2> QED  BY <1>1, <1>3, <2>6, <2>7, <2>8, <2>11
<1>5. CASE ~ok
  <2>1. window' = [window EXCEPT !.failed = window.at]
        /\ UNCHANGED <<completed, good, ready>>
    BY <1>5 DEF StepEnds
  <2>2. /\ window' \in [members : Seq(Node), at : Nat, failed : Nat]
        /\ window'.members = window.members /\ window'.at = window.at
        /\ window'.failed = window.at
    BY <1>2, <2>1
  <2>3. DriveTypeOK'  BY <1>1, <2>1, <2>2 DEF DriveTypeOK
  <2>4. FateOK'  BY <1>1, <2>1, FateKept DEF FateOK, OutcomeTypeOK, outcome
  <2>5. QueuedOK'  BY <1>1, <2>1, QueuedKept
  <2>6. UNCHANGED deps  BY <1>1 DEF plan
  <2>7. WindowOK'  BY <1>1, <2>1, <2>2, <2>6 DEF WindowOK
  <2> QED  BY <1>1, <1>3, <2>3, <2>4, <2>5, <2>7
<1> QED  BY <1>4, <1>5

LEMMA EndShellStepInv ==
  ASSUME Inside, NEW ok \in BOOLEAN, EndShellStep(ok) PROVE Inside'
<1> USE DEF Inside
<1>1. phase = "window" /\ terminal # None /\ StepEnds(ok) /\ UNCHANGED pool
  BY DEF EndShellStep
<1>2. /\ PlanTypeOK' /\ DriveTypeOK' /\ FateOK' /\ QueuedOK' /\ WindowOK'
      /\ terminal' = None /\ UNCHANGED ran
  BY <1>1, StepEndsLemma
<1>3. PoolTypeOK' /\ HandedOK'  BY <1>1, <1>2 DEF PoolTypeOK, HandedOK, pool
<1> QED  BY <1>2, <1>3

(* The tail of the channel holds what the channel held. *)
LEMMA ResultsTail ==
  ASSUME PoolTypeOK, HandedOK, results # <<>>
  PROVE  /\ Tail(results) \in Seq([node : Node, ok : BOOLEAN])
         /\ \A i \in 1 .. Len(Tail(results)) : Tail(results)[i].node \in ran
         /\ Head(results) \in [node : Node, ok : BOOLEAN]
         /\ Head(results).node \in ran
<1>1. results \in Seq([node : Node, ok : BOOLEAN])  BY DEF PoolTypeOK
<1>2. /\ Head(results) \in [node : Node, ok : BOOLEAN] /\ Head(results) \in Entries(results)
      /\ Tail(results) \in Seq([node : Node, ok : BOOLEAN])
      /\ Entries(Tail(results)) \subseteq Entries(results)
  BY <1>1, TailEntries
<1>3. \A x \in Entries(results) : x.node \in ran  BY DEF HandedOK, Entries
<1> QED  BY <1>2, <1>3 DEF Entries

LEMMA EndLuaStepInv ==
  ASSUME Inside, EndLuaStep PROVE Inside'
<1> USE DEF Inside
<1>1. /\ phase = "window" /\ terminal # None /\ results # <<>>
      /\ StepEnds(Head(results).ok) /\ results' = Tail(results)
      /\ UNCHANGED <<queue, busy, pending>>
  BY DEF EndLuaStep
<1>2. Head(results).ok \in BOOLEAN /\ Tail(results) \in Seq([node : Node, ok : BOOLEAN])
      /\ \A i \in 1 .. Len(Tail(results)) : Tail(results)[i].node \in ran
  BY <1>1, ResultsTail
<1>3. /\ PlanTypeOK' /\ DriveTypeOK' /\ FateOK' /\ QueuedOK' /\ WindowOK'
      /\ terminal' = None /\ UNCHANGED ran
  BY <1>1, <1>2, StepEndsLemma
<1>4. PoolTypeOK' /\ HandedOK'  BY <1>1, <1>2, <1>3 DEF PoolTypeOK, HandedOK
<1> QED  BY <1>3, <1>4

(* The drain and the bookkeeping of the window.  The tail of a failed window *)
(* is cancelled with everything downstream of it and of the failed step.     *)
LEMMA CloseWindowInv ==
  ASSUME Inside, NEW survives \in BOOLEAN, CloseWindow(survives) PROVE Inside'
<1> USE DEF Inside
<1> DEFINE n == Len(window.members)
           k == IF window.failed # 0 THEN window.failed ELSE IF survives THEN n ELSE 0
           Between(i, j) == {window.members[x] : x \in i .. j}
           tail == Between(k + 1, n) \ cancelled
           cone == Cascade(Between(k, n), cancelled \cup tail)
           last == window.members[k]
<1>1. /\ phase = "window" /\ terminal = None /\ window' = NoWindow /\ phase' = "loop"
      /\ UNCHANGED <<plan, pool, interactive, terminal, completed, ready, ran>>
  BY DEF CloseWindow, InWindow
<1>2. /\ window.members \in Seq(Node) /\ n \in Nat /\ n >= 1
      /\ window.failed \in Nat /\ window.failed <= n
      /\ \A x \in 1 .. n : window.members[x] \in Node
  <2>1. window.members \in Seq(Node) /\ window.failed \in Nat  BY DEF DriveTypeOK
  <2> QED  BY <1>1, <2>1, LenProperties, ElementOfSeq DEF WindowOK
<1>3. k \in 0 .. n  BY <1>2
<1>4. \A i \in 1 .. n + 1 : \A j \in 0 .. n : Between(i, j) \in SUBSET Node  BY <1>2
<1>5. NoWindow \in [members : Seq(Node), at : Nat, failed : Nat]
      /\ NoWindow.members = <<>> /\ NoWindow.at = 1 /\ NoWindow.failed = 0
  BY DEF NoWindow
<1>6. DriveTypeOK' /\ PoolTypeOK'  BY <1>1, <1>5 DEF DriveTypeOK, PoolTypeOK, pool
<1>7. WindowOK'  BY <1>1, <1>5, EmptySeq DEF WindowOK
<1>8. HandedOK'  BY <1>1, HandedKept DEF pool
<1>9. QueuedOK'  BY <1>1, QueuedKept
<1>10. book \in Books /\ rows \in [Node -> Seq(Row)] /\ cancelled \in SUBSET Node
  BY DEF FateOK, OutcomeTypeOK, Books, Row
<1>11. \A m : Dependents(m)' = Dependents(m)  BY <1>1 DEF Dependents, plan
<1>12. FateOK'
  <2>1. CASE k = 0
    <3>1. book' = TickOk(book, Members) /\ UNCHANGED <<cancelled, good, bad, failures, rows>>
      BY <2>1 DEF CloseWindow
    <3>2. Members \in SUBSET Node
      BY <1>2 DEF Members
    <3>3. book' \in Books  BY <1>10, <3>1, <3>2, TickBooks DEF TickOk
    <3> QED  BY <1>1, <1>11, <3>1, <3>3
             DEF FateOK, OutcomeTypeOK, CompletedOK, FailedOK, CancelledOK, Books
  <2>2. CASE k # 0
    <3>1. /\ cancelled' = cancelled \cup tail \cup cone
          /\ good' = good \ {last} /\ bad' = bad \cup {last} /\ failures' = failures \cup {last}
          /\ book' = TickSkipped(TickFailed(TickOk(book, Between(1, k - 1)), {last}), cone)
          /\ rows' = BlockedRows(rows, cone)
      BY <2>2 DEF CloseWindow
    <3>2. k \in 1 .. n  BY <1>2, <1>3, <2>2
    <3> HIDE DEF k, n
    <3>3. /\ last \in Node /\ tail \in SUBSET Node /\ Between(k, n) \in SUBSET Node
          /\ Between(1, k - 1) \in SUBSET Node
          /\ last \in Between(k, n) /\ tail \subseteq Between(k, n)
      BY <1>2, <1>4, <3>2 DEF n
    <3> DEFINE roots == Between(k, n)  out == cancelled \cup tail
    <3> HIDE DEF Between, tail, last
    <3>4. /\ cone \in SUBSET Node
          /\ \A m \in roots \cup cone : Dependents(m) \subseteq out \cup cone
      <4>1. roots \in SUBSET Node /\ out \in SUBSET Node  BY <1>10, <3>3
      <4> HIDE DEF roots, out
      <4>2. cone = Cascade(roots, out)  BY DEF roots, out
      <4> QED  BY <4>1, <4>2, CascadeCloses
    <3> HIDE DEF cone
    <3>5. book' \in Books
      <4>1. TickOk(book, Between(1, k - 1)) \in Books  BY <1>10, <3>3, TickBooks DEF TickOk
      <4>2. TickFailed(TickOk(book, Between(1, k - 1)), {last}) \in Books
        BY <3>3, <4>1, TickBooks DEF TickFailed
      <4> QED  BY <3>1, <3>4, <4>2, TickBooks DEF TickSkipped
    <3>6. rows' \in [Node -> Seq(Row)]  BY <1>10, <3>1, <3>3, <3>4, RowTypes DEF Row
    <3>7. OutcomeTypeOK'
      BY <1>1, <3>1, <3>3, <3>4, <3>5, <3>6 DEF FateOK, OutcomeTypeOK, Books, Row
    <3>8. CompletedOK'  BY <1>1, <3>1 DEF FateOK, CompletedOK
    <3>9. FailedOK'  BY <1>11, <3>1, <3>3, <3>4 DEF FateOK, FailedOK
    <3>10. CancelledOK'  BY <1>11, <3>1, <3>3, <3>4 DEF FateOK, CancelledOK
    <3> QED  BY <3>7, <3>8, <3>9, <3>10 DEF FateOK
  <2> QED  BY <2>1, <2>2
<1> QED  BY <1>1, <1>6, <1>7, <1>8, <1>9, <1>12, PlanKept
----------------------------------------------------------------------------
(* The receiving half of the main loop, and the workers. *)

LEMMA ReceiveInv ==
  ASSUME Inside, NEW r \in [node : Node, ok : BOOLEAN], Receive(r) PROVE Inside'
<1> USE DEF Inside
<1>1. /\ pending > 0 /\ results # <<>> /\ results' = Tail(results) /\ pending' = pending - 1
      /\ UNCHANGED <<plan, drive, queue, busy, ran>>
  BY DEF Receive, Receiving, PendingAfter
<1>2. Tail(results) \in Seq([node : Node, ok : BOOLEAN])
      /\ \A i \in 1 .. Len(Tail(results)) : Tail(results)[i].node \in ran
  BY <1>1, ResultsTail
<1>3. PoolTypeOK'  BY <1>1, <1>2 DEF PoolTypeOK
<1>4. HandedOK'  BY <1>1, <1>2 DEF HandedOK, drive
<1>5. <<>> \in Seq(Node) /\ \A m \in Entries(<<>>) : deps[m] \subseteq completed
  BY DEF Entries
<1>6. CASE r.ok /\ Settle(r.node, <<>>) /\ rows' = WithRow(rows, r.node, "passed")
  <2>1. /\ completed' = completed \cup {r.node} /\ ready' \in Seq(Node)
        /\ \A m \in Entries(ready') : deps[m] \subseteq completed'
    BY <1>1, <1>5, <1>6, CompleteLemma DEF Settle, FateOK
  <2>2. rows' \in [Node -> Seq(Row)]  BY <1>6, RowTypes DEF FateOK, OutcomeTypeOK, Row
  <2>3. FateOK'  BY <1>1, <1>5, <1>6, <2>2, SettleLemma
  <2>4. UNCHANGED cancelled  BY <1>6 DEF Settle
  <2>5. DriveTypeOK'  BY <1>1, <2>1 DEF DriveTypeOK, drive
  <2>6. QueuedOK'  BY <1>1, <2>1 DEF QueuedOK, drive, plan
  <2>7. WindowOK'  BY <1>1, <2>1, <2>4, WindowKept DEF drive
  <2> QED  BY <1>1, <1>3, <1>4, <2>3, <2>5, <2>6, <2>7, PlanKept
<1>7. CASE FailSoft(r.node)
  <2>1. Complete(r.node, <<>>) /\ cancelled \subseteq cancelled'  BY <1>7 DEF FailSoft
  <2>2. /\ completed' = completed \cup {r.node} /\ ready' \in Seq(Node)
        /\ \A m \in Entries(ready') : deps[m] \subseteq completed'
    BY <1>1, <1>5, <2>1, CompleteLemma DEF FateOK
  <2>3. FateOK'  BY <1>1, <1>7, FailSoftLemma
  <2>4. DriveTypeOK'  BY <1>1, <2>2 DEF DriveTypeOK, drive
  <2>5. QueuedOK'  BY <1>1, <2>2 DEF QueuedOK, drive, plan
  <2>6. WindowOK'  BY <1>1, <2>1, <2>2, WindowKept DEF drive
  <2> QED  BY <1>1, <1>3, <1>4, <2>3, <2>4, <2>5, <2>6, PlanKept
<1>8. CASE FailHard(r.node) /\ UNCHANGED ready
  <2>1. completed' = completed /\ cancelled \subseteq cancelled'  BY <1>8 DEF FailHard
  <2>2. FateOK'  BY <1>1, <1>8, FailHardLemma
  <2>3. DriveTypeOK'  BY <1>1, <1>8 DEF DriveTypeOK, drive
  <2>4. QueuedOK'  BY <1>1, <1>8, <2>1, QueuedKept DEF drive
  <2>5. WindowOK'  BY <1>1, <2>1, WindowKept DEF drive
  <2> QED  BY <1>1, <1>3, <1>4, <2>2, <2>3, <2>4, <2>5, PlanKept
<1> QED  BY <1>6, <1>7, <1>8 DEF Receive

LEMMA StopInv == ASSUME Inside, Stop PROVE Inside'
<1> USE DEF Inside
<1>1. /\ phase' = "done" /\ phase = "loop" /\ terminal = None
      /\ UNCHANGED <<plan, pool, outcome, interactive, window, terminal, ready, ran>>
  BY DEF Stop
<1>2. DriveTypeOK' /\ PoolTypeOK'  BY <1>1 DEF DriveTypeOK, PoolTypeOK, pool
<1>3. FateOK'  BY <1>1, FateKept DEF FateOK, OutcomeTypeOK
<1>4. QueuedOK'  BY <1>1, QueuedKept DEF outcome
<1>5. WindowOK'  BY <1>1 DEF WindowOK, outcome, plan
<1>6. HandedOK'  BY <1>1, HandedKept DEF pool
<1> QED  BY <1>1, <1>2, <1>3, <1>4, <1>5, <1>6, PlanKept

LEMMA WorkerInv ==
  ASSUME Inside, NEW w \in Workers, Worker(w) PROVE Inside'
<1> USE DEF Inside
<1>1. UNCHANGED <<plan, drive, outcome, ready, ran, pending>>
  BY DEF Worker, Take, SendResult
<1>2. /\ PlanTypeOK' /\ DriveTypeOK' /\ FateOK' /\ QueuedOK' /\ WindowOK'
  <2>1. PlanTypeOK' /\ DriveTypeOK'  BY <1>1, PlanKept DEF DriveTypeOK, drive
  <2>2. FateOK'  BY <1>1, FateKept DEF FateOK, OutcomeTypeOK
  <2>3. QueuedOK'  BY <1>1, QueuedKept DEF drive, outcome
  <2>4. WindowOK'  BY <1>1, WindowKept DEF drive, outcome
  <2> QED  BY <2>1, <2>2, <2>3, <2>4
<1>3. CASE Take(w)
  <2>1. /\ queue # <<>> /\ busy' = [busy EXCEPT ![w] = Head(queue)] /\ queue' = Tail(queue)
        /\ UNCHANGED results
    BY <1>3 DEF Take
  <2>2. /\ Head(queue) \in Node /\ Head(queue) \in Entries(queue)
        /\ Tail(queue) \in Seq(Node) /\ Entries(Tail(queue)) \subseteq Entries(queue)
    BY <2>1, TailEntries DEF PoolTypeOK
  <2>3. PoolTypeOK'  BY <1>1, <2>1, <2>2 DEF PoolTypeOK
  <2>4. HandedOK'  BY <1>1, <2>1, <2>2 DEF HandedOK, PoolTypeOK, drive
  <2> QED  BY <1>2, <2>3, <2>4
<1>4. ASSUME NEW ok \in BOOLEAN, SendResult(w, ok) PROVE Inside'
  <2> DEFINE r == [node |-> busy[w], ok |-> ok]
  <2>1. /\ busy[w] # None /\ results' = Append(results, r)
        /\ busy' = [busy EXCEPT ![w] = None] /\ UNCHANGED queue
    BY <1>4 DEF SendResult
  <2>2. busy[w] \in Node /\ busy[w] \in ran  BY <2>1 DEF PoolTypeOK, HandedOK
  <2>3. r \in [node : Node, ok : BOOLEAN] /\ r.node = busy[w]  BY <2>2
  <2> DEFINE Result == [node : Node, ok : BOOLEAN]
  <2> HIDE DEF r
  <2>4. results' \in Seq(Result) /\ Entries(results') = Entries(results) \cup {r}
    <3>1. results \in Seq(Result) /\ r \in Result  BY <2>3 DEF PoolTypeOK
    <3> HIDE DEF Result
    <3> QED  BY <2>1, <3>1, AppendEntries
  <2>5. PoolTypeOK'  BY <1>1, <2>1, <2>4 DEF PoolTypeOK
  <2>6. \A x \in Entries(results') : x.node \in ran
    BY <2>2, <2>3, <2>4 DEF HandedOK, Entries
  <2>7. HandedOK'  BY <1>1, <2>1, <2>6 DEF HandedOK, PoolTypeOK, Entries, drive
  <2> QED  BY <1>2, <2>5, <2>7
<1> QED  BY <1>3, <1>4 DEF Worker
----------------------------------------------------------------------------
(* The invariant is inductive. *)

LEMMA InitInside == ASSUME Init PROVE Inside
<1>1. PICK p \in Plans :
        deps = p.deps /\ kind = p.kind /\ recipe = p.recipe /\ pinned = p.pinned
  BY DEF Init
<1>2. PlanTypeOK  BY <1>1, PlansAssumption DEF PlanRecord, PlanTypeOK
<1>3. InitialReady \in SUBSET Node /\ \A n \in InitialReady : deps[n] = {}
  BY DEF InitialReady
<1>4. ready \in Seq(Node) /\ Entries(ready) \subseteq InitialReady
  BY <1>3, ListingEntries DEF Init
<1>5. NoWindow \in [members : Seq(Node), at : Nat, failed : Nat]
      /\ NoWindow.members = <<>> /\ NoWindow.at = 1 /\ NoWindow.failed = 0 /\ Len(<<>>) = 0
  BY DEF NoWindow
<1>6. Entries(<<>>) = {}  BY <1>5 DEF Entries
<1>7. DriveTypeOK  BY <1>4, <1>5 DEF Init, DriveTypeOK
<1>8. PoolTypeOK  BY DEF Init, PoolTypeOK
<1>9. FateOK  BY DEF Init, FateOK, OutcomeTypeOK, CompletedOK, FailedOK, CancelledOK
<1>10. QueuedOK  BY <1>3, <1>4, <1>6 DEF Init, QueuedOK
<1>11. WindowOK  BY <1>5 DEF Init, WindowOK
<1>12. HandedOK  BY <1>5, <1>6 DEF Init, HandedOK
<1> QED  BY <1>2, <1>7, <1>8, <1>9, <1>10, <1>11, <1>12 DEF Inside

LEMMA NextInside == ASSUME Inside, [Next]_vars PROVE Inside'
<1>1. CASE ProcessReady
  BY <1>1, SkipCancelledInv, ServeInv, QueueInteractiveInv, FailReadyInv, DispatchInv
     DEF ProcessReady
<1>2. CASE Interact
  BY <1>2, DropCancelledHeadInv, StartInteractiveInv, EndInteractiveInv DEF Interact
<1>3. CASE Window
  BY <1>3, OpenWindowInv, GatherInv, ExtendInv, StartWindowInv, SkipStepInv, StartStepInv,
     EndShellStepInv, EndLuaStepInv, CloseWindowInv
     DEF Window
<1>4. ASSUME NEW n \in Node, NEW ok \in BOOLEAN, Receive([node |-> n, ok |-> ok])
      PROVE  Inside'
  BY <1>4, ReceiveInv
<1>5. CASE Stop  BY <1>5, StopInv
<1>6. ASSUME NEW w \in Workers, Worker(w) PROVE Inside'  BY <1>6, WorkerInv
<1>7. CASE UNCHANGED vars
  <2>1. UNCHANGED <<plan, pool, drive, outcome, ready, ran>>  BY <1>7 DEF vars
  <2> USE DEF Inside
  <2>2. DriveTypeOK' /\ PoolTypeOK'  BY <2>1 DEF DriveTypeOK, PoolTypeOK, drive, pool
  <2>3. FateOK'  BY <2>1, FateKept DEF FateOK, OutcomeTypeOK
  <2>4. QueuedOK'  BY <2>1, QueuedKept DEF drive, outcome
  <2>5. WindowOK'  BY <2>1, WindowKept DEF drive, outcome
  <2>6. HandedOK'  BY <2>1, HandedKept DEF drive, pool
  <2> QED  BY <2>1, <2>2, <2>3, <2>4, <2>5, <2>6, PlanKept
<1> QED  BY <1>1, <1>2, <1>3, <1>4, <1>5, <1>6, <1>7 DEF Next, MainThread

(* The invariant holds in every state of the executor: for every plan whose  *)
(* edges point back, every number of workers and every interleaving of them  *)
(* with the main thread.                                                     *)
THEOREM ExecutorInvariance == Spec => []IInv
<1>1. Init => IInv  BY InitInside, IInvParts
<1>2. IInv /\ [Next]_vars => IInv'
  <2> SUFFICES ASSUME IInv, [Next]_vars PROVE IInv'
    OBVIOUS
  <2>1. Inside'  BY NextInside, IInvParts
  <2> QED  BY <2>1 DEF IInv, Inside, TypeOK, FateOK
<1> QED  BY <1>1, <1>2, PTL DEF Spec

(* Every queue holds units of the DAG, every count is a natural number, and  *)
(* the report of a run has the form execute_dag returns.                     *)
THEOREM ExecutorTypeCorrect == Spec => []TypeOK
<1>1. IInv => TypeOK  BY DEF IInv
<1> QED  BY <1>1, ExecutorInvariance, PTL
----------------------------------------------------------------------------
(* StartsAfterDeps. *)

(* A unit not cancelled whose dependencies are all completed may start.      *)
LEMMA MayStart ==
  ASSUME Inside, NEW n \in Node, n \notin cancelled, deps[n] \subseteq completed
  PROVE  deps[n] \subseteq good
<1> SUFFICES ASSUME NEW d \in deps[n], d \notin good PROVE FALSE
  OBVIOUS
<1>1. d \in bad  BY DEF Inside, FateOK, CompletedOK
<1>2. n \in Dependents(d)  BY DEF Dependents
<1> QED  BY <1>1, <1>2 DEF Inside, FateOK, FailedOK

(* The step of a chore window that is next has its dependencies completed,   *)
(* unless it is cancelled with the step before it.                           *)
LEMMA StepMayStart ==
  ASSUME Inside, NEW n \in Node, AtStep(n), n \notin cancelled
  PROVE  deps[n] \subseteq completed
<1> SUFFICES ASSUME NEW d \in deps[n], d \notin completed PROVE FALSE
  OBVIOUS
<1> DEFINE at == window.at
<1>1. /\ at \in 1 .. Len(window.members) /\ n = window.members[at]
  BY DEF AtStep, Inside, WindowOK, DriveTypeOK
<1>2. at > 1 /\ d = window.members[at - 1]  BY <1>1 DEF Inside, WindowOK
<1>3. d \in completed \cup cancelled  BY <1>1, <1>2 DEF Inside, WindowOK
<1>4. n \in Dependents(d) /\ d \in cancelled  BY <1>3 DEF Dependents
<1> QED  BY <1>4 DEF Inside, FateOK, CancelledOK

StartedNow == (ran' \cup good') \ (ran \cup good)
MayStartNow == \A n \in StartedNow : deps[n] \subseteq good /\ n \notin cancelled

(* What the main thread waits for was handed out before. *)
LEMMA NextStarts == ASSUME Inside, Next PROVE MayStartNow
<1> USE DEF MayStartNow, StartedNow
<1>1. CASE ProcessReady
  <2>1. PICK n \in Node :
          SkipCancelled(n) \/ Serve(n) \/ QueueInteractive(n) \/ FailReady(n) \/ Dispatch(n)
    BY <1>1 DEF ProcessReady
  <2>2. CASE SkipCancelled(n) \/ QueueInteractive(n) \/ FailReady(n)
    BY <2>2 DEF SkipCancelled, QueueInteractive, FailReady, FailLookup, FailPinned,
                FailDirs, FailEarly, FailHard, outcome
  <2>3. CASE Serve(n) \/ Dispatch(n)
    <3>1. Live(n) /\ StartedNow \subseteq {n}
      BY <2>3 DEF Serve, ServeNothing, ServeTest, ServeProbe, ServeHit, Served,
                  Dispatch, SendProbe, SendTest, SendUnit, Send, Submit, Settle, outcome
    <3>2. deps[n] \subseteq completed /\ n \notin cancelled
      BY <3>1, TurnFacts DEF Inside, Live
    <3> QED  BY <3>1, <3>2, MayStart
  <2> QED  BY <2>1, <2>2, <2>3
<1>2. CASE Interact
  <2>1. CASE \E n \in Node : DropCancelledHead(n)
    BY <2>1 DEF DropCancelledHead, outcome
  <2>2. ASSUME NEW n \in Node, StartInteractive(n) PROVE MayStartNow
    <3>1. n \notin cancelled /\ interactive # <<>> /\ n = Head(interactive)
          /\ StartedNow \subseteq {n}
      BY <2>2 DEF StartInteractive, AtHead, outcome
    <3>2. deps[n] \subseteq completed  BY <3>1, HeadFacts DEF Inside
    <3> QED  BY <3>1, <3>2, MayStart
  <2>3. ASSUME NEW ok \in BOOLEAN, EndInteractive(ok) PROVE MayStartNow
    <3>1. terminal \in ran  BY <2>3 DEF EndInteractive, Inside, HandedOK
    <3> QED  BY <2>3, <3>1 DEF EndInteractive, Settle, FailHard
  <2> QED  BY <1>2, <2>1, <2>2, <2>3 DEF Interact
<1>3. CASE Window
  <2>1. CASE \/ \E n \in Node : OpenWindow(n) \/ Extend(n) \/ SkipStep(n)
             \/ Gather
             \/ \E ok \in BOOLEAN : StartWindow(ok)
    BY <2>1 DEF OpenWindow, Extend, SkipStep, Gather, StartWindow, outcome
  <2>2. ASSUME NEW n \in Node, StartStep(n) PROVE MayStartNow
    <3>1. n \notin cancelled /\ AtStep(n) /\ StartedNow \subseteq {n}
      BY <2>2 DEF StartStep, Submit, outcome
    <3> QED  BY <3>1, StepMayStart, MayStart
  <2>3. ASSUME NEW ok \in BOOLEAN, EndShellStep(ok) \/ EndLuaStep PROVE MayStartNow
    <3>1. terminal \in ran  BY <2>3 DEF EndShellStep, EndLuaStep, Inside, HandedOK
    <3> QED  BY <2>3, <3>1 DEF EndShellStep, EndLuaStep, StepEnds
  <2>4. ASSUME NEW ok \in BOOLEAN, CloseWindow(ok) PROVE MayStartNow
    <3>1. good' \subseteq good /\ UNCHANGED ran  BY <2>4 DEF CloseWindow
    <3> QED  BY <3>1
  <2> QED  BY <1>3, <2>1, <2>2, <2>3, <2>4 DEF Window
<1>4. ASSUME NEW n \in Node, NEW ok \in BOOLEAN, Receive([node |-> n, ok |-> ok])
      PROVE  MayStartNow
  <2>1. n \in ran  BY <1>4, ResultsTail DEF Receive, Inside
  <2>2. ran' = ran /\ good' \subseteq good \cup {n}
    BY <1>4 DEF Receive, Settle, FailSoft, FailHard
  <2> QED  BY <2>1, <2>2
<1>5. CASE Stop \/ \E w \in Workers : Worker(w)
  BY <1>5 DEF Stop, Worker, Take, SendResult, outcome
<1> QED  BY <1>1, <1>2, <1>3, <1>4, <1>5 DEF Next, MainThread

(* A body is handed out, or a unit served, only after all its dependencies   *)
(* succeeded and never once it is cancelled: for every plan, with any number *)
(* of workers, through process_ready, the interactive queue and the chore    *)
(* window alike.                                                             *)
THEOREM StartsAfterDepsCorrect == Spec => StartsAfterDeps
<1> DEFINE Starts == \A n \in (ran' \cup good') \ (ran \cup good) :
                       deps[n] \subseteq good /\ n \notin cancelled
<1>1. IInv /\ [Next]_vars => [Starts]_vars
  BY NextStarts, IInvParts DEF MayStartNow, StartedNow
<1>2. [][Starts]_vars <=> StartsAfterDeps  BY DEF StartsAfterDeps
<1> QED  BY <1>1, <1>2, ExecutorInvariance, PTL DEF Spec
----------------------------------------------------------------------------
(* PendingExact. *)

Occupied == {w \in Workers : busy[w] # None}
Awaited == IF AwaitsLua THEN 1 ELSE 0

LEMMA OccupiedFacts ==
  /\ IsFiniteSet(Occupied) /\ Cardinality(Occupied) \in Nat
  /\ PendingExact <=> pending + Awaited = Len(queue) + Cardinality(Occupied) + Len(results)
<1>1. Occupied \subseteq Workers  BY DEF Occupied
<1>2. IsFiniteSet(Occupied) /\ Cardinality(Occupied) \in Nat
  BY <1>1, WorkersAssumption, FS_Subset, FS_CardinalityType
<1> QED  BY <1>2 DEF PendingExact, Occupied, Awaited

LEMMA PendingKept ==
  ASSUME PendingExact, UNCHANGED <<pool, kind>>, Awaited' = Awaited
  PROVE  PendingExact'
  BY DEF PendingExact, pool, Awaited

(* A submission lengthens the queue, the taking of a result shortens the     *)
(* channel.                                                                  *)
LEMMA PoolLengths ==
  ASSUME PoolTypeOK
  PROVE  /\ Len(queue) \in Nat /\ Len(results) \in Nat /\ pending \in Nat
         /\ \A n \in Node : Len(Append(queue, n)) = Len(queue) + 1
         /\ results # <<>> => Len(Tail(results)) = Len(results) - 1 /\ Len(results) >= 1
         /\ queue # <<>> => Len(Tail(queue)) = Len(queue) - 1 /\ Len(queue) >= 1
<1>1. queue \in Seq(Node) /\ results \in Seq([node : Node, ok : BOOLEAN]) /\ pending \in Nat
  BY DEF PoolTypeOK
<1>2. \A n \in Node : Len(Append(queue, n)) = Len(queue) + 1  BY <1>1, AppendProperties
<1>3. results # <<>> => Len(Tail(results)) = Len(results) - 1 /\ Len(results) >= 1
  BY <1>1, HeadTailProperties, EmptySeq, LenProperties
<1>4. queue # <<>> => Len(Tail(queue)) = Len(queue) - 1 /\ Len(queue) >= 1
  BY <1>1, HeadTailProperties, EmptySeq, LenProperties
<1> QED  BY <1>1, <1>2, <1>3, <1>4, LenProperties

LEMMA WorkerPending ==
  ASSUME Inside, PendingExact, NEW w \in Workers, Worker(w) PROVE PendingExact'
<1>1. UNCHANGED <<terminal, phase, kind, pending>>  BY DEF Worker, Take, SendResult, drive, plan
<1>2. Awaited' = Awaited  BY <1>1 DEF Awaited, AwaitsLua
<1>3. PoolTypeOK  BY DEF Inside
<1>4. busy \in [Workers -> Node \cup {None}]  BY <1>3 DEF PoolTypeOK
<1>5. CASE Take(w)
  <2>1. /\ queue # <<>> /\ busy[w] = None /\ queue' = Tail(queue) /\ UNCHANGED results
        /\ busy' = [busy EXCEPT ![w] = Head(queue)]
    BY <1>5 DEF Take
  <2>2. Head(queue) \in Node  BY <2>1, <1>3, HeadTailProperties DEF PoolTypeOK
  <2>3. Occupied' = Occupied \cup {w} /\ w \notin Occupied
    BY <1>4, <2>1, <2>2, NodeFacts DEF Occupied
  <2>4. Cardinality(Occupied') = Cardinality(Occupied) + 1
    BY <2>3, OccupiedFacts, FS_AddElement
  <2>5. Len(queue') = Len(queue) - 1 /\ Len(queue) \in Nat /\ Len(results) \in Nat
    BY <1>3, <2>1, PoolLengths
  <2>6. pending' + Awaited' = Len(queue') + Cardinality(Occupied') + Len(results')
    BY <1>1, <1>2, <2>1, <2>4, <2>5, OccupiedFacts
  <2> QED  BY <2>6 DEF PendingExact, Awaited, Occupied
<1>6. ASSUME NEW ok \in BOOLEAN, SendResult(w, ok) PROVE PendingExact'
  <2>1. /\ busy[w] # None /\ results' = Append(results, [node |-> busy[w], ok |-> ok])
        /\ UNCHANGED queue /\ busy' = [busy EXCEPT ![w] = None]
    BY <1>6 DEF SendResult
  <2>2. [node |-> busy[w], ok |-> ok] \in [node : Node, ok : BOOLEAN]  BY <1>4, <2>1
  <2>3. Len(results') = Len(results) + 1 /\ Len(results) \in Nat
    BY <1>3, <2>1, <2>2, AppendProperties, LenProperties DEF PoolTypeOK
  <2>4. Occupied' = Occupied \ {w} /\ w \in Occupied  BY <1>4, <2>1 DEF Occupied
  <2>5. Cardinality(Occupied') = Cardinality(Occupied) - 1
    BY <2>4, OccupiedFacts, FS_RemoveElement
  <2>6. Len(queue) \in Nat  BY <1>3, PoolLengths
  <2>7. pending' + Awaited' = Len(queue') + Cardinality(Occupied') + Len(results')
    BY <1>1, <1>2, <2>1, <2>3, <2>5, <2>6, OccupiedFacts
  <2> QED  BY <2>7 DEF PendingExact, Awaited, Occupied
<1> QED  BY <1>5, <1>6 DEF Worker

LEMMA NextPending == ASSUME Inside, PendingExact, [Next]_vars PROVE PendingExact'
<1>0. PoolTypeOK /\ WindowOK  BY DEF Inside
<1>1. CASE ProcessReady
  <2>1. PICK n \in Node :
          SkipCancelled(n) \/ Serve(n) \/ QueueInteractive(n) \/ FailReady(n) \/ Dispatch(n)
    BY <1>1 DEF ProcessReady
  <2>2. UNCHANGED <<kind, terminal, phase>>
    BY <2>1 DEF SkipCancelled, Serve, ServeNothing, ServeTest, ServeProbe, ServeHit, Served,
                QueueInteractive, FailReady, FailLookup, FailPinned, FailDirs, FailEarly,
                Dispatch, SendProbe, SendTest, SendUnit, Send, plan, drive
  <2>3. Awaited' = Awaited  BY <2>2 DEF Awaited, AwaitsLua
  <2>4. CASE SkipCancelled(n) \/ Serve(n) \/ QueueInteractive(n) \/ FailReady(n)
    <3>1. UNCHANGED pool
      BY <2>4 DEF SkipCancelled, Serve, ServeNothing, ServeTest, ServeProbe, ServeHit, Served,
                  QueueInteractive, FailReady, FailLookup, FailPinned, FailDirs, FailEarly
    <3> QED  BY <2>2, <2>3, <3>1, PendingKept
  <2>5. CASE Dispatch(n)
    <3>1. queue' = Append(queue, n) /\ pending' = pending + 1 /\ UNCHANGED <<busy, results>>
      BY <2>5 DEF Dispatch, SendProbe, SendTest, SendUnit, Send, Submit
    <3>2. Len(queue') = Len(queue) + 1 /\ Len(queue) \in Nat /\ Len(results) \in Nat
      BY <1>0, <3>1, PoolLengths
    <3>3. Occupied' = Occupied  BY <3>1 DEF Occupied
    <3>4. pending' + Awaited' = Len(queue') + Cardinality(Occupied') + Len(results')
      <4>1. pending \in Nat /\ Awaited \in Nat  BY <1>0, PoolLengths DEF Awaited
      <4> QED  BY <2>3, <3>1, <3>2, <3>3, <4>1, OccupiedFacts
    <3> QED  BY <3>4 DEF PendingExact, Awaited, Occupied
  <2> QED  BY <2>1, <2>4, <2>5
<1>2. CASE Interact
  <2>1. UNCHANGED <<pool, kind, phase>> /\ phase = "loop"
    BY <1>2 DEF Interact, DropCancelledHead, StartInteractive, EndInteractive, AtHead, plan
  <2>2. Awaited' = Awaited  BY <2>1 DEF Awaited, AwaitsLua
  <2> QED  BY <2>1, <2>2, PendingKept
<1>3. CASE Window
  <2>1. CASE \/ \E n \in Node : OpenWindow(n) \/ Extend(n) \/ SkipStep(n)
             \/ Gather
             \/ \E ok \in BOOLEAN : StartWindow(ok) \/ CloseWindow(ok)
    <3>1. UNCHANGED <<pool, kind, terminal>> /\ terminal = None
      BY <1>0, <2>1 DEF WindowOK, OpenWindow, AtHead, Extend, SkipStep, AtStep, InWindow, Gather,
                  StartWindow, CloseWindow, plan
    <3>2. Awaited' = Awaited  BY <3>1 DEF Awaited, AwaitsLua
    <3> QED  BY <3>1, <3>2, PendingKept
  <2>2. ASSUME NEW n \in Node, StartStep(n) PROVE PendingExact'
    <3>1. /\ terminal = None /\ terminal' = n /\ n # None /\ phase = "window"
          /\ UNCHANGED <<kind, phase, busy, results, pending>>
          /\ queue' = IF kind[n] = "choreLua" THEN Append(queue, n) ELSE queue
      BY <2>2, NodeFacts DEF StartStep, AtStep, InWindow, Submit, plan
    <3>2. Awaited = 0 /\ Awaited' = IF kind[n] = "choreLua" THEN 1 ELSE 0
      BY <3>1 DEF Awaited, AwaitsLua
    <3>3. Len(queue') = Len(queue) + Awaited'
      BY <1>0, <3>1, <3>2, PoolLengths
    <3>4. Occupied' = Occupied  BY <3>1 DEF Occupied
    <3>5. pending' + Awaited' = Len(queue') + Cardinality(Occupied') + Len(results')
      <4>1. Len(queue) \in Nat /\ Len(results) \in Nat /\ pending \in Nat /\ Awaited' \in Nat
        BY <1>0, <3>2, PoolLengths
      <4> QED  BY <3>1, <3>2, <3>3, <3>4, <4>1, OccupiedFacts
    <3> QED  BY <3>5 DEF PendingExact, Awaited, Occupied
  <2>3. ASSUME NEW ok \in BOOLEAN, EndShellStep(ok) PROVE PendingExact'
    <3>1. UNCHANGED <<pool, kind>> /\ kind[terminal] # "choreLua" /\ terminal' = None
      BY <2>3 DEF EndShellStep, StepEnds, plan
    <3>2. Awaited' = Awaited  BY <3>1 DEF Awaited, AwaitsLua
    <3> QED  BY <3>1, <3>2, PendingKept
  <2>4. CASE EndLuaStep
    <3>1. /\ AwaitsLua /\ terminal' = None /\ results # <<>> /\ results' = Tail(results)
          /\ UNCHANGED <<queue, busy, pending>>
      BY <2>4 DEF EndLuaStep, StepEnds, AwaitsLua
    <3>2. Awaited = 1 /\ Awaited' = 0  BY <3>1 DEF Awaited, AwaitsLua
    <3>3. Len(results') = Len(results) - 1 /\ Len(results) \in Nat /\ Len(queue) \in Nat
          /\ pending \in Nat
      BY <1>0, <3>1, PoolLengths
    <3>4. Occupied' = Occupied  BY <3>1 DEF Occupied
    <3>5. pending' + Awaited' = Len(queue') + Cardinality(Occupied') + Len(results')
      <4>1. /\ pending + 1 = Len(queue) + Cardinality(Occupied) + Len(results)
            /\ Cardinality(Occupied) \in Nat
        BY <3>2, OccupiedFacts
      <4>2. UNCHANGED <<queue, pending>>  BY <3>1
      <4> QED  BY <3>2, <3>3, <3>4, <4>1, <4>2
    <3> QED  BY <3>5 DEF PendingExact, Awaited, Occupied
  <2> QED  BY <1>3, <2>1, <2>2, <2>3, <2>4 DEF Window
<1>4. ASSUME NEW n \in Node, NEW ok \in BOOLEAN, Receive([node |-> n, ok |-> ok])
      PROVE  PendingExact'
  <2>1. /\ pending > 0 /\ results # <<>> /\ results' = Tail(results) /\ pending' = pending - 1
        /\ UNCHANGED <<kind, terminal, phase, queue, busy>>
    BY <1>4 DEF Receive, Receiving, PendingAfter, plan, drive
  <2>2. Awaited' = Awaited /\ Occupied' = Occupied
    BY <2>1 DEF Awaited, AwaitsLua, Occupied
  <2>3. Len(results') = Len(results) - 1 /\ Len(results) \in Nat /\ Len(queue) \in Nat
        /\ pending \in Nat /\ Awaited \in Nat
    BY <1>0, <2>1, PoolLengths DEF Awaited
  <2>4. pending' + Awaited' = Len(queue') + Cardinality(Occupied') + Len(results')
    BY <2>1, <2>2, <2>3, OccupiedFacts
  <2> QED  BY <2>4 DEF PendingExact, Awaited, Occupied
<1>5. CASE Stop
  <2>1. UNCHANGED <<pool, kind, terminal>> /\ terminal = None  BY <1>5 DEF Stop, plan
  <2>2. Awaited' = Awaited  BY <2>1 DEF Awaited, AwaitsLua
  <2> QED  BY <2>1, <2>2, PendingKept
<1>6. ASSUME NEW w \in Workers, Worker(w) PROVE PendingExact'  BY <1>6, WorkerPending
<1>7. CASE UNCHANGED vars
  <2>1. UNCHANGED <<pool, kind, terminal, phase>>  BY <1>7 DEF vars, plan, drive
  <2>2. Awaited' = Awaited  BY <2>1 DEF Awaited, AwaitsLua
  <2> QED  BY <2>1, <2>2, PendingKept
<1> QED  BY <1>1, <1>2, <1>3, <1>4, <1>5, <1>6, <1>7 DEF Next, MainThread

(* The main thread's count of the results still to come is exact with any    *)
(* number of workers, whatever is served, sent, failed and cancelled while   *)
(* they run: it never waits on a channel nobody will send to.                *)
THEOREM PendingExactCorrect == Spec => []PendingExact
<1>1. Init => Inside /\ PendingExact
  <2> SUFFICES ASSUME Init PROVE PendingExact
    BY InitInside
  <2>1. Occupied = {} /\ Awaited = 0 /\ Len(queue) = 0 /\ Len(results) = 0 /\ pending = 0
    BY DEF Init, Occupied, Awaited, AwaitsLua
  <2>2. Cardinality(Occupied) = 0  BY <2>1, FS_EmptySet
  <2> QED  BY <2>1, <2>2, OccupiedFacts
<1>2. Inside /\ PendingExact /\ [Next]_vars => Inside' /\ PendingExact'
  BY NextInside, NextPending
<1> QED  BY <1>1, <1>2, PTL DEF Spec
----------------------------------------------------------------------------
(* A unit is handed out once.  The units still to be processed are distinct, *)
(* wherever they wait, and none has been touched; a unit is released only    *)
(* when the last of its dependencies completes, and what is touched or waits *)
(* has them all completed already.                                           *)
Distinct(s) == \A i, j \in 1 .. Len(s) : i # j => s[i] # s[j]

Taken == ran \cup good \cup completed
Waiting == Entries(ready) \cup Entries(interactive)
Inner == Entries(window.members)

DepsDone == \A n \in Taken \cup Waiting : deps[n] \subseteq completed

AllDistinct ==
  /\ Distinct(ready) /\ Distinct(interactive) /\ Distinct(window.members)
  /\ Entries(ready) \cap Entries(interactive) = {}
  /\ Inner \cap Waiting = {}

Untouched ==
  /\ Waiting \cap Taken = {}
  /\ \A j \in 1 .. Len(window.members) :
       j > window.at \/ (j = window.at /\ terminal = None /\ window.failed = 0) =>
         window.members[j] \notin Taken

Once ==
  /\ DepsDone /\ AllDistinct /\ Untouched
  /\ phase \in {"loop", "done"} => window = NoWindow
  /\ phase = "gather" => window.at = 1 /\ window.failed = 0

LEMMA TailDistinct ==
  ASSUME NEW S, NEW s \in Seq(S), s # <<>>, Distinct(s)
  PROVE  /\ Distinct(Tail(s)) /\ Head(s) \notin Entries(Tail(s))
         /\ Entries(s) = {Head(s)} \cup Entries(Tail(s))
<1>1. Len(s) \in Nat /\ Len(s) >= 1  BY EmptySeq, LenProperties
<1>2. Head(s) = s[1]  BY HeadTailProperties
<1> DEFINE t == Tail(s)
<1>3. Len(t) = Len(s) - 1 /\ \A i \in 1 .. Len(t) : t[i] = s[i + 1]
  BY HeadTailProperties
<1> HIDE DEF t
<1>4. Distinct(t) /\ Head(s) \notin Entries(t)  BY <1>1, <1>2, <1>3 DEF Distinct, Entries
<1>5. ASSUME NEW i \in 1 .. Len(s), i # 1 PROVE s[i] \in Entries(t)
  <2>1. i - 1 \in 1 .. Len(t) /\ t[i - 1] = s[i]  BY <1>1, <1>3, <1>5
  <2> QED  BY <2>1 DEF Entries
<1>6. Entries(t) \subseteq Entries(s)  BY <1>1, <1>3 DEF Entries
<1>7. Head(s) \in Entries(s)  BY <1>1, <1>2 DEF Entries
<1>8. Entries(s) \subseteq {Head(s)} \cup Entries(t)
  <2> SUFFICES ASSUME NEW i \in 1 .. Len(s) PROVE s[i] \in {Head(s)} \cup Entries(t)
    BY DEF Entries
  <2> QED  BY <1>2, <1>5
<1> QED  BY <1>4, <1>6, <1>7, <1>8 DEF t

LEMMA AppendDistinct ==
  ASSUME NEW S, NEW s \in Seq(S), Distinct(s), NEW e \in S, e \notin Entries(s)
  PROVE  Distinct(Append(s, e))
<1> DEFINE t == Append(s, e)
<1>1. /\ Len(t) = Len(s) + 1 /\ Len(s) \in Nat /\ t[Len(s) + 1] = e
      /\ \A i \in 1 .. Len(s) : t[i] = s[i]
  BY AppendProperties, LenProperties
<1> HIDE DEF t
<1>2. \A i \in 1 .. Len(t) : i \in 1 .. Len(s) \/ i = Len(s) + 1  BY <1>1
<1>3. Distinct(t)  BY <1>1, <1>2 DEF Distinct, Entries
<1> QED  BY <1>3 DEF t

LEMMA ConcatDistinct ==
  ASSUME NEW S, NEW s \in Seq(S), NEW t \in Seq(S), Distinct(s), Distinct(t),
         Entries(s) \cap Entries(t) = {}
  PROVE  Distinct(s \o t)
<1> DEFINE u == s \o t
<1>1. /\ Len(u) = Len(s) + Len(t)
      /\ \A i \in 1 .. Len(s) + Len(t) : u[i] = IF i <= Len(s) THEN s[i] ELSE t[i - Len(s)]
  BY ConcatProperties
<1>2. Len(s) \in Nat /\ Len(t) \in Nat  BY LenProperties
<1> HIDE DEF u
<1>3. \A i \in 1 .. Len(u) :
        \/ i \in 1 .. Len(s) /\ u[i] = s[i]
        \/ i - Len(s) \in 1 .. Len(t) /\ u[i] = t[i - Len(s)] /\ ~(i <= Len(s))
  BY <1>1, <1>2
<1>4. ASSUME NEW i \in 1 .. Len(u), NEW j \in 1 .. Len(u), i # j PROVE u[i] # u[j]
  <2>1. CASE i <= Len(s) /\ j <= Len(s)  BY <1>3, <1>4, <2>1 DEF Distinct
  <2>2. CASE ~(i <= Len(s)) /\ ~(j <= Len(s))
    <3>1. i - Len(s) # j - Len(s)  BY <1>2, <1>4
    <3> QED  BY <1>2, <1>3, <2>2, <3>1 DEF Distinct
  <2>3. CASE i <= Len(s) /\ ~(j <= Len(s))
    <3>1. u[i] \in Entries(s) /\ u[j] \in Entries(t)  BY <1>2, <1>3, <2>3 DEF Entries
    <3> QED  BY <3>1
  <2>4. CASE ~(i <= Len(s)) /\ j <= Len(s)
    <3>1. u[j] \in Entries(s) /\ u[i] \in Entries(t)  BY <1>2, <1>3, <2>4 DEF Entries
    <3> QED  BY <3>1
  <2> QED  BY <2>1, <2>2, <2>3, <2>4
<1>5. Distinct(u)  BY <1>4 DEF Distinct
<1> QED  BY <1>5 DEF u

LEMMA ListingDistinct ==
  ASSUME NEW S \in SUBSET Node, NEW s \in Listings(S)
  PROVE  Distinct(s)
<1>1. Cardinality(S) \in Nat  BY CountNodes
<1>2. /\ s \in [1 .. Cardinality(S) -> S]
      /\ \A i, j \in 1 .. Cardinality(S) : i < j => s[i] < s[j]
  BY DEF Listings
<1>3. Len(s) = Cardinality(S)  BY <1>1, <1>2
<1>4. \A i \in 1 .. Cardinality(S) : s[i] \in Nat  BY <1>2, NodeFacts
<1> QED  BY <1>1, <1>2, <1>3, <1>4 DEF Distinct
----------------------------------------------------------------------------
(* Nothing the completion of n releases was touched or waits already.        *)
LEMMA ReleasedFresh ==
  ASSUME Inside, Once, NEW n \in Node, n \in Taken \cup Waiting, NEW m \in Released(n)
  PROVE  /\ m \in Node /\ deps[m] \subseteq completed \cup {n}
         /\ m \notin Taken \cup Waiting /\ m # n
<1>1. /\ m \in Node /\ n \in deps[m] /\ n \notin completed /\ deps[m] \ completed = {n}
  BY DEF Released, Dependents
<1>2. m \notin Taken \cup Waiting  BY <1>1 DEF Once, DepsDone
<1> QED  BY <1>1, <1>2

(* A member waits, beyond what is completed, for the member before it only.  *)
LEMMA ReleasedNotInner ==
  ASSUME Inside, NEW n \in Node, n \notin Inner, NEW m \in Released(n)
  PROVE  m \notin Inner
<1>1. /\ n \in deps[m] /\ n \notin completed  BY DEF Released, Dependents
<1> SUFFICES ASSUME NEW j \in 1 .. Len(window.members), m = window.members[j] PROVE FALSE
  BY DEF Inner, Entries
<1>2. n \in completed \/ (j > 1 /\ n = window.members[j - 1])
  BY <1>1 DEF Inside, WindowOK
<1>3. Len(window.members) \in Nat  BY LenProperties DEF Inside, DriveTypeOK
<1>4. j > 1 => j - 1 \in 1 .. Len(window.members)  BY <1>3
<1> QED  BY <1>1, <1>2, <1>4 DEF Inner, Entries

LEMMA CompleteOnce ==
  ASSUME Inside, Once, NEW n \in Node, n \in Taken \cup Waiting, n \notin Inner,
         NEW rest \in Seq(Node), Distinct(rest), Entries(rest) \subseteq Entries(ready),
         n \notin Entries(rest), Complete(n, rest)
  PROVE  /\ Distinct(ready')
         /\ \A m \in Entries(ready') :
              /\ m \in Node /\ deps[m] \subseteq completed' /\ m \notin Taken /\ m # n
              /\ m \notin Entries(interactive) /\ m \notin Inner
<1>1. completed' = completed \cup {n}  BY DEF Complete
<1>2. PICK s \in Listings(Released(n)) : ready' = s \o rest  BY DEF Complete
<1>3. Released(n) \in SUBSET Node  BY DEF Released, Dependents
<1>4. s \in Seq(Node) /\ Entries(s) \subseteq Released(n) /\ Distinct(s)
  BY <1>2, <1>3, ListingEntries, ListingDistinct
<1>5. \A m \in Released(n) :
        /\ m \in Node /\ deps[m] \subseteq completed' /\ m \notin Taken \cup Waiting /\ m # n
        /\ m \notin Inner
  BY <1>1, ReleasedFresh, ReleasedNotInner
<1>6. Entries(s) \cap Entries(rest) = {}  BY <1>4, <1>5 DEF Waiting
<1>7. Distinct(ready') /\ Entries(ready') \subseteq Entries(s) \cup Entries(rest)
  BY <1>2, <1>4, <1>6, ConcatDistinct, ConcatEntries
<1>8. \A m \in Entries(rest) :
        /\ deps[m] \subseteq completed' /\ m \notin Taken /\ m # n
        /\ m \notin Entries(interactive) /\ m \notin Inner /\ m \in Node
  <2> SUFFICES ASSUME NEW m \in Entries(rest)
               PROVE  /\ deps[m] \subseteq completed' /\ m \notin Taken /\ m # n
                      /\ m \notin Entries(interactive) /\ m \notin Inner /\ m \in Node
    OBVIOUS
  <2>1. m \in Entries(ready)  OBVIOUS
  <2>2. m \in Node  BY ElementOfSeq, LenProperties DEF Entries
  <2> QED  BY <1>1, <2>1, <2>2 DEF Once, DepsDone, AllDistinct, Untouched, Waiting
<1>9. Entries(s) \subseteq Released(n)  BY <1>4
<1> QED  BY <1>5, <1>7, <1>8, <1>9 DEF Waiting

(* A unit is completed outside the window's own steps. *)
LEMMA SettledOnce ==
  ASSUME Inside, Inside', Once, NEW n \in Node, n \notin Inner,
         \/ n \in Taken
         \/ n \in Entries(ready) /\ n \notin Entries(interactive),
         NEW rest \in Seq(Node), Distinct(rest), Entries(rest) \subseteq Entries(ready),
         n \notin Entries(rest), Complete(n, rest),
         UNCHANGED <<plan, ran, interactive, window, phase>>,
         terminal' = terminal \/ phase = "loop",
         good' \subseteq good \cup {n}
  PROVE  Once'
<1>1. completed' = completed \cup {n} /\ deps' = deps  BY DEF Complete, plan
<1>2. Taken' \subseteq Taken \cup {n}  BY <1>1 DEF Taken
<1>3. /\ Distinct(ready')
      /\ \A m \in Entries(ready') :
           /\ m \in Node /\ deps[m] \subseteq completed' /\ m \notin Taken /\ m # n
           /\ m \notin Entries(interactive) /\ m \notin Inner
  BY CompleteOnce DEF Waiting
<1>4. deps[n] \subseteq completed  BY DEF Once, DepsDone, Waiting
<1>5. DepsDone'  BY <1>1, <1>2, <1>3, <1>4 DEF Once, DepsDone, Waiting
<1>6. AllDistinct'  BY <1>3 DEF Once, AllDistinct, Waiting, Inner
<1>7. n \notin Entries(interactive)  BY DEF Once, Untouched, Waiting
<1>8. Waiting' \cap Taken' = {}  BY <1>2, <1>3, <1>7 DEF Once, Untouched, Waiting
<1>9. Untouched'
  <2> SUFFICES ASSUME NEW j \in 1 .. Len(window.members),
                      j > window.at \/ (j = window.at /\ terminal' = None /\ window.failed = 0)
               PROVE  window.members[j] \notin Taken'
    BY <1>8 DEF Untouched
  <2>1. window.members[j] # n  BY DEF Inner, Entries
  <2>2. terminal' = terminal  BY DEF Once, NoWindow
  <2> QED  BY <1>2, <2>1, <2>2 DEF Once, Untouched
<1> QED  BY <1>5, <1>6, <1>9 DEF Once

(* Nothing is completed, and what waits only gets less. *)
LEMMA OnceKept ==
  ASSUME Once, UNCHANGED <<plan, ran, completed, window, phase>>, good' \subseteq good,
         terminal' = terminal \/ phase = "loop",
         Distinct(ready'), Distinct(interactive'),
         Entries(ready') \cap Entries(interactive') = {},
         Waiting' \subseteq Waiting
  PROVE  Once'
<1>1. Taken' \subseteq Taken /\ deps' = deps  BY DEF Taken, plan
<1>2. DepsDone'  BY <1>1 DEF Once, DepsDone
<1>3. AllDistinct'  BY DEF Once, AllDistinct, Inner
<1>4. Untouched'
  <2>1. Waiting' \cap Taken' = {}  BY <1>1 DEF Once, Untouched
  <2> SUFFICES ASSUME NEW j \in 1 .. Len(window.members),
                      j > window.at \/ (j = window.at /\ terminal' = None /\ window.failed = 0)
               PROVE  window.members[j] \notin Taken'
    BY <2>1 DEF Untouched
  <2>2. terminal' = terminal  BY DEF Once, NoWindow
  <2> QED  BY <1>1, <2>2 DEF Once, Untouched
<1> QED  BY <1>2, <1>3, <1>4 DEF Once

(* A unit that waits is handed out, the window standing still. *)
LEMMA HandedOnce ==
  ASSUME Once, UNCHANGED <<plan, good, completed, window, phase>>, NEW n \in Waiting,
         ran' = ran \cup {n}, n \notin Waiting',
         terminal' = terminal \/ phase = "loop",
         Distinct(ready'), Distinct(interactive'),
         Entries(ready') \cap Entries(interactive') = {},
         Waiting' \subseteq Waiting
  PROVE  Once'
<1>1. Taken' = Taken \cup {n} /\ deps' = deps  BY DEF Taken, plan
<1>2. DepsDone'  BY <1>1 DEF Once, DepsDone
<1>3. AllDistinct'  BY DEF Once, AllDistinct, Inner
<1>4. n \notin Inner  BY DEF Once, AllDistinct
<1>5. Untouched'
  <2>1. Waiting' \cap Taken' = {}  BY <1>1 DEF Once, Untouched
  <2> SUFFICES ASSUME NEW j \in 1 .. Len(window.members),
                      j > window.at \/ (j = window.at /\ terminal' = None /\ window.failed = 0)
               PROVE  window.members[j] \notin Taken'
    BY <2>1 DEF Untouched
  <2>2. terminal' = terminal  BY DEF Once, NoWindow
  <2>3. window.members[j] # n  BY <1>4 DEF Inner, Entries
  <2> QED  BY <1>1, <2>2, <2>3 DEF Once, Untouched
<1> QED  BY <1>2, <1>3, <1>5 DEF Once

(* The call at the head of `ready'. *)
LEMMA TurnOnce ==
  ASSUME Inside, Once, NEW n \in Node, Turn(n)
  PROVE  /\ n \in Entries(ready) /\ n \notin Entries(interactive) /\ n \notin Inner
         /\ n \notin Taken
         /\ Tail(ready) \in Seq(Node) /\ Distinct(Tail(ready)) /\ n \notin Entries(Tail(ready))
         /\ Entries(Tail(ready)) \subseteq Entries(ready)
<1>1. ready \in Seq(Node) /\ ready # <<>> /\ n = Head(ready) /\ Distinct(ready)
  BY DEF Inside, DriveTypeOK, Turn, Once, AllDistinct
<1>2. /\ n \in Entries(ready) /\ Tail(ready) \in Seq(Node) /\ Distinct(Tail(ready))
      /\ n \notin Entries(Tail(ready)) /\ Entries(Tail(ready)) \subseteq Entries(ready)
  BY <1>1, TailEntries, TailDistinct
<1> QED  BY <1>2 DEF Once, AllDistinct, Untouched, Waiting

LEMMA HeadOnce ==
  ASSUME Inside, Once, interactive # <<>>
  PROVE  /\ Head(interactive) \in Entries(interactive) /\ Head(interactive) \in Node
         /\ Head(interactive) \notin Entries(ready) /\ Head(interactive) \notin Inner
         /\ Head(interactive) \notin Taken
         /\ Tail(interactive) \in Seq(Node) /\ Distinct(Tail(interactive))
         /\ Head(interactive) \notin Entries(Tail(interactive))
         /\ Entries(Tail(interactive)) \subseteq Entries(interactive)
<1>1. interactive \in Seq(Node) /\ Distinct(interactive)
  BY DEF Inside, DriveTypeOK, Once, AllDistinct
<1>2. /\ Head(interactive) \in Entries(interactive) /\ Head(interactive) \in Node
      /\ Tail(interactive) \in Seq(Node) /\ Distinct(Tail(interactive))
      /\ Head(interactive) \notin Entries(Tail(interactive))
      /\ Entries(Tail(interactive)) \subseteq Entries(interactive)
  BY <1>1, TailEntries, TailDistinct
<1> QED  BY <1>2 DEF Once, AllDistinct, Untouched, Waiting

LEMMA EmptyFacts == Entries(<<>>) = {} /\ Distinct(<<>>) /\ <<>> \in Seq(Node)
<1>1. Len(<<>>) = 0  OBVIOUS
<1> QED  BY <1>1 DEF Entries, Distinct

LEMMA ProcessReadyOnce == ASSUME Inside, Inside', Once, ProcessReady PROVE Once'
<1>1. PICK n \in Node :
        SkipCancelled(n) \/ Serve(n) \/ QueueInteractive(n) \/ FailReady(n) \/ Dispatch(n)
  BY DEF ProcessReady
<1>2. Turn(n) /\ UNCHANGED <<plan, window, phase, terminal>>
  BY <1>1 DEF SkipCancelled, Serve, ServeNothing, ServeTest, ServeProbe, ServeHit, Served,
              QueueInteractive, FailReady, FailLookup, FailPinned, FailDirs, FailEarly,
              Dispatch, SendProbe, SendTest, SendUnit, Send, Live, drive
<1>3. /\ n \in Entries(ready) /\ n \notin Entries(interactive) /\ n \notin Inner
      /\ n \notin Taken
      /\ Tail(ready) \in Seq(Node) /\ Distinct(Tail(ready)) /\ n \notin Entries(Tail(ready))
      /\ Entries(Tail(ready)) \subseteq Entries(ready)
  BY <1>2, TurnOnce
<1>4. /\ Distinct(interactive) /\ Entries(ready) \cap Entries(interactive) = {}
      /\ interactive \in Seq(Node)
  BY DEF Once, AllDistinct, Inside, DriveTypeOK
<1>5. CASE SkipCancelled(n) \/ FailReady(n)
  <2>1. /\ ready' = Tail(ready) /\ UNCHANGED <<ran, completed, interactive, good>>
    BY <1>5 DEF SkipCancelled, FailReady, FailLookup, FailPinned, FailDirs, FailEarly, FailHard,
                outcome, drive
  <2>2. Waiting' \subseteq Waiting  BY <1>3, <2>1 DEF Waiting
  <2> QED  BY <1>2, <1>3, <1>4, <2>1, <2>2, OnceKept
<1>6. CASE Serve(n)
  <2>1. /\ Complete(n, Tail(ready)) /\ good' = good \cup {n} /\ UNCHANGED <<ran, interactive>>
    BY <1>6 DEF Serve, ServeNothing, ServeTest, ServeProbe, ServeHit, Served, Settle, drive
  <2> QED  BY <1>2, <1>3, <2>1, SettledOnce
<1>7. CASE QueueInteractive(n)
  <2>1. /\ ready' = Tail(ready) /\ interactive' = Append(interactive, n)
        /\ UNCHANGED <<ran, completed, good>>
    BY <1>7 DEF QueueInteractive, outcome
  <2>2. Distinct(interactive') /\ Entries(interactive') = Entries(interactive) \cup {n}
    BY <1>3, <1>4, <2>1, AppendDistinct, AppendEntries
  <2>3. Waiting' \subseteq Waiting /\ Entries(ready') \cap Entries(interactive') = {}
    BY <1>3, <1>4, <2>1, <2>2 DEF Waiting
  <2> QED  BY <1>2, <1>3, <2>1, <2>2, <2>3, OnceKept
<1>8. CASE Dispatch(n)
  <2>1. /\ ready' = Tail(ready) /\ ran' = ran \cup {n}
        /\ UNCHANGED <<interactive, completed, good>>
    BY <1>8 DEF Dispatch, SendProbe, SendTest, SendUnit, Send, Submit, outcome, drive
  <2>2. Waiting' \subseteq Waiting /\ n \in Waiting /\ n \notin Waiting'
        /\ Entries(ready') \cap Entries(interactive') = {}
    BY <1>3, <1>4, <2>1 DEF Waiting
  <2> QED  BY <1>2, <1>3, <1>4, <2>1, <2>2, HandedOnce
<1> QED  BY <1>1, <1>5, <1>6, <1>7, <1>8

LEMMA InteractOnce == ASSUME Inside, Inside', Once, Interact PROVE Once'
<1>1. /\ Distinct(ready) /\ Distinct(interactive) /\ Entries(ready) \cap Entries(interactive) = {}
  BY DEF Once, AllDistinct
<1>2. ASSUME NEW n \in Node, DropCancelledHead(n) \/ StartInteractive(n) PROVE Once'
  <2>1. /\ phase = "loop" /\ interactive # <<>> /\ n = Head(interactive)
        /\ interactive' = Tail(interactive)
        /\ UNCHANGED <<plan, completed, good, window, phase, ready>>
        /\ ran' = ran \/ ran' = ran \cup {n}
    BY <1>2 DEF DropCancelledHead, StartInteractive, AtHead, outcome
  <2>2. /\ n \in Entries(interactive) /\ n \notin Entries(ready)
        /\ Distinct(Tail(interactive)) /\ n \notin Entries(Tail(interactive))
        /\ Entries(Tail(interactive)) \subseteq Entries(interactive)
    BY <2>1, HeadOnce
  <2>3. /\ Waiting' \subseteq Waiting /\ n \in Waiting /\ n \notin Waiting'
        /\ Entries(ready') \cap Entries(interactive') = {} /\ Distinct(interactive')
    BY <1>1, <2>1, <2>2 DEF Waiting
  <2>4. CASE ran' = ran  BY <1>1, <2>1, <2>3, <2>4, OnceKept
  <2>5. CASE ran' = ran \cup {n}  BY <1>1, <2>1, <2>3, <2>5, HandedOnce
  <2> QED  BY <2>1, <2>4, <2>5
<1>3. ASSUME NEW ok \in BOOLEAN, EndInteractive(ok) PROVE Once'
  <2>1. /\ phase = "loop" /\ terminal # None /\ UNCHANGED <<plan, interactive, window, phase, ran>>
    BY <1>3 DEF EndInteractive
  <2>2. terminal \in Node /\ terminal \in Taken  BY <2>1 DEF Inside, DriveTypeOK, HandedOK, Taken
  <2>3. CASE ok
    <3>1. Complete(terminal, <<>>) /\ good' = good \cup {terminal}
      BY <1>3, <2>3 DEF EndInteractive, Settle
    <3>2. Inner = {}  BY <2>1, EmptyFacts DEF Once, NoWindow, Inner
    <3> QED  BY <2>1, <2>2, <3>1, <3>2, EmptyFacts, SettledOnce
  <2>4. CASE ~ok
    <3>1. UNCHANGED <<completed, good, ready>>  BY <1>3, <2>4 DEF EndInteractive, FailHard
    <3>2. Waiting' = Waiting  BY <2>1, <3>1 DEF Waiting
    <3> QED  BY <1>1, <2>1, <3>1, <3>2, OnceKept
  <2> QED  BY <2>3, <2>4
<1> QED  BY <1>2, <1>3 DEF Interact

LEMMA ReceiveOnce ==
  ASSUME Inside, Inside', Once, NEW r \in [node : Node, ok : BOOLEAN], Receive(r) PROVE Once'
<1>1. /\ phase = "loop" /\ results # <<>> /\ r = Head(results)
      /\ UNCHANGED <<plan, interactive, window, phase, terminal, ran>>
  BY DEF Receive, Receiving, drive
<1>2. r.node \in Taken  BY <1>1, ResultsTail DEF Inside, Taken
<1>3. Inner = {}  BY <1>1, EmptyFacts DEF Once, NoWindow, Inner
<1>4. CASE Complete(r.node, <<>>) /\ good' \subseteq good \cup {r.node}
  BY <1>1, <1>2, <1>3, <1>4, EmptyFacts, SettledOnce
<1>5. CASE UNCHANGED <<completed, good, ready>>
  <2>1. Waiting' = Waiting  BY <1>1, <1>5 DEF Waiting
  <2>2. /\ Distinct(ready) /\ Distinct(interactive)
        /\ Entries(ready) \cap Entries(interactive) = {}
    BY DEF Once, AllDistinct
  <2> QED  BY <1>1, <1>5, <2>1, <2>2, OnceKept
<1> QED  BY <1>4, <1>5 DEF Receive, Settle, FailSoft, FailHard

(* The window. *)

LEMMA WindowTypes ==
  ASSUME Inside
  PROVE  /\ window.members \in Seq(Node) /\ window.at \in Nat /\ window.failed \in Nat
         /\ Len(window.members) \in Nat /\ window.at >= 1
         /\ \A j \in 1 .. Len(window.members) :
              window.members[j] \in Node /\ window.members[j] \in Inner
<1>1. /\ window.members \in Seq(Node) /\ window.at \in Nat /\ window.failed \in Nat
      /\ window.at >= 1
  BY DEF Inside, DriveTypeOK, WindowOK
<1>2. Len(window.members) \in Nat  BY <1>1, LenProperties
<1>3. \A j \in 1 .. Len(window.members) : window.members[j] \in Node  BY <1>1, ElementOfSeq
<1> QED  BY <1>1, <1>2, <1>3 DEF Inner, Entries

LEMMA OpenWindowOnce ==
  ASSUME Inside, Once, NEW n \in Node, OpenWindow(n) PROVE Once'
<1>1. /\ terminal = None /\ interactive # <<>> /\ n = Head(interactive)
      /\ interactive' = Tail(interactive)
      /\ window' = [members |-> <<n>>, at |-> 1, failed |-> 0] /\ phase' = "gather"
      /\ UNCHANGED <<plan, completed, good, ran, ready, terminal>>
  BY DEF OpenWindow, AtHead, outcome
<1>2. /\ n \in Entries(interactive) /\ n \notin Entries(ready) /\ n \notin Taken
      /\ Distinct(Tail(interactive)) /\ n \notin Entries(Tail(interactive))
      /\ Entries(Tail(interactive)) \subseteq Entries(interactive)
  BY <1>1, HeadOnce
<1>3. /\ window'.members = <<n>> /\ window'.at = 1 /\ window'.failed = 0
  BY <1>1
<1>4. /\ Len(<<n>>) = 1 /\ <<n>>[1] = n  OBVIOUS
<1>5. Inner' = {n} /\ Distinct(window'.members)
  BY <1>3, <1>4 DEF Inner, Entries, Distinct
<1>6. Waiting' \subseteq Waiting /\ n \notin Waiting'  BY <1>1, <1>2 DEF Waiting
<1>7. Taken' = Taken /\ deps' = deps  BY <1>1 DEF Taken, plan
<1>8. DepsDone'  BY <1>1, <1>6, <1>7 DEF Once, DepsDone
<1>9. AllDistinct'  BY <1>1, <1>2, <1>5, <1>6 DEF Once, AllDistinct, Waiting
<1>10. Untouched'  BY <1>2, <1>3, <1>4, <1>6, <1>7 DEF Once, Untouched
<1> QED  BY <1>1, <1>3, <1>8, <1>9, <1>10 DEF Once

(* A member joins while the window gathers: untouched, and new to it.        *)
LEMMA JoinOnce ==
  ASSUME Inside, Once, NEW m \in Node, phase = "gather",
         m \notin Taken, m \notin Inner, m \notin Waiting',
         Distinct(interactive'), Entries(interactive') \subseteq Entries(interactive),
         window' = [window EXCEPT !.members = Append(@, m)],
         UNCHANGED <<plan, completed, good, ran, ready, phase, terminal>>
  PROVE  Once'
<1>1. /\ window.members \in Seq(Node) /\ window.at = 1 /\ window.failed = 0
      /\ Len(window.members) \in Nat /\ terminal = None
      /\ window \in [members : Seq(Node), at : Nat, failed : Nat]
  BY WindowTypes DEF Once, Inside, WindowOK, DriveTypeOK
<1> DEFINE s == window.members
           t == Append(s, m)
<1>2. window'.members = t /\ window'.at = 1 /\ window'.failed = 0  BY <1>1
<1>3. /\ Distinct(t) /\ Entries(t) = Entries(s) \cup {m}
      /\ Len(t) = Len(s) + 1 /\ t[Len(s) + 1] = m /\ \A j \in 1 .. Len(s) : t[j] = s[j]
  BY <1>1, AppendDistinct, AppendEntries, AppendProperties DEF Once, AllDistinct, Inner
<1> HIDE DEF t
<1>4. Inner' = Inner \cup {m}  BY <1>2, <1>3 DEF Inner
<1>5. Taken' = Taken /\ deps' = deps /\ Waiting' \subseteq Waiting  BY DEF Taken, plan, Waiting
<1>6. DepsDone'  BY <1>5 DEF Once, DepsDone
<1>7. AllDistinct'
  <2>1. Entries(ready') \cap Entries(interactive') = {}  BY DEF Once, AllDistinct
  <2> QED  BY <1>2, <1>3, <1>4, <1>5, <2>1 DEF Once, AllDistinct
<1>8. \A j \in 1 .. Len(s) : s[j] \notin Taken
  BY <1>1 DEF Once, Untouched
<1>9. Untouched'
  <2>1. \A j \in 1 .. Len(t) : j \in 1 .. Len(s) \/ j = Len(s) + 1  BY <1>1, <1>3
  <2> QED  BY <1>2, <1>3, <1>5, <1>8, <2>1 DEF Once, Untouched
<1> QED  BY <1>2, <1>6, <1>7, <1>9 DEF Once

LEMMA GatherOnce == ASSUME Inside, Once, Gather PROVE Once'
<1> DEFINE m == Head(interactive)
<1>1. /\ phase = "gather" /\ interactive # <<>> /\ interactive' = Tail(interactive)
      /\ window' = [window EXCEPT !.members = Append(@, m)]
      /\ UNCHANGED <<plan, completed, good, ran, ready, phase, terminal>>
  BY DEF Gather, CanGather, outcome
<1>2. /\ m \in Node /\ m \notin Entries(ready) /\ m \notin Inner /\ m \notin Taken
      /\ Distinct(Tail(interactive)) /\ m \notin Entries(Tail(interactive))
      /\ Entries(Tail(interactive)) \subseteq Entries(interactive)
  BY <1>1, HeadOnce
<1> HIDE DEF m
<1>3. m \notin Waiting'  BY <1>1, <1>2 DEF Waiting
<1> QED  BY <1>1, <1>2, <1>3, JoinOnce

(* The step that follows the last member waits for it: it is neither         *)
(* completed nor queued, and no member.                                      *)
LEMMA ExtendOnce == ASSUME Inside, Once, NEW m \in Node, Extend(m) PROVE Once'
<1>1. /\ phase = "gather" /\ Follows(m)
      /\ window' = [window EXCEPT !.members = Append(@, m)]
      /\ UNCHANGED <<plan, completed, good, ran, interactive, ready, phase, terminal>>
  BY DEF Extend, outcome
<1>2. LastMember \in deps[m] /\ LastMember \notin completed  BY <1>1 DEF Follows
<1>3. m \notin Taken /\ m \notin Waiting  BY <1>2 DEF Once, DepsDone
<1>4. m \notin Inner
  <2> SUFFICES ASSUME NEW j \in 1 .. Len(window.members), m = window.members[j] PROVE FALSE
    BY DEF Inner, Entries
  <2>1. j > 1 /\ LastMember = window.members[j - 1]  BY <1>2 DEF Inside, WindowOK
  <2>2. Len(window.members) \in Nat  BY WindowTypes
  <2>3. j - 1 \in 1 .. Len(window.members) /\ Len(window.members) \in 1 .. Len(window.members)
        /\ j - 1 # Len(window.members)
    BY <2>1, <2>2
  <2> QED  BY <2>1, <2>3 DEF LastMember, Once, AllDistinct, Distinct
<1>5. Distinct(interactive) /\ m \notin Waiting'  BY <1>1, <1>3 DEF Once, AllDistinct, Waiting
<1> QED  BY <1>1, <1>3, <1>4, <1>5, JoinOnce

LEMMA StartWindowOnce ==
  ASSUME Inside, Once, NEW ok \in BOOLEAN, StartWindow(ok) PROVE Once'
<1>1. /\ phase = "gather" /\ phase' = "window"
      /\ window' = [window EXCEPT !.failed = IF ok THEN 0 ELSE 1]
      /\ UNCHANGED <<plan, completed, good, ran, interactive, terminal, ready>>
  BY DEF StartWindow, outcome
<1>2. window \in [members : Seq(Node), at : Nat, failed : Nat] /\ terminal = None
  BY <1>1 DEF Inside, DriveTypeOK, WindowOK
<1>3. window'.members = window.members /\ window'.at = window.at  BY <1>1, <1>2
<1>4. window.failed = 0  BY <1>1 DEF Once
<1>5. Taken' = Taken /\ Waiting' = Waiting /\ deps' = deps  BY <1>1 DEF Taken, Waiting, plan
<1>6. DepsDone' /\ AllDistinct'
  BY <1>1, <1>3, <1>5 DEF Once, DepsDone, AllDistinct, Inner
<1>7. Untouched'  BY <1>2, <1>3, <1>4, <1>5 DEF Once, Untouched
<1> QED  BY <1>1, <1>6, <1>7 DEF Once

(* The window goes to its next step. *)
LEMMA SkipStepOnce == ASSUME Inside, Once, NEW n \in Node, SkipStep(n) PROVE Once'
<1>1. /\ phase = "window" /\ window' = [window EXCEPT !.at = @ + 1]
      /\ UNCHANGED <<plan, completed, good, ran, interactive, terminal, phase, ready>>
  BY DEF SkipStep, AtStep, InWindow, outcome
<1>2. window \in [members : Seq(Node), at : Nat, failed : Nat]
  BY DEF Inside, DriveTypeOK
<1>3. window'.members = window.members /\ window'.at = window.at + 1 /\ window.at \in Nat
  BY <1>1, <1>2
<1>4. Taken' = Taken /\ Waiting' = Waiting /\ deps' = deps  BY <1>1 DEF Taken, Waiting, plan
<1>5. DepsDone' /\ AllDistinct'
  BY <1>1, <1>3, <1>4 DEF Once, DepsDone, AllDistinct, Inner
<1>6. Untouched'  BY <1>3, <1>4 DEF Once, Untouched
<1> QED  BY <1>1, <1>5, <1>6 DEF Once

LEMMA StartStepOnce == ASSUME Inside, Once, NEW n \in Node, StartStep(n) PROVE Once'
<1>1. /\ AtStep(n) /\ n \notin cancelled /\ terminal' = n /\ ran' = ran \cup {n}
      /\ phase = "window"
      /\ UNCHANGED <<plan, completed, good, interactive, window, phase, ready>>
  BY DEF StartStep, AtStep, InWindow, Submit, outcome
<1>2. /\ window.at \in 1 .. Len(window.members) /\ n = window.members[window.at]
  BY <1>1, WindowTypes DEF AtStep
<1>3. deps[n] \subseteq completed  BY <1>1, StepMayStart
<1>4. n \in Inner  BY <1>2 DEF Inner, Entries
<1>5. Taken' = Taken \cup {n} /\ Waiting' = Waiting /\ deps' = deps
  BY <1>1 DEF Taken, Waiting, plan
<1>6. DepsDone' /\ AllDistinct'
  BY <1>1, <1>3, <1>5 DEF Once, DepsDone, AllDistinct, Inner
<1>7. Untouched'
  <2>1. n # None  BY NodeFacts
  <2>2. \A j \in 1 .. Len(window.members) : j > window.at => window.members[j] # n
    BY <1>2 DEF Once, AllDistinct, Distinct
  <2>3. Waiting \cap Taken' = {}  BY <1>4, <1>5 DEF Once, AllDistinct, Untouched
  <2> QED  BY <1>1, <1>5, <2>1, <2>2, <2>3 DEF Once, Untouched
<1> QED  BY <1>1, <1>6, <1>7 DEF Once

LEMMA StepEndsOnce ==
  ASSUME Inside, Once, phase = "window", terminal # None, NEW ok \in BOOLEAN, StepEnds(ok)
  PROVE  Once'
<1>1. /\ terminal' = None /\ UNCHANGED <<plan, interactive, phase, ran>>
      /\ window \in [members : Seq(Node), at : Nat, failed : Nat]
  BY DEF StepEnds, Inside, DriveTypeOK
<1>2. /\ terminal \in Node /\ terminal \in Taken
      /\ window.at \in 1 .. Len(window.members) /\ terminal = window.members[window.at]
  BY WindowTypes DEF Inside, DriveTypeOK, HandedOK, WindowOK, Taken
<1>3. CASE ok
  <2>1. /\ window' = [window EXCEPT !.at = @ + 1]
        /\ completed' = completed \cup {terminal} /\ good' = good \cup {terminal}
    BY <1>3 DEF StepEnds
  <2>2. PICK s \in Listings(Released(terminal) \ Members) : ready' = s
    BY <1>3 DEF StepEnds
  <2>3. window'.members = window.members /\ window'.at = window.at + 1 /\ window.at \in Nat
    BY <1>1, <2>1
  <2>4. Taken' = Taken  BY <1>1, <1>2, <2>1 DEF Taken
  <2>5. Members = Inner
    <3>1. DOMAIN window.members = 1 .. Len(window.members)  BY <1>1, LenProperties
    <3> QED  BY <3>1 DEF Members, Inner, Entries
  <2>6. Released(terminal) \ Members \in SUBSET Node  BY DEF Released, Dependents
  <2>7. Distinct(ready') /\ Entries(ready') \subseteq Released(terminal) \ Inner
    BY <2>2, <2>5, <2>6, ListingEntries, ListingDistinct
  <2>8. \A m \in Entries(ready') :
          /\ deps[m] \subseteq completed' /\ m \notin Taken /\ m \notin Inner
          /\ m \notin Entries(interactive)
    BY <1>2, <2>1, <2>7, ReleasedFresh DEF Waiting
  <2>9. DepsDone'  BY <1>1, <2>1, <2>4, <2>8 DEF Once, DepsDone, Waiting, plan
  <2>10. AllDistinct'  BY <1>1, <2>3, <2>7, <2>8 DEF Once, AllDistinct, Inner, Waiting
  <2>11. Untouched'
    <3>1. Waiting' \cap Taken' = {}  BY <1>1, <2>4, <2>8 DEF Once, Untouched, Waiting
    <3> QED  BY <2>3, <2>4, <3>1 DEF Once, Untouched
  <2> QED  BY <1>1, <2>9, <2>10, <2>11 DEF Once
<1>4. CASE ~ok
  <2>1. /\ window' = [window EXCEPT !.failed = window.at] /\ UNCHANGED <<completed, good, ready>>
    BY <1>4 DEF StepEnds
  <2>2. /\ window'.members = window.members /\ window'.at = window.at
        /\ window'.failed = window.at /\ window.at # 0
    BY <1>1, <1>2, <2>1
  <2>3. Taken' = Taken /\ Waiting' = Waiting /\ deps' = deps
    BY <1>1, <2>1 DEF Taken, Waiting, plan
  <2>4. DepsDone' /\ AllDistinct'
    BY <1>1, <2>1, <2>2, <2>3 DEF Once, DepsDone, AllDistinct, Inner
  <2>5. Untouched'  BY <2>2, <2>3 DEF Once, Untouched
  <2> QED  BY <1>1, <2>4, <2>5 DEF Once
<1> QED  BY <1>3, <1>4

LEMMA CloseWindowOnce ==
  ASSUME Inside, Once, NEW survives \in BOOLEAN, CloseWindow(survives) PROVE Once'
<1>1. /\ phase = "window" /\ phase' = "loop" /\ window' = NoWindow
      /\ UNCHANGED <<plan, completed, ran, interactive, terminal, ready>>
      /\ good' \subseteq good
  BY DEF CloseWindow, InWindow
<1>2. Taken' \subseteq Taken /\ Waiting' = Waiting /\ deps' = deps
  BY <1>1 DEF Taken, Waiting, plan
<1>3. window'.members = <<>>  BY <1>1 DEF NoWindow
<1>4. Inner' = {} /\ Distinct(window'.members)  BY <1>3, EmptyFacts DEF Inner
<1>5. Len(window'.members) = 0  BY <1>3
<1>6. DepsDone'  BY <1>1, <1>2 DEF Once, DepsDone
<1>7. AllDistinct'  BY <1>1, <1>2, <1>4 DEF Once, AllDistinct
<1>8. Untouched'  BY <1>2, <1>5 DEF Once, Untouched
<1> QED  BY <1>1, <1>6, <1>7, <1>8 DEF Once

LEMMA InitOnce == ASSUME Init PROVE Once
<1>1. InitialReady \in SUBSET Node /\ \A n \in InitialReady : deps[n] = {}
  BY DEF InitialReady
<1>2. Distinct(ready) /\ Entries(ready) \subseteq InitialReady
  BY <1>1, ListingEntries, ListingDistinct DEF Init
<1>3. /\ interactive = <<>> /\ window.members = <<>> /\ Len(<<>>) = 0
      /\ Taken = {} /\ window = NoWindow /\ phase = "loop"
  BY DEF Init, NoWindow, Taken
<1>4. DepsDone  BY <1>1, <1>2, <1>3, EmptyFacts DEF DepsDone, Waiting
<1>5. AllDistinct  BY <1>2, <1>3, EmptyFacts DEF AllDistinct, Inner
<1>6. Untouched  BY <1>3 DEF Untouched
<1> QED  BY <1>3, <1>4, <1>5, <1>6 DEF Once

LEMMA NextOnce == ASSUME Inside, Inside', Once, [Next]_vars PROVE Once'
<1>1. CASE Window
  <2>1. ASSUME NEW ok \in BOOLEAN, EndShellStep(ok) PROVE Once'
    BY <2>1, StepEndsOnce DEF EndShellStep
  <2>2. ASSUME EndLuaStep PROVE Once'
    <3>1. phase = "window" /\ terminal # None /\ StepEnds(Head(results).ok) /\ results # <<>>
      BY <2>2 DEF EndLuaStep
    <3>2. Head(results) \in [node : Node, ok : BOOLEAN]  BY <3>1, ResultsTail DEF Inside
    <3> QED  BY <3>1, <3>2, StepEndsOnce
  <2> QED  BY <1>1, <2>1, <2>2, OpenWindowOnce, GatherOnce, ExtendOnce, StartWindowOnce, SkipStepOnce,
              StartStepOnce, CloseWindowOnce
           DEF Window
<1>2. CASE Stop \/ (\E w \in Workers : Worker(w)) \/ UNCHANGED vars
  <2>1. /\ UNCHANGED <<plan, ran, completed, good, window, terminal, ready, interactive>>
        /\ phase' = phase \/ (phase = "loop" /\ phase' = "done")
    BY <1>2 DEF Stop, Worker, Take, SendResult, vars, drive, outcome
  <2>2. Taken' = Taken /\ Waiting' = Waiting /\ deps' = deps
    BY <2>1 DEF Taken, Waiting, plan
  <2> QED  BY <2>1, <2>2 DEF Once, DepsDone, AllDistinct, Untouched, Inner
<1>3. ASSUME NEW n \in Node, NEW ok \in BOOLEAN, Receive([node |-> n, ok |-> ok])
      PROVE  Once'
  BY <1>3, ReceiveOnce
<1> QED  BY <1>1, <1>2, <1>3, ProcessReadyOnce, InteractOnce DEF Next, MainThread
----------------------------------------------------------------------------
(* Only steps that need the terminal are queued for it, and the window holds *)
(* steps of one chore.                                                       *)
KindsOK ==
  /\ \A n \in Entries(interactive) : IsChore(n) \/ kind[n] = "interactive"
  /\ \A m, n \in Inner : IsChore(m) /\ recipe[m] = recipe[n]

LEMMA KindsKept ==
  ASSUME KindsOK, UNCHANGED plan, window'.members = window.members,
         Entries(interactive') \subseteq Entries(interactive)
  PROVE  KindsOK'
  BY DEF KindsOK, IsChore, Inner, plan

LEMMA JoinKinds ==
  ASSUME Inside, KindsOK, NEW m \in Node, SameChore(m), phase = "gather", UNCHANGED plan,
         window' = [window EXCEPT !.members = Append(@, m)],
         Entries(interactive') \subseteq Entries(interactive)
  PROVE  KindsOK'
<1>1. window \in [members : Seq(Node), at : Nat, failed : Nat]  BY DEF Inside, DriveTypeOK
<1>2. window'.members = Append(window.members, m)  BY <1>1
<1>3. Inner' = Inner \cup {m}  BY <1>1, <1>2, AppendEntries DEF Inner
<1>4. window.members[1] \in Inner
  <2>1. Len(window.members) >= 1 /\ Len(window.members) \in Nat
    BY WindowTypes DEF Inside, WindowOK
  <2> QED  BY <2>1 DEF Inner, Entries
<1> QED  BY <1>3, <1>4 DEF KindsOK, SameChore, IsChore, plan

LEMMA NextKinds == ASSUME Inside, Once, KindsOK, [Next]_vars PROVE KindsOK'
<1>1. CASE ProcessReady
  <2>1. PICK n \in Node :
          SkipCancelled(n) \/ Serve(n) \/ QueueInteractive(n) \/ FailReady(n) \/ Dispatch(n)
    BY <1>1 DEF ProcessReady
  <2>2. CASE SkipCancelled(n) \/ Serve(n) \/ FailReady(n) \/ Dispatch(n)
    <3>1. UNCHANGED <<plan, window, interactive>>
      BY <2>2 DEF SkipCancelled, Serve, ServeNothing, ServeTest, ServeProbe, ServeHit, Served,
                  FailReady, FailLookup, FailPinned, FailDirs, FailEarly,
                  Dispatch, SendProbe, SendTest, SendUnit, Send, drive
    <3> QED  BY <3>1, KindsKept
  <2>3. CASE QueueInteractive(n)
    <3>1. /\ kind[n] \in {"interactive", "chore", "choreLua"} /\ UNCHANGED <<plan, window>>
          /\ interactive' = Append(interactive, n) /\ interactive \in Seq(Node)
      BY <2>3 DEF QueueInteractive, Inside, DriveTypeOK
    <3>2. Entries(interactive') = Entries(interactive) \cup {n}  BY <3>1, AppendEntries
    <3> QED  BY <3>1, <3>2 DEF KindsOK, IsChore, Inner, plan
  <2> QED  BY <2>1, <2>2, <2>3
<1>2. CASE Interact
  <2>1. UNCHANGED <<plan, window>> /\ Entries(interactive') \subseteq Entries(interactive)
    BY <1>2, HeadOnce DEF Interact, DropCancelledHead, StartInteractive, EndInteractive, AtHead
  <2> QED  BY <2>1, KindsKept
<1>3. CASE Window
  <2>1. ASSUME NEW n \in Node, OpenWindow(n) PROVE KindsOK'
    <3>1. /\ IsChore(n) /\ interactive # <<>> /\ interactive' = Tail(interactive)
          /\ UNCHANGED plan /\ window'.members = <<n>>
      BY <2>1 DEF OpenWindow, AtHead
    <3>2. Entries(interactive') \subseteq Entries(interactive)  BY <3>1, HeadOnce
    <3>3. Len(<<n>>) = 1 /\ <<n>>[1] = n  OBVIOUS
    <3>4. Inner' = {n}  BY <3>1, <3>3 DEF Inner, Entries
    <3> QED  BY <3>1, <3>2, <3>4 DEF KindsOK, IsChore, plan
  <2>2. ASSUME NEW n \in Node, Extend(n) PROVE KindsOK'
    BY <2>2, JoinKinds DEF Extend, Follows
  <2>3. ASSUME Gather PROVE KindsOK'
    <3>1. interactive # <<>>  BY <2>3 DEF Gather, CanGather
    <3> QED  BY <2>3, <3>1, HeadOnce, JoinKinds DEF Gather, CanGather
  <2>4. ASSUME NEW n \in Node, NEW ok \in BOOLEAN,
               SkipStep(n) \/ StartStep(n) \/ StartWindow(ok) \/ EndShellStep(ok) \/ EndLuaStep
        PROVE  KindsOK'
    <3>1. window \in [members : Seq(Node), at : Nat, failed : Nat]  BY DEF Inside, DriveTypeOK
    <3>2. UNCHANGED <<plan, interactive>>
      BY <2>4 DEF SkipStep, StartStep, StartWindow, EndShellStep, EndLuaStep, StepEnds
    <3>3. window'.members = window.members
      BY <2>4, <3>1 DEF SkipStep, StartStep, StartWindow, EndShellStep, EndLuaStep, StepEnds
    <3> QED  BY <3>2, <3>3, KindsKept
  <2>5. ASSUME NEW ok \in BOOLEAN, CloseWindow(ok) PROVE KindsOK'
    <3>1. UNCHANGED <<plan, interactive>> /\ window'.members = <<>>
      BY <2>5 DEF CloseWindow, NoWindow
    <3>2. Inner' = {}  BY <3>1, EmptyFacts DEF Inner
    <3> QED  BY <3>1, <3>2 DEF KindsOK, IsChore, plan
  <2>6. TRUE \in BOOLEAN /\ 0 \in Node  BY NodeCountAssumption DEF Node
  <2>7. CASE \E n \in Node : OpenWindow(n) \/ Extend(n) \/ SkipStep(n) \/ StartStep(n)
    BY <2>7, <2>1, <2>2, <2>4, <2>6
  <2>8. CASE \E ok \in BOOLEAN : StartWindow(ok) \/ EndShellStep(ok) \/ CloseWindow(ok)
    BY <2>8, <2>4, <2>5, <2>6
  <2>9. CASE EndLuaStep
    BY <2>9, <2>4, <2>6
  <2> QED  BY <1>3, <2>3, <2>7, <2>8, <2>9 DEF Window
<1>4. CASE \/ \E n \in Node, ok \in BOOLEAN : Receive([node |-> n, ok |-> ok])
           \/ Stop \/ (\E w \in Workers : Worker(w)) \/ UNCHANGED vars
  <2>1. UNCHANGED <<plan, window, interactive>>
    BY <1>4 DEF Receive, Stop, Worker, Take, SendResult, vars, drive
  <2> QED  BY <2>1, KindsKept
<1> QED  BY <1>1, <1>2, <1>3, <1>4 DEF Next, MainThread

(* No unit is processed, completed or released twice, whatever the workers   *)
(* do between two steps of the main thread.                                  *)
OnceInv == Inside /\ Once /\ KindsOK

THEOREM OnceInvariance == Spec => []OnceInv
<1>1. Init => OnceInv
  <2> SUFFICES ASSUME Init PROVE OnceInv
    OBVIOUS
  <2>1. interactive = <<>> /\ window.members = <<>>  BY DEF Init, NoWindow
  <2>2. KindsOK  BY <2>1, EmptyFacts DEF KindsOK, Inner
  <2> QED  BY <2>2, InitInside, InitOnce DEF OnceInv
<1>2. OnceInv /\ [Next]_vars => OnceInv'  BY NextInside, NextOnce, NextKinds DEF OnceInv
<1> QED  BY <1>1, <1>2, PTL DEF Spec
----------------------------------------------------------------------------
(* UsesPool: what the main thread and the workers do to the pool are steps   *)
(* of the contract the pool implements.                                      *)
Submitted == {n \in ran : kind[n] \notin {"interactive", "chore"}}

LEMMA ThreadsKept ==
  ASSUME UNCHANGED <<queue, busy, results, kind>>, Submitted' = Submitted
  PROVE  UNCHANGED Threads!vars
  BY DEF Threads!vars, Submitted

LEMMA ThreadsSubmit ==
  ASSUME NEW n \in Node, n \notin ran, kind[n] \notin {"interactive", "chore"}, Submit(n),
         UNCHANGED <<busy, results, kind>>
  PROVE  Threads!Submit(n)
<1>1. queue' = Append(queue, n) /\ ran' = ran \cup {n}  BY DEF Submit
<1>2. n \notin Submitted /\ Submitted' = Submitted \cup {n}  BY <1>1 DEF Submitted
<1> QED  BY <1>1, <1>2 DEF Threads!Submit, Submitted

LEMMA NextThreads ==
  ASSUME OnceInv, [Next]_vars PROVE [Threads!Next]_(Threads!vars)
<1> USE DEF OnceInv
<1>1. CASE ProcessReady
  <2>1. PICK n \in Node :
          SkipCancelled(n) \/ Serve(n) \/ QueueInteractive(n) \/ FailReady(n) \/ Dispatch(n)
    BY <1>1 DEF ProcessReady
  <2>2. CASE SkipCancelled(n) \/ Serve(n) \/ QueueInteractive(n) \/ FailReady(n)
    <3>1. UNCHANGED <<pool, kind, ran>>
      BY <2>2 DEF SkipCancelled, Serve, ServeNothing, ServeTest, ServeProbe, ServeHit, Served,
                  QueueInteractive, FailReady, FailLookup, FailPinned, FailDirs, FailEarly, plan
    <3>2. UNCHANGED Threads!vars  BY <3>1, ThreadsKept DEF pool, Submitted
    <3> QED  BY <3>2
  <2>3. CASE Dispatch(n)
    <3>1. /\ Submit(n) /\ kind[n] \notin {"interactive", "chore"} /\ Turn(n)
          /\ UNCHANGED <<busy, results, kind>>
      BY <2>3 DEF Dispatch, SendProbe, SendTest, SendUnit, Send, Live, plan
    <3>2. n \notin ran  BY <3>1, TurnOnce DEF Taken
    <3> QED  BY <3>1, <3>2, ThreadsSubmit DEF Threads!Next
  <2> QED  BY <2>1, <2>2, <2>3
<1>2. CASE Interact
  <2>1. UNCHANGED <<pool, kind>>
    BY <1>2 DEF Interact, DropCancelledHead, StartInteractive, EndInteractive, plan
  <2>2. CASE UNCHANGED ran
    <3>1. UNCHANGED Threads!vars  BY <2>1, <2>2, ThreadsKept DEF pool, Submitted
    <3> QED  BY <3>1
  <2>3. ASSUME NEW n \in Node, StartInteractive(n) PROVE [Threads!Next]_(Threads!vars)
    <3>1. n \in Entries(interactive) /\ ran' = ran \cup {n} /\ ~IsChore(n)
      BY <2>3, HeadOnce DEF StartInteractive, AtHead
    <3>2. kind[n] = "interactive"  BY <3>1 DEF KindsOK
    <3>3. UNCHANGED Threads!vars  BY <2>1, <3>1, <3>2, ThreadsKept DEF pool, Submitted
    <3> QED  BY <3>3
  <2> QED  BY <1>2, <2>2, <2>3 DEF Interact, DropCancelledHead, EndInteractive
<1>3. CASE Window
  <2>1. CASE UNCHANGED <<pool, ran>>
    <3>1. kind' = kind
      BY <1>3 DEF Window, OpenWindow, Extend, SkipStep, StartStep, Gather, StartWindow, EndShellStep,
                  CloseWindow, EndLuaStep, StepEnds, plan
    <3>2. UNCHANGED Threads!vars  BY <2>1, <3>1, ThreadsKept DEF pool, Submitted
    <3> QED  BY <3>2
  <2>2. ASSUME NEW n \in Node, StartStep(n) PROVE [Threads!Next]_(Threads!vars)
    <3>1. /\ AtStep(n) /\ UNCHANGED <<busy, results, kind>>
          /\ IF kind[n] = "choreLua" THEN Submit(n) ELSE ran' = ran \cup {n} /\ UNCHANGED queue
      BY <2>2 DEF StartStep, plan
    <3>2. n \notin ran
      <4>1. /\ window.at \in 1 .. Len(window.members) /\ n = window.members[window.at]
            /\ terminal = None /\ window.failed = 0
        BY <3>1, WindowTypes DEF AtStep, InWindow
      <4> QED  BY <4>1 DEF Once, Untouched, Taken
    <3>3. CASE kind[n] = "choreLua"
      BY <3>1, <3>2, <3>3, ThreadsSubmit DEF Threads!Next
    <3>4. CASE kind[n] = "chore"
      <4>1. UNCHANGED Threads!vars  BY <3>1, <3>4, ThreadsKept DEF Submitted
      <4> QED  BY <4>1
    <3>5. IsChore(n)
      <4>1. n \in Inner  BY <3>1, WindowTypes DEF AtStep
      <4> QED  BY <4>1 DEF KindsOK
    <3> QED  BY <3>3, <3>4, <3>5 DEF IsChore
  <2>3. ASSUME EndLuaStep PROVE [Threads!Next]_(Threads!vars)
    <3>1. /\ results # <<>> /\ results' = Tail(results) /\ UNCHANGED <<queue, busy, kind, ran>>
      BY <2>3 DEF EndLuaStep, StepEnds, plan
    <3>2. Submitted' = Submitted  BY <3>1 DEF Submitted
    <3>3. Threads!Receive  BY <3>1, <3>2 DEF Threads!Receive, Submitted
    <3> QED  BY <3>3 DEF Threads!Next
  <2>4. UNCHANGED <<pool, ran>> \/ EndLuaStep \/ \E n \in Node : StartStep(n)
    BY <1>3 DEF Window, OpenWindow, Extend, SkipStep, Gather, StartWindow, EndShellStep,
                CloseWindow, StepEnds
  <2> QED  BY <2>1, <2>2, <2>3, <2>4
<1>4. ASSUME NEW n \in Node, NEW ok \in BOOLEAN, Receive([node |-> n, ok |-> ok])
      PROVE  [Threads!Next]_(Threads!vars)
  <2>1. /\ results # <<>> /\ results' = Tail(results) /\ UNCHANGED <<queue, busy, kind, ran>>
    BY <1>4 DEF Receive, plan
  <2>2. Submitted' = Submitted  BY <2>1 DEF Submitted
  <2>3. Threads!Receive  BY <2>1, <2>2 DEF Threads!Receive, Submitted
  <2> QED  BY <2>3 DEF Threads!Next
<1>5. CASE Stop \/ UNCHANGED vars
  <2>1. UNCHANGED <<pool, kind, ran>>  BY <1>5 DEF Stop, vars, plan
  <2>2. UNCHANGED Threads!vars  BY <2>1, ThreadsKept DEF pool, Submitted
  <2> QED  BY <2>2
<1>6. ASSUME NEW w \in Workers, Worker(w) PROVE [Threads!Next]_(Threads!vars)
  <2>1. UNCHANGED <<kind, ran>>  BY <1>6 DEF Worker, Take, SendResult, plan
  <2>2. Submitted' = Submitted  BY <2>1 DEF Submitted
  <2>3. CASE Take(w)
    <3>1. Threads!Take(w)  BY <2>2, <2>3 DEF Take, Threads!Take, Submitted
    <3> QED  BY <3>1 DEF Threads!Next
  <2>4. ASSUME NEW ok \in BOOLEAN, SendResult(w, ok) PROVE [Threads!Next]_(Threads!vars)
    <3>1. Threads!SendResult(w, ok)
      BY <2>2, <2>4 DEF SendResult, Threads!SendResult, Submitted
    <3> QED  BY <3>1 DEF Threads!Next
  <2> QED  BY <1>6, <2>3, <2>4 DEF Worker
<1> QED  BY <1>1, <1>2, <1>3, <1>4, <1>5, <1>6 DEF Next, MainThread

(* The executor uses its pool as the pool may be used: it submits a body     *)
(* once, for every plan and number of workers.                               *)
THEOREM UsesPoolCorrect == Spec => UsesPool
<1>1. Init => Threads!Init  BY DEF Init, Threads!Init
<1>2. OnceInv /\ [Next]_vars => [Threads!Next]_(Threads!vars)  BY NextThreads
<1> QED  BY <1>1, <1>2, OnceInvariance, PTL DEF Spec, UsesPool, Threads!Spec
----------------------------------------------------------------------------
(* TerminalAlone.  While the terminal is taken the pool is drained.  In a    *)
(* chore window that holds because what a step releases is a step of the     *)
(* same chore, which waits for its turn, until the last one has completed:   *)
(* only then is a unit of another recipe sent to a worker, and no step is    *)
(* left to take the terminal.                                                *)
FromPlan == \E p \in Plans : deps = p.deps /\ kind = p.kind /\ recipe = p.recipe

TheChore == {k \in Node : SameChore(k)}

Quiet ==
  /\ terminal # None \/ phase = "gather" => pending = 0 /\ ready = <<>>
  /\ phase = "window" =>
       \/ pending = 0 /\ Entries(ready) \subseteq TheChore
       \/ TheChore \subseteq completed

LEMMA WholeChore ==
  ASSUME FromPlan, NEW D \in SUBSET Node, \A k \in D : deps[k] \subseteq D,
         NEW m \in Node, deps[m] \subseteq D,
         NEW n \in deps[m], n \in Node, IsChore(n), ~(IsChore(m) /\ recipe[m] = recipe[n])
  PROVE  {k \in Node : IsChore(k) /\ recipe[k] = recipe[n]} \subseteq D
<1>1. PICK p \in Plans : deps = p.deps /\ kind = p.kind /\ recipe = p.recipe  BY DEF FromPlan
<1>2. ChoreWith(p, n) = {k \in Node : IsChore(k) /\ recipe[k] = recipe[n]}
  BY <1>1 DEF ChoreWith, IsChore
<1>3. n \in ChoreWith(p, n) /\ m \notin ChoreWith(p, n)  BY <1>2
<1>4. n \in p.deps[m] /\ p.deps[m] \subseteq D /\ \A k \in D : p.deps[k] \subseteq D  BY <1>1
<1>5. ChoreWith(p, n) \subseteq D  BY <1>3, <1>4, ChoresAssumption
<1> QED  BY <1>2, <1>5

(* The members of an open window are steps of its chore. *)
LEMMA InnerChore ==
  ASSUME Inside, KindsOK, phase \in {"gather", "window"}
  PROVE  Inner \subseteq TheChore
<1>1. window.members[1] \in Inner /\ Inner \subseteq Node
  BY WindowTypes DEF Inside, WindowOK, Inner, Entries
<1> QED  BY <1>1 DEF KindsOK, TheChore, SameChore, IsChore

LEMMA QuietKept ==
  ASSUME Quiet, completed \subseteq completed', pending' = pending,
         phase' = phase, terminal' = terminal, UNCHANGED plan, window'.members = window.members,
         ready' = ready
  PROVE  Quiet'
<1>1. TheChore' = TheChore  BY DEF TheChore, SameChore, IsChore, plan
<1> QED  BY <1>1 DEF Quiet

LEMMA ProcessReadyQuiet == ASSUME OnceInv, Quiet, ProcessReady PROVE Quiet'
<1> USE DEF OnceInv
<1>1. PICK n \in Node :
        SkipCancelled(n) \/ Serve(n) \/ QueueInteractive(n) \/ FailReady(n) \/ Dispatch(n)
  BY DEF ProcessReady
<1>2. Turn(n) /\ UNCHANGED <<plan, window, phase, terminal>> /\ completed \subseteq completed'
  BY <1>1 DEF SkipCancelled, Serve, ServeNothing, ServeTest, ServeProbe, ServeHit, Served,
              QueueInteractive, FailReady, FailLookup, FailPinned, FailDirs, FailEarly,
              Dispatch, SendProbe, SendTest, SendUnit, Send, Live, drive, outcome, Settle,
              Complete, FailHard
<1>3. TheChore' = TheChore  BY <1>2 DEF TheChore, SameChore, IsChore, plan
<1>4. terminal = None /\ phase # "gather"  BY <1>2 DEF Quiet, Turn
<1>5. CASE phase = "window" /\ pending = 0 /\ Entries(ready) \subseteq TheChore
  <2>1. n \in TheChore /\ Entries(Tail(ready)) \subseteq Entries(ready)  BY <1>2, <1>5, TurnOnce
  <2>2. IsChore(n)  BY <2>1 DEF TheChore, SameChore
  <2>3. ready' = Tail(ready) /\ UNCHANGED pending
    BY <1>1, <2>2 DEF IsChore, SkipCancelled, Serve, ServeNothing, ServeTest, ServeProbe, ServeHit,
              Served, QueueInteractive, FailReady, FailLookup, FailPinned, FailDirs, FailEarly,
              Dispatch, SendProbe, SendTest, SendUnit, pool
  <2> QED  BY <1>2, <1>3, <1>4, <1>5, <2>1, <2>3 DEF Quiet
<1> QED  BY <1>2, <1>3, <1>4, <1>5 DEF Quiet

(* The end of a step that succeeded: what it releases is of the chore, or    *)
(* the chore is complete.                                                    *)
LEMMA StepEndsQuiet ==
  ASSUME OnceInv, Once', FromPlan, Quiet, phase = "window", terminal # None, UNCHANGED pending,
         NEW ok \in BOOLEAN, StepEnds(ok)
  PROVE  Quiet'
<1> USE DEF OnceInv
<1>1. /\ terminal' = None /\ phase' = phase /\ UNCHANGED plan /\ pending = 0 /\ ready = <<>>
      /\ window \in [members : Seq(Node), at : Nat, failed : Nat]
      /\ terminal \in Node /\ completed \in SUBSET Node
  BY DEF StepEnds, Quiet, Inside, FateOK, DriveTypeOK, OutcomeTypeOK
<1>2. window'.members = window.members  BY <1>1 DEF StepEnds
<1>3. TheChore' = TheChore  BY <1>1, <1>2 DEF TheChore, SameChore, IsChore, plan
<1>4. terminal \in TheChore
  <2>1. terminal \in Inner  BY WindowTypes DEF Inside, WindowOK
  <2> QED  BY <2>1, InnerChore
<1>5. CASE ok
  <2>1. completed' = completed \cup {terminal}  BY <1>5 DEF StepEnds
  <2>2. PICK s \in Listings(Released(terminal) \ Members) : ready' = s  BY <1>5 DEF StepEnds
  <2>3. Released(terminal) \ Members \in SUBSET Node  BY DEF Released, Dependents
  <2>4. Entries(ready') \subseteq Released(terminal)  BY <2>2, <2>3, ListingEntries
  <2>5. /\ \A k \in completed' : deps[k] \subseteq completed'
        /\ \A k \in Entries(ready') : deps[k] \subseteq completed'
    BY <1>1 DEF Once, DepsDone, Taken, Waiting, plan
  <2>6. ASSUME NEW m \in Entries(ready'), m \notin TheChore PROVE TheChore \subseteq completed'
    <3>1. m \in Node /\ terminal \in deps[m]  BY <2>4 DEF Released, Dependents
    <3>2. IsChore(terminal) /\ recipe[terminal] = recipe[window.members[1]]
      BY <1>4 DEF TheChore, SameChore
    <3>3. ~(IsChore(m) /\ recipe[m] = recipe[terminal])
      BY <2>6, <3>1, <3>2 DEF TheChore, SameChore
    <3>4. completed' \in SUBSET Node  BY <1>1, <2>1
    <3>5. {k \in Node : IsChore(k) /\ recipe[k] = recipe[terminal]} \subseteq completed'
      BY <1>1, <2>5, <3>1, <3>2, <3>3, <3>4, WholeChore
    <3> QED  BY <3>2, <3>5 DEF TheChore, SameChore
  <2> QED  BY <1>1, <1>3, <2>6 DEF Quiet
<1>6. CASE ~ok
  <2>1. ready' = ready  BY <1>6 DEF StepEnds
  <2> QED  BY <1>1, <1>3, <2>1, EmptyFacts DEF Quiet
<1> QED  BY <1>5, <1>6

LEMMA WindowQuiet ==
  ASSUME OnceInv, Once', FromPlan, Quiet, Window PROVE Quiet'
<1> USE DEF OnceInv
<1>1. ASSUME NEW n \in Node, OpenWindow(n) PROVE Quiet'
  <2>1. /\ pending = 0 /\ ready = <<>> /\ UNCHANGED <<pending, ready>> /\ phase' = "gather"
    BY <1>1 DEF OpenWindow, AtHead, Drained, pool
  <2> QED  BY <2>1 DEF Quiet
<1>2. CASE Gather \/ \E n \in Node : Extend(n)
  <2>1. /\ phase = "gather" /\ phase' = "gather" /\ UNCHANGED <<pending, ready>>
    BY <1>2 DEF Extend, Gather, pool
  <2> QED  BY <2>1 DEF Quiet
<1>3. ASSUME NEW ok \in BOOLEAN, StartWindow(ok) PROVE Quiet'
  <2>1. /\ phase = "gather" /\ phase' = "window" /\ UNCHANGED <<pending, ready, terminal>>
    BY <1>3 DEF StartWindow, pool
  <2> QED  BY <2>1, EmptyFacts DEF Quiet
<1>4. ASSUME NEW n \in Node, SkipStep(n) PROVE Quiet'
  <2>1. window \in [members : Seq(Node), at : Nat, failed : Nat]  BY DEF Inside, DriveTypeOK
  <2>2. window'.members = window.members  BY <1>4, <2>1 DEF SkipStep
  <2>3. UNCHANGED <<plan, pending, phase, terminal, ready, completed>>
    BY <1>4 DEF SkipStep, pool, outcome
  <2> QED  BY <2>2, <2>3, QuietKept
<1>5. ASSUME NEW n \in Node, StartStep(n) PROVE Quiet'
  <2>1. /\ AtStep(n) /\ phase = "window" /\ ready = <<>>
        /\ UNCHANGED <<plan, pending, phase, window, ready, completed>>
    BY <1>5 DEF StartStep, AtStep, InWindow, outcome
  <2>2. n \notin completed
    <3>1. /\ window.at \in 1 .. Len(window.members) /\ n = window.members[window.at]
          /\ terminal = None /\ window.failed = 0
      BY <2>1, WindowTypes DEF AtStep, InWindow
    <3> QED  BY <3>1 DEF Once, Untouched, Taken
  <2>3. n \in TheChore
    <3>1. n \in Inner  BY <2>1, WindowTypes DEF AtStep
    <3> QED  BY <2>1, <3>1, InnerChore
  <2>4. pending = 0 /\ Entries(ready) \subseteq TheChore  BY <2>1, <2>2, <2>3 DEF Quiet
  <2>5. TheChore' = TheChore  BY <2>1 DEF TheChore, SameChore, IsChore, plan
  <2> QED  BY <2>1, <2>4, <2>5 DEF Quiet
<1>6. ASSUME NEW ok \in BOOLEAN, EndShellStep(ok) PROVE Quiet'
  <2>1. phase = "window" /\ terminal # None /\ StepEnds(ok) /\ UNCHANGED pending
    BY <1>6 DEF EndShellStep, pool
  <2> QED  BY <2>1, StepEndsQuiet
<1>7. CASE EndLuaStep
  <2>1. /\ phase = "window" /\ terminal # None /\ StepEnds(Head(results).ok) /\ UNCHANGED pending
        /\ results # <<>>
    BY <1>7 DEF EndLuaStep
  <2>2. Head(results).ok \in BOOLEAN
    BY <2>1, ResultsTail DEF Inside
  <2> QED  BY <2>1, <2>2, StepEndsQuiet
<1>8. ASSUME NEW ok \in BOOLEAN, CloseWindow(ok) PROVE Quiet'
  <2>1. terminal = None /\ terminal' = None /\ phase' = "loop"
    BY <1>8 DEF CloseWindow, InWindow
  <2> QED  BY <2>1 DEF Quiet
<1>9. CASE \E n \in Node : OpenWindow(n) \/ Extend(n) \/ SkipStep(n) \/ StartStep(n)
  BY <1>1, <1>2, <1>4, <1>5, <1>9
<1>10. CASE \E ok \in BOOLEAN : StartWindow(ok) \/ EndShellStep(ok) \/ CloseWindow(ok)
  BY <1>3, <1>6, <1>8, <1>10
<1> QED  BY <1>2, <1>7, <1>9, <1>10 DEF Window

LEMMA NextQuiet ==
  ASSUME OnceInv, Once', FromPlan, Quiet, [Next]_vars PROVE Quiet' /\ FromPlan'
<1>1. UNCHANGED plan
  BY DEF vars, Next, MainThread, ProcessReady, SkipCancelled, Serve, ServeNothing, ServeTest,
         ServeProbe, ServeHit, Served, QueueInteractive, FailReady, FailLookup, FailPinned,
         FailDirs, FailEarly, Dispatch, SendProbe, SendTest, SendUnit, Send, Interact,
         DropCancelledHead, StartInteractive, EndInteractive, Window, OpenWindow, Extend, SkipStep,
         StartStep, Gather, StartWindow, EndShellStep, CloseWindow, EndLuaStep, StepEnds, Receive,
         Stop, Worker, Take, SendResult
<1>2. FromPlan'  BY <1>1 DEF FromPlan, plan
<1> SUFFICES Quiet'
  BY <1>2
<1>3. CASE ProcessReady  BY <1>3, ProcessReadyQuiet
<1>4. CASE Interact
  <2>1. ASSUME NEW n \in Node, DropCancelledHead(n) \/ StartInteractive(n) PROVE Quiet'
    <3>1. /\ phase = "loop" /\ phase' = phase /\ UNCHANGED <<pending, ready>>
          /\ pending = 0 /\ ready = <<>>
      BY <2>1 DEF DropCancelledHead, StartInteractive, AtHead, Drained, pool
    <3> QED  BY <3>1 DEF Quiet
  <2>2. ASSUME NEW ok \in BOOLEAN, EndInteractive(ok) PROVE Quiet'
    <3>1. phase = "loop" /\ phase' = phase /\ terminal' = None  BY <2>2 DEF EndInteractive
    <3> QED  BY <3>1 DEF Quiet
  <2> QED  BY <1>4, <2>1, <2>2 DEF Interact
<1>5. CASE Window  BY <1>5, WindowQuiet
<1>6. ASSUME NEW n \in Node, NEW ok \in BOOLEAN, Receive([node |-> n, ok |-> ok]) PROVE Quiet'
  <2>1. phase = "loop" /\ phase' = phase /\ terminal = None /\ terminal' = None
    BY <1>6 DEF Receive, Receiving, drive
  <2> QED  BY <2>1 DEF Quiet
<1>7. CASE Stop
  <2>1. phase' = "done" /\ terminal = None /\ terminal' = None  BY <1>7 DEF Stop
  <2> QED  BY <2>1 DEF Quiet
<1>8. CASE (\E w \in Workers : Worker(w)) \/ UNCHANGED vars
  <2>1. UNCHANGED <<plan, drive, completed, ready, pending>>
    BY <1>8 DEF Worker, Take, SendResult, vars, outcome, pool
  <2> QED  BY <2>1, QuietKept DEF drive
<1> QED  BY <1>3, <1>4, <1>5, <1>6, <1>7, <1>8 DEF Next, MainThread

LEMMA NothingInFlight ==
  ASSUME Inside, PendingExact, pending = 0, ~AwaitsLua PROVE InFlight = {}
<1>1. /\ Len(queue) \in Nat /\ Len(results) \in Nat
      /\ queue \in Seq(Node) /\ results \in Seq([node : Node, ok : BOOLEAN])
  BY PoolLengths DEF Inside, PoolTypeOK
<1>2. Awaited = 0  BY DEF Awaited
<1>3. Cardinality(Occupied) \in Nat
      /\ 0 = Len(queue) + Cardinality(Occupied) + Len(results)
  BY <1>2, OccupiedFacts
<1>4. Len(queue) = 0 /\ Len(results) = 0 /\ Cardinality(Occupied) = 0
  BY <1>1, <1>3
<1>5. Occupied = {}  BY <1>4, OccupiedFacts, FS_EmptySet
<1>6. DOMAIN queue = {} /\ DOMAIN results = {}  BY <1>1, <1>4, LenProperties
<1> QED  BY <1>5, <1>6 DEF InFlight, InQueue, InChannel, Executing, Occupied

(* A worker moves what is in the pool and adds nothing to it. *)
LEMMA WorkerMoves ==
  ASSUME Inside, NEW w \in Workers, Worker(w) PROVE InFlight' \subseteq InFlight
<1>1. /\ queue \in Seq(Node) /\ results \in Seq([node : Node, ok : BOOLEAN])
      /\ busy \in [Workers -> Node \cup {None}]
  BY DEF Inside, PoolTypeOK
<1>2. DOMAIN queue = 1 .. Len(queue) /\ DOMAIN results = 1 .. Len(results)
  BY <1>1, LenProperties
<1>3. CASE Take(w)
  <2>1. /\ queue # <<>> /\ queue' = Tail(queue) /\ UNCHANGED results
        /\ busy' = [busy EXCEPT ![w] = Head(queue)]
    BY <1>3 DEF Take
  <2>2. Head(queue) \in Entries(queue) /\ Entries(queue') \subseteq Entries(queue)
        /\ queue' \in Seq(Node)
    BY <1>1, <2>1, TailEntries
  <2>3. DOMAIN queue' = 1 .. Len(queue')  BY <2>2, LenProperties
  <2>4. InQueue = Entries(queue) /\ InQueue' = Entries(queue')
    BY <1>2, <2>3 DEF InQueue, Entries
  <2>5. Executing' \subseteq Executing \cup {Head(queue)}  BY <1>1, <2>1 DEF Executing
  <2>6. InChannel' = InChannel  BY <2>1 DEF InChannel
  <2> QED  BY <2>2, <2>4, <2>5, <2>6 DEF InFlight
<1>4. ASSUME NEW ok \in BOOLEAN, SendResult(w, ok) PROVE InFlight' \subseteq InFlight
  <2> DEFINE r == [node |-> busy[w], ok |-> ok]
             s == Append(results, r)
  <2>1. /\ busy[w] # None /\ results' = s /\ UNCHANGED queue
        /\ busy' = [busy EXCEPT ![w] = None]
    BY <1>4 DEF SendResult
  <2>2. r \in [node : Node, ok : BOOLEAN] /\ r.node = busy[w]  BY <1>1, <2>1
  <2>3. /\ Len(s) = Len(results) + 1 /\ Len(results) \in Nat /\ s[Len(results) + 1] = r
        /\ \A i \in 1 .. Len(results) : s[i] = results[i]
        /\ DOMAIN s = 1 .. Len(s)
    BY <1>1, <2>2, AppendProperties, LenProperties
  <2> HIDE DEF s, r
  <2>4. busy[w] \in Executing /\ Executing' \subseteq Executing  BY <1>1, <2>1 DEF Executing
  <2>5. InChannel' \subseteq InChannel \cup {busy[w]}
    <3> SUFFICES ASSUME NEW i \in 1 .. Len(s) PROVE s[i].node \in InChannel \cup {busy[w]}
      BY <2>1, <2>3 DEF InChannel
    <3>1. i \in 1 .. Len(results) \/ i = Len(results) + 1  BY <2>3
    <3> QED  BY <1>2, <2>2, <2>3, <3>1 DEF InChannel
  <2>6. InQueue' = InQueue  BY <2>1 DEF InQueue
  <2> QED  BY <2>4, <2>5, <2>6 DEF InFlight
<1> QED  BY <1>3, <1>4 DEF Worker

LEMMA NextAlone ==
  ASSUME OnceInv, Quiet, PendingExact, TerminalAlone, [Next]_vars PROVE TerminalAlone'
<1> USE DEF OnceInv
<1>1. ASSUME NEW n \in Node, StartInteractive(n) PROVE TerminalAlone'
  <2>1. /\ pending = 0 /\ terminal = None /\ UNCHANGED pool
    BY <1>1 DEF StartInteractive, AtHead, Drained
  <2>2. InFlight = {}  BY <2>1, NothingInFlight DEF AwaitsLua
  <2>3. InFlight' = {}
    BY <2>1, <2>2 DEF pool, InFlight, InQueue, Executing, InChannel
  <2> QED  BY <2>3 DEF TerminalAlone
<1>2. ASSUME NEW n \in Node, StartStep(n) PROVE TerminalAlone'
  <2>1. /\ terminal = None /\ terminal' = n /\ n # None /\ phase = "window"
        /\ UNCHANGED <<kind, phase, busy, results, pending>>
        /\ IF kind[n] = "choreLua" THEN queue' = Append(queue, n) ELSE queue' = queue
    BY <1>2, NodeFacts DEF StartStep, AtStep, InWindow, Submit, plan
  <2>2. pending = 0
    <3>1. n \notin completed
      <4>1. /\ window.at \in 1 .. Len(window.members) /\ n = window.members[window.at]
            /\ terminal = None /\ window.failed = 0
        BY <1>2, WindowTypes DEF StartStep, AtStep, InWindow
      <4> QED  BY <4>1 DEF Once, Untouched, Taken
    <3>2. n \in TheChore
      <4>1. n \in Inner  BY <1>2, WindowTypes DEF StartStep, AtStep
      <4> QED  BY <2>1, <4>1, InnerChore
    <3> QED  BY <2>1, <3>1, <3>2 DEF Quiet
  <2>3. InFlight = {}  BY <2>1, <2>2, NothingInFlight DEF AwaitsLua
  <2>4. Executing' = {} /\ InChannel' = {} /\ InQueue = {}
    BY <2>1, <2>3 DEF InFlight, Executing, InChannel
  <2>5. CASE kind[n] = "choreLua"
    <3>1. AwaitsLua'  BY <2>1, <2>5 DEF AwaitsLua
    <3>2. queue \in Seq(Node) /\ queue' = Append(queue, n)
      BY <2>1, <2>5 DEF Inside, PoolTypeOK
    <3>3. DOMAIN queue = 1 .. Len(queue) /\ queue' \in Seq(Node) /\ DOMAIN queue' = 1 .. Len(queue')
      BY <3>2, AppendProperties, LenProperties
    <3>4. Entries(queue') = Entries(queue) \cup {n}  BY <3>2, AppendEntries
    <3>5. InQueue' = {n}  BY <2>4, <3>3, <3>4 DEF InQueue, Entries
    <3> QED  BY <2>1, <2>4, <3>1, <3>5 DEF TerminalAlone, InFlight
  <2>6. CASE kind[n] # "choreLua"
    <3>1. InQueue' = {}  BY <2>1, <2>4, <2>6 DEF InQueue
    <3> QED  BY <2>4, <3>1 DEF TerminalAlone, InFlight
  <2> QED  BY <2>5, <2>6
<1>3. ASSUME NEW w \in Workers, Worker(w) PROVE TerminalAlone'
  <2>1. UNCHANGED <<terminal, phase, kind>>  BY <1>3 DEF Worker, Take, SendResult, drive, plan
  <2>2. AwaitsLua' = AwaitsLua  BY <2>1 DEF AwaitsLua
  <2> QED  BY <1>3, <2>1, <2>2, WorkerMoves DEF TerminalAlone
<1>4. CASE UNCHANGED vars
  BY <1>4 DEF vars, plan, pool, drive, TerminalAlone, AwaitsLua, InFlight, InQueue, Executing,
              InChannel
<1>5. CASE ProcessReady
  <2>1. PICK n \in Node :
          SkipCancelled(n) \/ Serve(n) \/ QueueInteractive(n) \/ FailReady(n) \/ Dispatch(n)
    BY <1>5 DEF ProcessReady
  <2>2. Turn(n) /\ UNCHANGED terminal
    BY <2>1 DEF SkipCancelled, Serve, ServeNothing, ServeTest, ServeProbe, ServeHit, Served,
                QueueInteractive, FailReady, FailLookup, FailPinned, FailDirs, FailEarly,
                Dispatch, SendProbe, SendTest, SendUnit, Send, Live, drive
  <2> QED  BY <2>2 DEF Quiet, Turn, TerminalAlone
<1>6. ASSUME Window, \A n \in Node : ~StartStep(n) PROVE TerminalAlone'
  <2>1. phase = "gather" => terminal = None  BY DEF Inside, WindowOK
  <2>2. terminal' = None
    BY <1>6, <2>1 DEF Window, OpenWindow, AtHead, Extend, SkipStep, AtStep, InWindow, Gather,
                      StartWindow, EndShellStep, CloseWindow, EndLuaStep, StepEnds
  <2> QED  BY <2>2 DEF TerminalAlone
<1>7. ASSUME Interact, \A n \in Node : ~StartInteractive(n) PROVE TerminalAlone'
  BY <1>7 DEF Interact, DropCancelledHead, AtHead, EndInteractive, TerminalAlone
<1>8. ASSUME NEW n \in Node, NEW ok \in BOOLEAN, Receive([node |-> n, ok |-> ok])
      PROVE  TerminalAlone'
  BY <1>8 DEF Receive, Receiving, drive, TerminalAlone
<1>9. CASE Stop  BY <1>9 DEF Stop, TerminalAlone
<1> QED  BY <1>1, <1>2, <1>3, <1>4, <1>5, <1>6, <1>7, <1>8, <1>9 DEF Next, MainThread

(* Nothing else is queued, executing or on its way back while a step has the *)
(* terminal, in any plan the unit graph hands over and with any number of    *)
(* workers; the result a Lua step of a chore waits for is its own.           *)
THEOREM TerminalAloneCorrect == Spec => []TerminalAlone
<1>1. Init => FromPlan /\ Quiet /\ TerminalAlone
  <2> SUFFICES ASSUME Init PROVE FromPlan /\ Quiet /\ TerminalAlone
    OBVIOUS
  <2>1. FromPlan  BY DEF Init, FromPlan
  <2>2. terminal = None /\ phase = "loop"  BY DEF Init
  <2> QED  BY <2>1, <2>2 DEF Quiet, TerminalAlone
<1>2. OnceInv /\ OnceInv' /\ PendingExact /\ FromPlan /\ Quiet /\ TerminalAlone /\ [Next]_vars
        => FromPlan' /\ Quiet' /\ TerminalAlone'
  BY NextQuiet, NextAlone DEF OnceInv
<1> QED  BY <1>1, <1>2, OnceInvariance, PendingExactCorrect, PTL DEF Spec
----------------------------------------------------------------------------
(* The contract of the build.  Apart: a unit is in one place of the pool.    *)
(* Fates: what has started or ended had all its dependencies succeed and is  *)
(* not cancelled, an end is final, and nothing that failed is waiting, in    *)
(* the window or in the pool.  Failing: a window closed by a failure has     *)
(* that one step to report, and nothing runs.                                *)
Around == Waiting \cup Inner \cup InFlight

Apart ==
  /\ Distinct(queue)
  /\ \A w, v \in Workers : busy[w] # None /\ busy[w] = busy[v] => w = v
  /\ \A i, j \in 1 .. Len(results) : i # j => results[i].node # results[j].node
  /\ InQueue \cap Executing = {} /\ InQueue \cap InChannel = {} /\ Executing \cap InChannel = {}

Fates ==
  /\ good \cap bad = {} /\ good \subseteq completed
  /\ \A n \in ran \cup good \cup bad : deps[n] \subseteq good /\ n \notin cancelled
  /\ Around \cap bad = {} /\ InFlight \cap good = {}
  /\ terminal # None => terminal \notin good \cup bad

Failing ==
  /\ phase = "gather" => window.members[1] \notin cancelled
  /\ window.failed # 0 =>
       /\ terminal = None
       /\ phase = "window" /\ window.failed = window.at /\ pending = 0 /\ ready = <<>>
       /\ window.members[window.failed] \notin cancelled \cup good \cup bad
       /\ deps[window.members[window.failed]] \subseteq good

(* What the steps do to the pool. *)
LEMMA PoolParts ==
  ASSUME Inside
  PROVE  /\ InQueue = Entries(queue) /\ InChannel = {results[i].node : i \in 1 .. Len(results)}
         /\ queue \in Seq(Node) /\ results \in Seq([node : Node, ok : BOOLEAN])
         /\ busy \in [Workers -> Node \cup {None}]
         /\ Len(queue) \in Nat /\ Len(results) \in Nat
         /\ InFlight \subseteq ran
<1>1. /\ queue \in Seq(Node) /\ results \in Seq([node : Node, ok : BOOLEAN])
      /\ busy \in [Workers -> Node \cup {None}]
  BY DEF Inside, PoolTypeOK
<1>2. /\ DOMAIN queue = 1 .. Len(queue) /\ DOMAIN results = 1 .. Len(results)
      /\ Len(queue) \in Nat /\ Len(results) \in Nat
  BY <1>1, LenProperties
<1>3. InQueue = Entries(queue) /\ InChannel = {results[i].node : i \in 1 .. Len(results)}
  BY <1>2 DEF InQueue, InChannel, Entries
<1>4. InFlight \subseteq ran  BY <1>3 DEF Inside, HandedOK, InFlight, Executing
<1> QED  BY <1>1, <1>2, <1>3, <1>4

LEMMA PoolPartsNext ==
  ASSUME Inside'
  PROVE  /\ InQueue' = Entries(queue')
         /\ InChannel' = {results'[i].node : i \in 1 .. Len(results')}
<1>1. queue' \in Seq(Node) /\ results' \in Seq([node : Node, ok : BOOLEAN])
  BY DEF Inside, PoolTypeOK
<1>2. DOMAIN queue' = 1 .. Len(queue') /\ DOMAIN results' = 1 .. Len(results')
  BY <1>1, LenProperties
<1> QED  BY <1>2 DEF InQueue, InChannel, Entries

LEMMA PoolKept ==
  ASSUME Apart, UNCHANGED pool PROVE Apart' /\ InFlight' = InFlight
<1>1. UNCHANGED <<queue, busy, results>>  BY DEF pool
<1>2. InQueue' = InQueue /\ Executing' = Executing /\ InChannel' = InChannel
  BY <1>1 DEF InQueue, Executing, InChannel
<1>3. Distinct(queue')  BY <1>1 DEF Apart
<1> QED  BY <1>1, <1>2, <1>3 DEF Apart, InFlight

LEMMA SubmitApart ==
  ASSUME Inside, Inside', Apart, NEW n \in Node, n \notin InFlight,
         queue' = Append(queue, n), UNCHANGED <<busy, results>>
  PROVE  Apart' /\ InFlight' = InFlight \cup {n}
<1>1. queue \in Seq(Node) /\ InQueue = Entries(queue) /\ InQueue' = Entries(queue')
  BY PoolParts, PoolPartsNext
<1>2. Distinct(queue') /\ Entries(queue') = Entries(queue) \cup {n}
  BY <1>1, AppendDistinct, AppendEntries DEF Apart, InFlight
<1>3. Executing' = Executing /\ InChannel' = InChannel  BY DEF Executing, InChannel
<1>4. InQueue' = InQueue \cup {n}  BY <1>1, <1>2
<1> QED  BY <1>2, <1>3, <1>4 DEF Apart, InFlight

LEMMA ReceiveApart ==
  ASSUME Inside, Inside', Apart, results # <<>>, results' = Tail(results), UNCHANGED <<queue, busy>>
  PROVE  /\ Apart' /\ InFlight' \subseteq InFlight
         /\ Head(results).node \in InFlight /\ Head(results).node \notin InFlight'
<1>1. /\ results \in Seq([node : Node, ok : BOOLEAN]) /\ Len(results) \in Nat
      /\ InChannel = {results[i].node : i \in 1 .. Len(results)}
      /\ InChannel' = {results'[i].node : i \in 1 .. Len(results')}
  BY PoolParts, PoolPartsNext
<1> DEFINE t == Tail(results)
<1>2. /\ Head(results) = results[1] /\ Len(t) = Len(results) - 1 /\ Len(results) >= 1
      /\ \A i \in 1 .. Len(t) : t[i] = results[i + 1]
  BY <1>1, HeadTailProperties, EmptySeq, LenProperties
<1>3. results' = t  OBVIOUS
<1> HIDE DEF t
<1>4. \A i \in 1 .. Len(t) : i + 1 \in 1 .. Len(results) /\ i + 1 # 1  BY <1>1, <1>2
<1>5. /\ InChannel' \subseteq InChannel /\ results[1].node \in InChannel
      /\ results[1].node \notin InChannel'
  <2>1. 1 \in 1 .. Len(results)  BY <1>1, <1>2
  <2> QED  BY <1>1, <1>2, <1>3, <1>4, <2>1 DEF Apart
<1>6. \A i, j \in 1 .. Len(t) : i # j => t[i].node # t[j].node
  <2>1. \A i, j \in 1 .. Len(t) : i # j => i + 1 # j + 1  BY <1>1, <1>2
  <2> QED  BY <1>2, <1>4, <2>1 DEF Apart
<1>7. InQueue' = InQueue /\ Executing' = Executing  BY DEF InQueue, Executing
<1>8. Apart'  BY <1>3, <1>5, <1>6, <1>7 DEF Apart
<1>9. results[1].node \notin InFlight'  BY <1>5, <1>7 DEF Apart, InFlight
<1> QED  BY <1>2, <1>5, <1>7, <1>8, <1>9 DEF InFlight

LEMMA WorkerApart ==
  ASSUME Inside, Inside', Apart, NEW w \in Workers, Worker(w) PROVE Apart'
<1>1. /\ InQueue = Entries(queue) /\ InQueue' = Entries(queue')
      /\ InChannel = {results[i].node : i \in 1 .. Len(results)}
      /\ InChannel' = {results'[i].node : i \in 1 .. Len(results')}
      /\ queue \in Seq(Node) /\ results \in Seq([node : Node, ok : BOOLEAN])
      /\ busy \in [Workers -> Node \cup {None}] /\ Len(results) \in Nat
  BY PoolParts, PoolPartsNext
<1>2. CASE Take(w)
  <2> DEFINE h == Head(queue)
  <2>1. /\ queue # <<>> /\ queue' = Tail(queue) /\ UNCHANGED results /\ busy[w] = None
        /\ busy' = [busy EXCEPT ![w] = h]
    BY <1>2 DEF Take
  <2>2. /\ h \in Entries(queue) /\ Entries(queue') \subseteq Entries(queue)
        /\ h \notin Entries(queue') /\ Distinct(queue') /\ h \in Node
    BY <1>1, <2>1, TailEntries, TailDistinct DEF Apart
  <2> HIDE DEF h
  <2>3. Executing' \subseteq Executing \cup {h}  BY <1>1, <2>1 DEF Executing
  <2>4. InChannel' = InChannel  BY <2>1 DEF InChannel
  <2>5. \A v \in Workers : busy[v] # None => busy[v] # h
    BY <1>1, <2>2 DEF Apart, Executing
  <2>6. \A u, v \in Workers : busy'[u] # None /\ busy'[u] = busy'[v] => u = v
    BY <1>1, <2>1, <2>5, NodeFacts, <2>2 DEF Apart
  <2> QED  BY <1>1, <2>1, <2>2, <2>3, <2>4, <2>6 DEF Apart
<1>3. ASSUME NEW ok \in BOOLEAN, SendResult(w, ok) PROVE Apart'
  <2> DEFINE r == [node |-> busy[w], ok |-> ok]
             s == Append(results, r)
  <2>1. /\ busy[w] # None /\ results' = s /\ UNCHANGED queue
        /\ busy' = [busy EXCEPT ![w] = None]
    BY <1>3 DEF SendResult
  <2>2. r \in [node : Node, ok : BOOLEAN] /\ r.node = busy[w]  BY <1>1, <2>1
  <2>3. /\ Len(s) = Len(results) + 1 /\ s[Len(results) + 1] = r
        /\ \A i \in 1 .. Len(results) : s[i] = results[i]
    BY <1>1, <2>2, AppendProperties
  <2> HIDE DEF s, r
  <2>4. \A i \in 1 .. Len(s) : i \in 1 .. Len(results) \/ i = Len(results) + 1
    BY <1>1, <2>3
  <2>5. busy[w] \in Executing  BY <2>1 DEF Executing
  <2>6. Executing' \subseteq Executing /\ busy[w] \notin Executing'
    BY <1>1, <2>1 DEF Executing, Apart
  <2>7. InChannel' \subseteq InChannel \cup {busy[w]}  BY <1>1, <2>1, <2>2, <2>3, <2>4
  <2>8. \A i \in 1 .. Len(results) : results[i].node # busy[w]  BY <1>1, <2>5 DEF Apart
  <2>9. \A i, j \in 1 .. Len(s) : i # j => s[i].node # s[j].node
    BY <2>2, <2>3, <2>4, <2>8 DEF Apart
  <2>10. InQueue' = InQueue  BY <2>1 DEF InQueue
  <2>11. \A u, v \in Workers : busy'[u] # None /\ busy'[u] = busy'[v] => u = v
    BY <1>1, <2>1 DEF Apart
  <2> QED  BY <2>1, <2>5, <2>6, <2>7, <2>9, <2>10, <2>11 DEF Apart
<1> QED  BY <1>2, <1>3 DEF Worker

(* What is downstream of units that did not succeed has a dependency that    *)
(* did not; a cascade over a set closed downstream adds all of it.           *)
LEMMA DownstreamWaits ==
  ASSUME PlanTypeOK, NEW S \in SUBSET Node, S \cap good = {},
         \A n \in good : deps[n] \subseteq good
  PROVE  Contract!Downstream(S) \subseteq {m \in Node : ~(deps[m] \subseteq good)}
<1> DEFINE C == {m \in Node : ~(deps[m] \subseteq good)}
<1>1. C \in SUBSET Node  OBVIOUS
<1>2. ASSUME NEW k \in Node, deps[k] \cap (S \cup C) # {} PROVE k \in C
  <2>1. PICK d \in deps[k] : d \in S \cup C  BY <1>2
  <2>2. d \notin good  BY <2>1
  <2> QED  BY <2>1, <2>2
<1> HIDE DEF C
<1>3. Contract!Downstream(S) \subseteq C  BY <1>1, <1>2 DEF Contract!Downstream
<1> QED  BY <1>3 DEF C

LEMMA CascadeIsDownstream ==
  ASSUME PlanTypeOK, NEW S \in SUBSET Node, NEW out \in SUBSET Node,
         \A m \in out \ S : Dependents(m) \subseteq out
  PROVE  out \cup Cascade(S, out) = out \cup Contract!Downstream(S)
<1>1. Cascade(S, out) \subseteq Contract!Downstream(S)
  <2> SUFFICES ASSUME NEW m \in Cascade(S, out), NEW C \in SUBSET Node,
                      \A k \in Node : deps[k] \cap (S \cup C) # {} => k \in C
               PROVE  m \in Node /\ m \in C
    BY DEF Contract!Downstream, Cascade
  <2> QED  BY DEF Cascade
<1>2. Contract!Downstream(S) \subseteq out \cup Cascade(S, out)
  <2> DEFINE C == out \cup Cascade(S, out)
  <2>1. C \in SUBSET Node /\ \A m \in S \cup Cascade(S, out) : Dependents(m) \subseteq C
    BY CascadeCloses
  <2>2. ASSUME NEW k \in Node, deps[k] \cap (S \cup C) # {} PROVE k \in C
    <3>1. PICK d \in deps[k] : d \in S \cup C  BY <2>2
    <3>2. k \in Dependents(d)  BY <3>1 DEF Dependents
    <3>3. CASE d \in S \cup Cascade(S, out)  BY <2>1, <3>2, <3>3
    <3>4. CASE d \in out \ S  BY <3>2, <3>4
    <3> QED  BY <3>1, <3>3, <3>4
  <2> HIDE DEF C
  <2>3. Contract!Downstream(S) \subseteq C  BY <2>1, <2>2 DEF Contract!Downstream
  <2> QED  BY <2>3 DEF C
<1> QED  BY <1>1, <1>2

(* The four ways a step touches the fates, each with its step of the         *)
(* contract.                                                                 *)
FateStep == [Contract!Next]_(Contract!vars)

Settles == terminal' # None => terminal' \notin good' \cup bad'

LEMMA FateSame ==
  ASSUME Fates, UNCHANGED <<plan, completed, cancelled, ran, good, bad>>,
         Around' \cap bad = {}, InFlight' \cap good = {}, Settles
  PROVE  Fates' /\ FateStep
<1>1. UNCHANGED Contract!vars  BY DEF Contract!vars, plan, IsChore
<1>2. Fates'  BY DEF Fates, plan, Settles
<1> QED  BY <1>1, <1>2 DEF FateStep

LEMMA FateStart ==
  ASSUME Inside, Fates, NEW n \in Node, n \notin ran \cup good \cup bad \cup cancelled,
         deps[n] \subseteq good, ran' = ran \cup {n},
         UNCHANGED <<plan, completed, cancelled, good, bad>>,
         Around' \cap bad = {}, InFlight' \cap good = {}, Settles
  PROVE  Fates' /\ FateStep
<1>1. Fates'  BY DEF Fates, plan, Settles
<1>2. deps[n] \subseteq Node  BY DEF Inside, PlanTypeOK
<1>3. Contract!DepsOk(n)  BY <1>2 DEF Contract!DepsOk, Fates
<1>4. Contract!StartUnit(n)  BY <1>3 DEF Contract!StartUnit, plan, IsChore
<1> QED  BY <1>1, <1>4 DEF FateStep, Contract!Next

LEMMA FateGood ==
  ASSUME Inside, Fates, NEW n \in Node, n \notin good \cup bad \cup cancelled,
         deps[n] \subseteq good, good' = good \cup {n}, completed' = completed \cup {n},
         UNCHANGED <<plan, cancelled, ran, bad>>,
         Around' \cap bad = {}, InFlight' \cap good' = {}, Settles
  PROVE  Fates' /\ FateStep
<1>1. Fates'  BY DEF Fates, plan, Settles
<1>2. deps[n] \subseteq Node  BY DEF Inside, PlanTypeOK
<1>3. Contract!DepsOk(n)  BY <1>2 DEF Contract!DepsOk, Fates
<1>4. Contract!Succeed(n)  BY <1>3 DEF Contract!Succeed, plan, IsChore
<1> QED  BY <1>1, <1>4 DEF FateStep, Contract!Next

LEMMA FateBad ==
  ASSUME Inside, Fates, NEW n \in Node, n \notin good \cup bad \cup cancelled,
         deps[n] \subseteq good,
         NEW tail \in SUBSET Node, NEW left \in SUBSET Node, left = tail \ cancelled,
         n \notin tail, tail \cap (ran \cup good \cup bad) = {},
         \A m \in tail : IsChore(m) /\ IsChore(n) /\ recipe[m] = recipe[n],
         cancelled' = cancelled \cup left \cup Cascade({n} \cup tail, cancelled \cup left),
         bad' = bad \cup {n}, completed \subseteq completed',
         UNCHANGED <<plan, ran, good>>,
         Around' \cap bad' = {}, InFlight' \cap good = {}, Settles
  PROVE  Fates' /\ FateStep
<1> DEFINE S == {n} \cup tail
           down == Contract!Downstream(S)
           out == tail \cup down
<1>1. /\ PlanTypeOK /\ cancelled \in SUBSET Node /\ S \in SUBSET Node
      /\ CancelledOK /\ S \cap good = {} /\ cancelled \cup left \in SUBSET Node
  BY DEF Inside, FateOK, OutcomeTypeOK
<1>2. cancelled' = cancelled \cup out
  <2>1. \A m \in (cancelled \cup left) \ S : Dependents(m) \subseteq cancelled \cup left
    BY <1>1 DEF CancelledOK
  <2>2. (cancelled \cup left) \cup Cascade(S, cancelled \cup left) = (cancelled \cup left) \cup down
    <3> HIDE DEF S
    <3> QED  BY <1>1, <2>1, CascadeIsDownstream
  <2> QED  BY <2>2
<1>3. down \subseteq {m \in Node : ~(deps[m] \subseteq good)}
  <2> HIDE DEF S
  <2> QED  BY <1>1, DownstreamWaits DEF Fates
<1> HIDE DEF down
<1>4. out \in SUBSET Node /\ out \cap (ran \cup good \cup bad \cup {n}) = {}
  BY <1>3 DEF Fates
<1>5. Fates'
  <2>1. good \cap bad' = {}  BY DEF Fates
  <2>2. \A m \in ran \cup good \cup bad' : deps[m] \subseteq good /\ m \notin cancelled'
    BY <1>2, <1>4 DEF Fates
  <2> QED  BY <2>1, <2>2 DEF Fates, plan, Settles
<1>6. Contract!Fail(n, tail)
  <2> DEFINE fate == [m \in Node |->
              IF m \in cancelled THEN "blocked"
              ELSE IF m \in bad THEN "failed"
              ELSE IF m \in good THEN "ok"
              ELSE IF m \in ran THEN "running" ELSE "waiting"]
  <2>1. deps[n] \subseteq Node  BY <1>1 DEF PlanTypeOK
  <2>2. Contract!DepsOk(n)  BY <2>1 DEF Contract!DepsOk, Fates
  <2>3. fate[n] = "running" \/ (fate[n] = "waiting" /\ Contract!DepsOk(n))  BY <2>2
  <2>4. \A m \in out : fate[m] \in {"waiting", "blocked"}  BY <1>4
  <2>6. fate' = [m \in Node |-> IF m = n THEN "failed"
                                ELSE IF m \in out THEN "blocked" ELSE fate[m]]
    BY <1>2, <1>4
  <2>7. UNCHANGED <<deps, recipe, {m \in Node : IsChore(m)}>>  BY DEF plan, IsChore
  <2>8. \A m \in tail : /\ m # n /\ m \in {k \in Node : IsChore(k)}
                        /\ n \in {k \in Node : IsChore(k)} /\ recipe[m] = recipe[n]
    OBVIOUS
  <2> QED  BY <2>3, <2>4, <2>6, <2>7, <2>8 DEF Contract!Fail, down
<1> QED  BY <1>5, <1>6 DEF FateStep, Contract!Next

LEMMA FateBadAlone ==
  ASSUME Inside, Fates, NEW n \in Node, n \notin good \cup bad \cup cancelled,
         deps[n] \subseteq good,
         cancelled' = cancelled \cup Cascade({n}, cancelled),
         bad' = bad \cup {n}, completed \subseteq completed',
         UNCHANGED <<plan, ran, good>>,
         Around' \cap bad' = {}, InFlight' \cap good = {}, Settles
  PROVE  Fates' /\ FateStep
<1>1. /\ {} \in SUBSET Node /\ {} = {} \ cancelled /\ n \notin {}
      /\ {n} \cup {} = {n} /\ cancelled \cup {} = cancelled
      /\ {} \cap (ran \cup good \cup bad) = {}
      /\ \A m \in {} : IsChore(m) /\ IsChore(n) /\ recipe[m] = recipe[n]
  OBVIOUS
<1>2. cancelled' = cancelled \cup {} \cup Cascade({n} \cup {}, cancelled \cup {})  BY <1>1
<1> QED  BY <1>1, <1>2, FateBad

(* What a completion releases waited for it, so it has not failed. *)
LEMMA CompleteAround ==
  ASSUME Inside, Fates, NEW n \in Node, NEW rest \in Seq(Node), Complete(n, rest)
  PROVE  \A x \in Entries(ready') : x \in Entries(rest) \/ (x \notin bad /\ n \in deps[x])
<1>1. PICK s \in Listings(Released(n)) : ready' = s \o rest  BY DEF Complete
<1>2. Released(n) \in SUBSET Node  BY DEF Released, Dependents
<1>3. s \in Seq(Node) /\ Entries(s) \subseteq Released(n)  BY <1>1, <1>2, ListingEntries
<1>4. Entries(ready') \subseteq Released(n) \cup Entries(rest)  BY <1>1, <1>3, ConcatEntries
<1>5. ASSUME NEW x \in Released(n) PROVE x \notin bad /\ n \in deps[x]
  BY <1>5 DEF Released, Dependents, Fates
<1> QED  BY <1>4, <1>5

LEMMA FailingLoop == ASSUME Once', phase' \in {"loop", "done"} PROVE Failing'
<1>1. window' = NoWindow  BY DEF Once
<1>2. window'.failed = 0  BY <1>1 DEF NoWindow
<1> QED  BY <1>2 DEF Failing

Chain ==
  OnceInv /\ FromPlan /\ Quiet /\ PendingExact /\ TerminalAlone /\ Apart /\ Fates /\ Failing

Goal == Apart' /\ Fates' /\ Failing' /\ FateStep

LEMMA ProcessReadyChain == ASSUME Chain, OnceInv', ProcessReady PROVE Goal
<1> USE DEF Chain, OnceInv, Goal
<1>1. PICK n \in Node :
        SkipCancelled(n) \/ Serve(n) \/ QueueInteractive(n) \/ FailReady(n) \/ Dispatch(n)
  BY DEF ProcessReady
<1>2. Turn(n) /\ UNCHANGED <<plan, window, phase, terminal>>
  BY <1>1 DEF SkipCancelled, Serve, ServeNothing, ServeTest, ServeProbe, ServeHit, Served,
              QueueInteractive, FailReady, FailLookup, FailPinned, FailDirs, FailEarly,
              Dispatch, SendProbe, SendTest, SendUnit, Send, Live, drive
<1>3. /\ n \in Entries(ready) /\ n \notin Entries(interactive) /\ n \notin Inner
      /\ n \notin Taken
      /\ Tail(ready) \in Seq(Node) /\ n \notin Entries(Tail(ready))
      /\ Entries(Tail(ready)) \subseteq Entries(ready)
  BY <1>2, TurnOnce
<1>4. terminal = None /\ phase # "gather"  BY <1>2 DEF Quiet, Turn
<1>5. Failing'  BY <1>2, <1>4 DEF Failing, Turn
<1>6. Settles /\ Inner' = Inner  BY <1>2, <1>4 DEF Settles, Inner
<1>7. n \notin InFlight /\ n \notin bad  BY <1>3, PoolParts DEF Taken, Fates, Around, Waiting
<1>8. n \notin cancelled => deps[n] \subseteq good  BY <1>2, TurnFacts, MayStart DEF Inside
<1>9. CASE SkipCancelled(n)
  <2>1. ready' = Tail(ready) /\ UNCHANGED <<pool, outcome, ran, interactive>>
    BY <1>9 DEF SkipCancelled, drive
  <2>2. Apart' /\ InFlight' = InFlight  BY <2>1, PoolKept
  <2>3. Around' \subseteq Around  BY <1>3, <1>6, <2>1, <2>2 DEF Around, Waiting
  <2> QED  BY <1>2, <1>5, <1>6, <2>1, <2>2, <2>3, FateSame DEF outcome, Fates
<1>10. CASE QueueInteractive(n)
  <2>1. /\ ready' = Tail(ready) /\ interactive' = Append(interactive, n)
        /\ UNCHANGED <<pool, outcome, ran>>
    BY <1>10 DEF QueueInteractive
  <2>2. Apart' /\ InFlight' = InFlight  BY <2>1, PoolKept
  <2>3. Entries(interactive') = Entries(interactive) \cup {n}
    BY <2>1, AppendEntries DEF Inside, DriveTypeOK
  <2>4. Around' \subseteq Around  BY <1>3, <1>6, <2>1, <2>2, <2>3 DEF Around, Waiting
  <2> QED  BY <1>2, <1>5, <1>6, <2>1, <2>2, <2>4, FateSame DEF outcome, Fates
<1>11. CASE Serve(n)
  <2>1. /\ Complete(n, Tail(ready)) /\ good' = good \cup {n} /\ n \notin cancelled
        /\ UNCHANGED <<cancelled, bad, ran, pool, interactive>>
    BY <1>11 DEF Serve, ServeNothing, ServeTest, ServeProbe, ServeHit, Served, Settle, Live, drive
  <2>2. completed' = completed \cup {n}  BY <2>1 DEF Complete
  <2>3. Apart' /\ InFlight' = InFlight  BY <2>1, PoolKept
  <2>4. \A x \in Entries(ready') : x \in Entries(Tail(ready)) \/ x \notin bad
    BY <1>3, <2>1, CompleteAround
  <2>5. Around' \cap bad = {}  BY <1>3, <1>6, <2>1, <2>3, <2>4 DEF Around, Waiting, Fates
  <2>6. InFlight' \cap good' = {}  BY <1>7, <2>1, <2>3 DEF Fates
  <2>7. n \notin good  BY <1>3 DEF Taken
  <2> QED  BY <1>2, <1>5, <1>6, <1>7, <1>8, <2>1, <2>2, <2>3, <2>5, <2>6, <2>7, FateGood
<1>12. CASE FailReady(n)
  <2>1. /\ FailHard(n) /\ n \notin cancelled /\ ready' = Tail(ready)
        /\ UNCHANGED <<ran, pool, interactive>>
    BY <1>12 DEF FailReady, FailLookup, FailPinned, FailDirs, FailEarly, Live, drive
  <2>2. /\ cancelled' = cancelled \cup Cascade({n}, cancelled) /\ bad' = bad \cup {n}
        /\ UNCHANGED <<completed, good>>
    BY <2>1 DEF FailHard
  <2>3. Apart' /\ InFlight' = InFlight  BY <2>1, PoolKept
  <2>4. Around' \subseteq Around /\ n \notin Around'
    BY <1>3, <1>6, <1>7, <2>1, <2>3 DEF Around, Waiting
  <2>5. Around' \cap bad' = {} /\ InFlight' \cap good = {}  BY <2>2, <2>3, <2>4 DEF Fates
  <2>6. n \notin good  BY <1>3 DEF Taken
  <2> QED  BY <1>2, <1>5, <1>6, <1>7, <1>8, <2>1, <2>2, <2>3, <2>5, <2>6, FateBadAlone
<1>13. CASE Dispatch(n)
  <2>1. /\ queue' = Append(queue, n) /\ ran' = ran \cup {n} /\ ready' = Tail(ready)
        /\ n \notin cancelled /\ UNCHANGED <<busy, results, outcome, interactive>>
    BY <1>13 DEF Dispatch, SendProbe, SendTest, SendUnit, Send, Submit, Live, drive
  <2>2. Apart' /\ InFlight' = InFlight \cup {n}  BY <1>7, <2>1, SubmitApart
  <2>3. Around' \subseteq Around  BY <1>3, <1>6, <2>1, <2>2 DEF Around, Waiting
  <2>4. n \notin ran \cup good  BY <1>3 DEF Taken
  <2>5. Around' \cap bad = {} /\ InFlight' \cap good = {}  BY <2>2, <2>3, <2>4 DEF Fates
  <2> QED  BY <1>2, <1>5, <1>6, <1>7, <1>8, <2>1, <2>2, <2>4, <2>5, FateStart DEF outcome
<1> QED  BY <1>1, <1>9, <1>10, <1>11, <1>12, <1>13

LEMMA InteractChain == ASSUME Chain, OnceInv', Interact PROVE Goal
<1> USE DEF Chain, OnceInv, Goal
<1>1. phase' = "loop" /\ Failing' /\ UNCHANGED <<plan, pool, window>> /\ Inner' = Inner
  <2>1. phase' = "loop" /\ UNCHANGED <<plan, pool, window>>
    BY DEF Interact, DropCancelledHead, StartInteractive, EndInteractive, AtHead
  <2> QED  BY <2>1, FailingLoop DEF Inner
<1>2. Apart' /\ InFlight' = InFlight  BY <1>1, PoolKept
<1>3. ASSUME NEW n \in Node, DropCancelledHead(n) \/ StartInteractive(n) PROVE Goal
  <2>1. /\ interactive # <<>> /\ n = Head(interactive) /\ interactive' = Tail(interactive)
        /\ UNCHANGED <<ready, outcome>> /\ terminal = None
    BY <1>3 DEF DropCancelledHead, StartInteractive, AtHead
  <2>2. /\ n \in Entries(interactive) /\ n \notin Taken
        /\ Entries(interactive') \subseteq Entries(interactive)
    BY <2>1, HeadOnce
  <2>3. Around' \subseteq Around /\ n \notin bad
    BY <1>1, <1>2, <2>1, <2>2 DEF Around, Waiting, Fates
  <2>4. Around' \cap bad = {} /\ InFlight' \cap good = {}  BY <1>2, <2>3 DEF Fates
  <2>5. CASE DropCancelledHead(n)
    <3>1. UNCHANGED <<terminal, ran>>  BY <2>5 DEF DropCancelledHead
    <3> QED  BY <1>1, <1>2, <2>1, <2>4, <3>1, FateSame DEF outcome, Settles
  <2>6. CASE StartInteractive(n)
    <3>1. n \notin cancelled /\ ran' = ran \cup {n} /\ terminal' = n
      BY <2>6 DEF StartInteractive
    <3>2. deps[n] \subseteq good  BY <2>1, <3>1, HeadFacts, MayStart DEF Inside
    <3>3. Settles  BY <2>1, <2>2, <2>3, <3>1 DEF Settles, Taken, outcome
    <3> QED  BY <1>1, <1>2, <2>1, <2>2, <2>3, <2>4, <3>1, <3>2, <3>3, FateStart DEF outcome, Taken
  <2> QED  BY <1>3, <2>5, <2>6
<1>4. ASSUME NEW ok \in BOOLEAN, EndInteractive(ok) PROVE Goal
  <2> DEFINE n == terminal
  <2>1. /\ phase = "loop" /\ n # None /\ terminal' = None /\ UNCHANGED <<interactive, ran>>
        /\ IF ok THEN Settle(n, <<>>) ELSE FailHard(n) /\ UNCHANGED ready
    BY <1>4 DEF EndInteractive
  <2>2. n \in Node /\ n \in ran /\ n \notin good \cup bad /\ n \notin cancelled
        /\ deps[n] \subseteq good
    BY <2>1 DEF Inside, DriveTypeOK, HandedOK, Fates
  <2>3. InFlight = {}  BY <2>1 DEF TerminalAlone, AwaitsLua
  <2>4. Settles  BY <2>1 DEF Settles
  <2>5. n \notin Waiting /\ n \notin Inner /\ Inner = {}
    BY <2>1, <2>2, EmptyFacts DEF Once, Untouched, NoWindow, Inner, Taken
  <2> HIDE DEF n
  <2>6. CASE ok
    <3>1. /\ Complete(n, <<>>) /\ good' = good \cup {n} /\ UNCHANGED <<cancelled, bad>>
      BY <2>1, <2>6 DEF Settle
    <3>2. completed' = completed \cup {n}  BY <3>1 DEF Complete
    <3>3. \A x \in Entries(ready') : x \notin bad
      BY <2>2, <3>1, CompleteAround, EmptyFacts
    <3>4. Around' \cap bad = {}
      BY <1>1, <1>2, <2>1, <3>3 DEF Around, Waiting, Fates
    <3> QED  BY <1>1, <1>2, <2>1, <2>2, <2>3, <2>4, <3>1, <3>2, <3>4, FateGood
  <2>7. CASE ~ok
    <3>1. /\ cancelled' = cancelled \cup Cascade({n}, cancelled) /\ bad' = bad \cup {n}
          /\ UNCHANGED <<completed, good, ready>>
      BY <2>1, <2>7 DEF FailHard
    <3>2. Around' = Waiting /\ Around' \subseteq Around
      BY <1>1, <1>2, <2>1, <2>3, <2>5, <3>1 DEF Around, Waiting
    <3>3. Around' \cap bad' = {}  BY <2>5, <3>1, <3>2 DEF Fates
    <3> QED  BY <1>1, <1>2, <2>1, <2>2, <2>3, <2>4, <3>1, <3>3, FateBadAlone
  <2> QED  BY <2>6, <2>7
<1> QED  BY <1>3, <1>4 DEF Interact

LEMMA WorkerChain ==
  ASSUME Chain, OnceInv', NEW w \in Workers, Worker(w) PROVE Goal
<1> USE DEF Chain, OnceInv, Goal
<1>1. UNCHANGED <<plan, drive, outcome, ready, ran, pending>>
  BY DEF Worker, Take, SendResult
<1>2. Apart' /\ InFlight' \subseteq InFlight  BY WorkerApart, WorkerMoves
<1>3. Waiting' = Waiting /\ Inner' = Inner  BY <1>1 DEF Waiting, Inner, drive
<1>4. Around' \subseteq Around  BY <1>2, <1>3 DEF Around
<1>5. Failing'  BY <1>1 DEF Failing, drive, outcome, plan
<1>6. Settles  BY <1>1 DEF Settles, Fates, drive, outcome
<1> QED  BY <1>1, <1>2, <1>4, <1>5, <1>6, FateSame DEF Fates, outcome

LEMMA ReceiveChain ==
  ASSUME Chain, OnceInv', NEW r \in [node : Node, ok : BOOLEAN], Receive(r) PROVE Goal
<1> USE DEF Chain, OnceInv, Goal
<1> DEFINE n == r.node
<1>1. /\ phase = "loop" /\ phase' = "loop" /\ terminal = None /\ terminal' = None
      /\ results # <<>> /\ r = Head(results) /\ results' = Tail(results)
      /\ UNCHANGED <<plan, interactive, window, queue, busy, ran>>
  BY DEF Receive, Receiving, drive
<1>2. /\ Apart' /\ InFlight' \subseteq InFlight /\ n \in InFlight /\ n \notin InFlight'
  BY <1>1, ReceiveApart
<1>3. n \in Node /\ n \in ran /\ n \notin good \cup bad /\ n \notin cancelled
      /\ deps[n] \subseteq good
  <2>1. n \in Node  OBVIOUS
  <2>2. Inside /\ Fates  OBVIOUS
  <2> HIDE DEF n
  <2>3. n \in ran  BY <1>2, <2>2, PoolParts
  <2>4. n \notin good \cup bad  BY <1>2, <2>2 DEF Fates, Around
  <2> QED  BY <2>1, <2>2, <2>3, <2>4 DEF Fates
<1>4. Inner = {} /\ Inner' = Inner  BY <1>1, EmptyFacts DEF Once, NoWindow, Inner
<1>5. n \notin Waiting  BY <1>3 DEF Once, Untouched, Taken
<1>6. Settles /\ Failing'  BY <1>1, FailingLoop DEF Settles
<1> HIDE DEF n
<1>7. CASE r.ok /\ Settle(n, <<>>)
  <2>1. /\ Complete(n, <<>>) /\ good' = good \cup {n} /\ UNCHANGED <<cancelled, bad>>
    BY <1>7 DEF Settle
  <2>2. completed' = completed \cup {n}  BY <2>1 DEF Complete
  <2>3. \A x \in Entries(ready') : x \notin bad  BY <1>3, <2>1, CompleteAround, EmptyFacts
  <2>4. Around' \cap bad = {} /\ InFlight' \cap good' = {}
    BY <1>1, <1>2, <1>4, <2>1, <2>3 DEF Around, Waiting, Fates
  <2> QED  BY <1>1, <1>2, <1>3, <1>6, <2>1, <2>2, <2>4, FateGood
<1>8. CASE ~r.ok /\ FailSoft(n)
  <2>1. /\ cancelled' = cancelled \cup Cascade({n}, cancelled) /\ bad' = bad \cup {n}
        /\ Complete(n, <<>>) /\ UNCHANGED good
    BY <1>8 DEF FailSoft, ConeOfTest
  <2>2. completed \subseteq completed'  BY <2>1 DEF Complete
  <2>3. \A x \in Entries(ready') : x \notin bad /\ x # n
    BY <1>3, <2>1, CompleteAround, EmptyFacts
  <2>4. Around' \cap bad' = {} /\ InFlight' \cap good = {}
    BY <1>1, <1>2, <1>4, <1>5, <2>1, <2>3 DEF Around, Waiting, Fates
  <2> QED  BY <1>1, <1>2, <1>3, <1>6, <2>1, <2>2, <2>4, FateBadAlone
<1>9. CASE ~r.ok /\ FailHard(n) /\ UNCHANGED ready
  <2>1. /\ cancelled' = cancelled \cup Cascade({n}, cancelled) /\ bad' = bad \cup {n}
        /\ UNCHANGED <<completed, good, ready>>
    BY <1>9 DEF FailHard
  <2>2. Waiting' = Waiting  BY <1>1, <2>1 DEF Waiting
  <2>3. Around' \cap bad' = {} /\ InFlight' \cap good = {}
    BY <1>2, <1>4, <1>5, <2>1, <2>2 DEF Around, Fates
  <2> QED  BY <1>1, <1>2, <1>3, <1>6, <2>1, <2>3, FateBadAlone
<1> QED  BY <1>7, <1>8, <1>9 DEF Receive, n

(* The window. *)

LEMMA OpenWindowChain ==
  ASSUME Chain, OnceInv', NEW n \in Node, OpenWindow(n) PROVE Goal
<1> USE DEF Chain, OnceInv, Goal
<1>1. /\ interactive # <<>> /\ n = Head(interactive) /\ n \notin cancelled /\ terminal = None
      /\ interactive' = Tail(interactive) /\ phase' = "gather"
      /\ window' = [members |-> <<n>>, at |-> 1, failed |-> 0]
      /\ UNCHANGED <<plan, pool, outcome, terminal, ready, ran>>
  BY DEF OpenWindow, AtHead
<1>2. /\ n \in Entries(interactive) /\ Entries(interactive') \subseteq Entries(interactive)
  BY <1>1, HeadOnce
<1>3. window'.members = <<n>> /\ window'.failed = 0  BY <1>1
<1>4. Len(<<n>>) = 1 /\ <<n>>[1] = n  OBVIOUS
<1>5. Inner' = {n}  BY <1>3, <1>4 DEF Inner, Entries
<1>6. Apart' /\ InFlight' = InFlight  BY <1>1, PoolKept
<1>7. Around' \subseteq Around  BY <1>1, <1>2, <1>5, <1>6 DEF Around, Waiting
<1>8. Failing'  BY <1>1, <1>3, <1>4 DEF Failing, outcome
<1>9. Settles  BY <1>1 DEF Settles
<1> QED  BY <1>1, <1>6, <1>7, <1>8, <1>9, FateSame DEF Fates, outcome

LEMMA JoinChain ==
  ASSUME Chain, OnceInv', NEW m \in Node, m \notin bad, phase = "gather",
         Entries(interactive') \subseteq Entries(interactive),
         window' = [window EXCEPT !.members = Append(@, m)],
         UNCHANGED <<plan, pool, outcome, ready, phase, terminal, ran>>
  PROVE  Goal
<1> USE DEF Chain, OnceInv, Goal
<1> DEFINE s == window.members
           t == Append(s, m)
<1>1. /\ s \in Seq(Node) /\ Len(s) \in Nat /\ Len(s) >= 1 /\ window.failed = 0
      /\ window \in [members : Seq(Node), at : Nat, failed : Nat] /\ terminal = None
  BY WindowTypes DEF Once, Inside, WindowOK, DriveTypeOK
<1>2. window'.members = t /\ window'.failed = 0  BY <1>1
<1>3. Entries(t) = Entries(s) \cup {m} /\ t[1] = s[1]
  BY <1>1, AppendEntries, AppendProperties
<1> HIDE DEF t
<1>4. Inner' = Inner \cup {m}  BY <1>2, <1>3 DEF Inner
<1>5. Apart' /\ InFlight' = InFlight  BY PoolKept
<1>6. Around' \cap bad = {}  BY <1>4, <1>5 DEF Around, Waiting, Fates
<1>7. Failing'  BY <1>2, <1>3 DEF Failing, outcome
<1>8. Settles  BY <1>1 DEF Settles
<1> QED  BY <1>5, <1>6, <1>7, <1>8, FateSame DEF Fates, outcome

LEMMA GatherChain == ASSUME Chain, OnceInv', Gather PROVE Goal
<1> USE DEF Chain, OnceInv
<1> DEFINE m == Head(interactive)
<1>1. /\ phase = "gather" /\ interactive # <<>> /\ interactive' = Tail(interactive)
      /\ window' = [window EXCEPT !.members = Append(@, m)]
      /\ UNCHANGED <<plan, pool, outcome, ready, phase, terminal, ran>>
  BY DEF Gather, CanGather
<1>2. /\ m \in Node /\ m \in Entries(interactive)
      /\ Entries(interactive') \subseteq Entries(interactive)
  BY <1>1, HeadOnce
<1>3. m \notin bad  BY <1>2 DEF Fates, Around, Waiting
<1> HIDE DEF m
<1> QED  BY <1>1, <1>2, <1>3, JoinChain

LEMMA ExtendChain == ASSUME Chain, OnceInv', NEW m \in Node, Extend(m) PROVE Goal
<1>1. /\ phase = "gather" /\ Follows(m)
      /\ window' = [window EXCEPT !.members = Append(@, m)]
      /\ UNCHANGED <<plan, pool, outcome, interactive, ready, phase, terminal, ran>>
  BY DEF Extend
<1>2. m \notin bad  BY <1>1 DEF Follows, Chain, Fates
<1> QED  BY <1>1, <1>2, JoinChain

LEMMA StartWindowChain ==
  ASSUME Chain, OnceInv', NEW ok \in BOOLEAN, StartWindow(ok) PROVE Goal
<1> USE DEF Chain, OnceInv, Goal
<1>1. /\ phase = "gather" /\ phase' = "window"
      /\ window' = [window EXCEPT !.failed = IF ok THEN 0 ELSE 1]
      /\ UNCHANGED <<plan, pool, outcome, interactive, terminal, ready, ran>>
  BY DEF StartWindow
<1>2. /\ window \in [members : Seq(Node), at : Nat, failed : Nat] /\ terminal = None
      /\ window.at = 1 /\ window.failed = 0 /\ Len(window.members) >= 1
      /\ pending = 0 /\ ready = <<>>
  BY <1>1 DEF Inside, DriveTypeOK, WindowOK, Once, Quiet
<1>3. window'.members = window.members /\ window'.at = 1 /\ window'.failed \in {0, 1}
  BY <1>1, <1>2
<1> DEFINE m == window.members[1]
<1>4. 1 \in 1 .. Len(window.members)  BY <1>2, WindowTypes
<1>5. m \in Node /\ m \in Inner /\ m \notin Taken
  BY <1>2, <1>4, WindowTypes DEF Once, Untouched
<1>6. m \notin cancelled /\ m \notin bad /\ m \notin good
  BY <1>1, <1>5 DEF Failing, Fates, Around, Taken
<1>7. deps[m] \subseteq completed  BY <1>4 DEF Inside, WindowOK
<1>8. deps[m] \subseteq good  BY <1>5, <1>6, <1>7, MayStart
<1> HIDE DEF m
<1>9. Failing'
  BY <1>1, <1>2, <1>3, <1>6, <1>8 DEF Failing, m, outcome, plan, pool
<1>10. Apart' /\ InFlight' = InFlight  BY <1>1, PoolKept
<1>11. Around' = Around  BY <1>1, <1>3, <1>10 DEF Around, Waiting, Inner
<1>12. Settles  BY <1>1, <1>2 DEF Settles
<1> QED  BY <1>1, <1>9, <1>10, <1>11, <1>12, FateSame DEF Fates, outcome

LEMMA SkipStepChain ==
  ASSUME Chain, OnceInv', NEW n \in Node, SkipStep(n) PROVE Goal
<1> USE DEF Chain, OnceInv, Goal
<1>1. /\ phase = "window" /\ window.failed = 0 /\ terminal = None
      /\ window' = [window EXCEPT !.at = @ + 1]
      /\ UNCHANGED <<plan, pool, outcome, interactive, terminal, phase, ready, ran>>
  BY DEF SkipStep, AtStep, InWindow
<1>2. window \in [members : Seq(Node), at : Nat, failed : Nat]  BY DEF Inside, DriveTypeOK
<1>3. window'.members = window.members /\ window'.failed = 0  BY <1>1, <1>2
<1>4. Failing'  BY <1>1, <1>3 DEF Failing
<1>5. Apart' /\ InFlight' = InFlight  BY <1>1, PoolKept
<1>6. Around' = Around  BY <1>1, <1>3, <1>5 DEF Around, Waiting, Inner
<1>7. Settles  BY <1>1 DEF Settles
<1> QED  BY <1>1, <1>4, <1>5, <1>6, <1>7, FateSame DEF Fates, outcome

LEMMA StartStepChain ==
  ASSUME Chain, OnceInv', NEW n \in Node, StartStep(n) PROVE Goal
<1> USE DEF Chain, OnceInv, Goal
<1>1. /\ AtStep(n) /\ n \notin cancelled /\ terminal' = n /\ ran' = ran \cup {n}
      /\ phase = "window" /\ terminal = None /\ window.failed = 0
      /\ UNCHANGED <<plan, outcome, interactive, window, phase, ready, busy, results>>
      /\ IF kind[n] = "choreLua" THEN queue' = Append(queue, n) ELSE queue' = queue
  BY DEF StartStep, AtStep, InWindow, Submit
<1>2. window.at \in 1 .. Len(window.members) /\ n = window.members[window.at]
  BY <1>1, WindowTypes DEF AtStep
<1>3. n \in Inner /\ n \notin Taken  BY <1>1, <1>2, WindowTypes DEF Once, Untouched
<1>4. n \notin bad /\ n \notin ran \cup good /\ n \notin InFlight
  BY <1>3, PoolParts DEF Fates, Around, Taken
<1>5. deps[n] \subseteq good  BY <1>1, StepMayStart, MayStart
<1>6. Apart' /\ InFlight' \subseteq InFlight \cup {n}
  <2>1. CASE kind[n] = "choreLua"
    <3>1. queue' = Append(queue, n) /\ UNCHANGED <<busy, results>>  BY <1>1, <2>1
    <3> QED  BY <1>4, <3>1, SubmitApart
  <2>2. CASE kind[n] # "choreLua"
    <3>1. UNCHANGED <<queue, busy, results>>  BY <1>1, <2>2
    <3>2. InQueue' = InQueue /\ Executing' = Executing /\ InChannel' = InChannel
      BY <3>1 DEF InQueue, Executing, InChannel
    <3>3. Distinct(queue')  BY <3>1 DEF Apart
    <3> QED  BY <3>1, <3>2, <3>3 DEF Apart, InFlight
  <2> QED  BY <2>1, <2>2
<1>7. Around' \subseteq Around  BY <1>1, <1>3, <1>6 DEF Around, Waiting, Inner
<1>8. Around' \cap bad = {} /\ InFlight' \cap good = {}  BY <1>4, <1>6, <1>7 DEF Fates
<1>9. Failing'  BY <1>1 DEF Failing
<1>10. Settles  BY <1>1, <1>4 DEF Settles, outcome
<1> QED  BY <1>1, <1>4, <1>5, <1>6, <1>8, <1>9, <1>10, FateStart DEF outcome

LEMMA StepEndsChain ==
  ASSUME Chain, OnceInv', phase = "window", terminal # None, UNCHANGED pending,
         Apart', InFlight' \subseteq InFlight, terminal \notin InFlight',
         NEW ok \in BOOLEAN, StepEnds(ok)
  PROVE  Goal
<1> USE DEF Chain, OnceInv, Goal
<1> DEFINE n == terminal
<1>1. /\ terminal' = None /\ UNCHANGED <<plan, interactive, phase, ran, cancelled, bad>>
      /\ window \in [members : Seq(Node), at : Nat, failed : Nat]
      /\ pending = 0 /\ ready = <<>> /\ window.failed = 0
  BY DEF StepEnds, Quiet, Failing, Inside, DriveTypeOK
<1>2. /\ n \in Node /\ n \in ran /\ n \notin good \cup bad /\ n \notin cancelled
      /\ deps[n] \subseteq good
      /\ window.at \in 1 .. Len(window.members) /\ n = window.members[window.at]
  BY WindowTypes DEF Inside, DriveTypeOK, HandedOK, WindowOK, Fates
<1>3. Settles  BY <1>1 DEF Settles
<1> HIDE DEF n
<1>4. CASE ok
  <2>1. /\ window' = [window EXCEPT !.at = @ + 1]
        /\ completed' = completed \cup {n} /\ good' = good \cup {n}
    BY <1>4 DEF StepEnds, n
  <2>2. PICK s \in Listings(Released(n) \ Members) : ready' = s  BY <1>4 DEF StepEnds, n
  <2>3. Released(n) \ Members \in SUBSET Node  BY DEF Released, Dependents
  <2>4. Entries(ready') \subseteq Released(n)  BY <2>2, <2>3, ListingEntries
  <2>5. \A x \in Released(n) : x \notin bad  BY DEF Released, Dependents, Fates
  <2>6. window'.members = window.members /\ window'.failed = 0  BY <1>1, <2>1
  <2>7. Around' \cap bad = {}
    BY <1>1, <2>4, <2>5, <2>6 DEF Around, Waiting, Inner, Fates
  <2>8. InFlight' \cap good' = {}  BY <2>1 DEF Fates, n
  <2>9. Failing'  BY <1>1, <2>6 DEF Failing
  <2> QED  BY <1>1, <1>2, <1>3, <2>1, <2>7, <2>8, <2>9, FateGood
<1>5. CASE ~ok
  <2>1. window' = [window EXCEPT !.failed = window.at] /\ UNCHANGED <<completed, good, ready>>
    BY <1>5 DEF StepEnds
  <2>2. /\ window'.members = window.members /\ window'.failed = window.at
        /\ window'.at = window.at
    BY <1>1, <2>1
  <2>3. Around' \subseteq Around  BY <1>1, <2>1, <2>2 DEF Around, Waiting, Inner
  <2>4. Failing'  BY <1>1, <1>2, <2>1, <2>2 DEF Failing, plan
  <2> QED  BY <1>1, <1>3, <2>1, <2>3, <2>4, FateSame DEF Fates
<1> QED  BY <1>4, <1>5

LEMMA EndStepChain ==
  ASSUME Chain, OnceInv', NEW ok \in BOOLEAN, EndShellStep(ok) \/ EndLuaStep PROVE Goal
<1> USE DEF Chain, OnceInv
<1>1. CASE EndShellStep(ok)
  <2>1. /\ phase = "window" /\ terminal # None /\ kind[terminal] # "choreLua" /\ StepEnds(ok)
        /\ UNCHANGED pool
    BY <1>1 DEF EndShellStep
  <2>2. InFlight = {}  BY <2>1 DEF TerminalAlone, AwaitsLua
  <2>3. Apart' /\ InFlight' = InFlight  BY <2>1, PoolKept
  <2>4. UNCHANGED pending  BY <2>1 DEF pool
  <2> QED  BY <2>1, <2>2, <2>3, <2>4, StepEndsChain
<1>2. CASE EndLuaStep
  <2>1. /\ phase = "window" /\ terminal # None /\ kind[terminal] = "choreLua" /\ results # <<>>
        /\ StepEnds(Head(results).ok) /\ results' = Tail(results)
        /\ UNCHANGED <<queue, busy, pending>>
    BY <1>2 DEF EndLuaStep
  <2>2. /\ Apart' /\ InFlight' \subseteq InFlight
        /\ Head(results).node \in InFlight /\ Head(results).node \notin InFlight'
    BY <2>1, ReceiveApart
  <2>3. Head(results).node = terminal  BY <2>1, <2>2 DEF TerminalAlone, AwaitsLua
  <2>4. Head(results).ok \in BOOLEAN  BY <2>1, ResultsTail DEF Inside
  <2> QED  BY <2>1, <2>2, <2>3, <2>4, StepEndsChain
<1> QED  BY <1>1, <1>2

LEMMA CloseWindowChain ==
  ASSUME Chain, OnceInv', ~DrainMayFail, NEW survives \in BOOLEAN, CloseWindow(survives)
  PROVE  Goal
<1> USE DEF Chain, OnceInv, Goal
<1> DEFINE last == Len(window.members)
           k == window.failed
           Between(i, j) == {window.members[x] : x \in i .. j}
           n == window.members[k]
           tail == Between(k + 1, last)
<1>1. /\ phase = "window" /\ phase' = "loop" /\ window' = NoWindow /\ terminal = None
      /\ terminal' = None /\ ~survives
      /\ UNCHANGED <<plan, pool, interactive, completed, ready, ran>>
  BY DEF CloseWindow, InWindow
<1>2. window'.members = <<>>  BY <1>1 DEF NoWindow
<1>3. Inner' = {}  BY <1>2, EmptyFacts DEF Inner
<1>4. Apart' /\ InFlight' = InFlight /\ Failing' /\ Settles /\ Waiting' = Waiting
  BY <1>1, PoolKept, FailingLoop DEF Settles, Waiting
<1>5. Around' \subseteq Around  BY <1>3, <1>4 DEF Around
<1>6. CASE k = 0
  <2>1. UNCHANGED <<cancelled, good, bad>>  BY <1>1, <1>6 DEF CloseWindow
  <2> QED  BY <1>1, <1>4, <1>5, <2>1, FateSame DEF Fates
<1>7. CASE k # 0
  <2>1. /\ cancelled' = cancelled \cup (tail \ cancelled)
                          \cup Cascade(Between(k, last), cancelled \cup (tail \ cancelled))
        /\ good' = good \ {n} /\ bad' = bad \cup {n}
    BY <1>1, <1>7 DEF CloseWindow
  <2>2. /\ last \in Nat /\ k \in 1 .. last /\ k = window.at
        /\ \A j \in 1 .. last : window.members[j] \in Node /\ window.members[j] \in Inner
    BY <1>7, WindowTypes DEF Inside, WindowOK, Failing
  <2>3. /\ n \notin cancelled \cup good \cup bad /\ deps[n] \subseteq good
        /\ pending = 0 /\ ready = <<>> /\ n \in Node /\ n \in Inner
    BY <1>7, <2>2 DEF Failing
  <2>4. InFlight = {}  BY <1>1, <2>3, NothingInFlight DEF AwaitsLua
  <2>5. \A j \in k + 1 .. last :
          /\ j \in 1 .. last /\ j > window.at /\ j # k
    BY <2>2
  <2>6. \A j \in k + 1 .. last :
          /\ window.members[j] \in Node /\ window.members[j] \in Inner
          /\ window.members[j] \notin Taken /\ window.members[j] # n
    BY <2>2, <2>5 DEF Once, Untouched, AllDistinct, Distinct
  <2>7. /\ tail \in SUBSET Node /\ n \notin tail /\ tail \subseteq Inner
        /\ tail \cap (ran \cup good \cup bad) = {}
    BY <2>6 DEF Taken, Fates, Around
  <2>8. Between(k, last) = {n} \cup tail
    <3>1. \A j \in k .. last : j = k \/ j \in k + 1 .. last  BY <2>2
    <3>2. k \in k .. last /\ \A j \in k + 1 .. last : j \in k .. last  BY <2>2
    <3> QED  BY <3>1, <3>2
  <2>9. \A m \in tail : IsChore(m) /\ IsChore(n) /\ recipe[m] = recipe[n]
    BY <2>3, <2>7 DEF KindsOK
  <2> DEFINE left == tail \ cancelled
  <2> HIDE DEF tail, n, k
  <2>10. left \in SUBSET Node /\ UNCHANGED good  BY <2>1, <2>3, <2>7
  <2>11. cancelled' = cancelled \cup left \cup Cascade({n} \cup tail, cancelled \cup left)
    BY <2>1, <2>8
  <2>12. Around' = Waiting /\ n \notin Waiting
    BY <1>3, <1>4, <2>3, <2>4 DEF Around, Once, AllDistinct
  <2>13. Around' \cap bad' = {} /\ InFlight' \cap good = {}
    BY <1>4, <1>5, <2>1, <2>12 DEF Fates
  <2> QED  BY <1>1, <1>4, <2>1, <2>3, <2>7, <2>9, <2>10, <2>11, <2>13, FateBad
<1> QED  BY <1>6, <1>7

LEMMA NextChain == ASSUME Chain, OnceInv', ~DrainMayFail, [Next]_vars PROVE Goal
<1>1. CASE ProcessReady  BY <1>1, ProcessReadyChain
<1>2. CASE Interact  BY <1>2, InteractChain
<1>3. CASE \E n \in Node : OpenWindow(n) \/ Extend(n) \/ SkipStep(n) \/ StartStep(n)
  BY <1>3, OpenWindowChain, ExtendChain, SkipStepChain, StartStepChain
<1>4. CASE \E ok \in BOOLEAN : StartWindow(ok) \/ EndShellStep(ok) \/ CloseWindow(ok)
  BY <1>4, StartWindowChain, EndStepChain, CloseWindowChain
<1>5. CASE EndLuaStep
  <2>1. TRUE \in BOOLEAN  OBVIOUS
  <2> QED  BY <1>5, <2>1, EndStepChain
<1>6. CASE Gather  BY <1>6, GatherChain
<1>7. ASSUME NEW n \in Node, NEW ok \in BOOLEAN, Receive([node |-> n, ok |-> ok]) PROVE Goal
  <2>1. [node |-> n, ok |-> ok] \in [node : Node, ok : BOOLEAN]  OBVIOUS
  <2> QED  BY <1>7, <2>1, ReceiveChain
<1>8. ASSUME NEW w \in Workers, Worker(w) PROVE Goal  BY <1>8, WorkerChain
<1>9. CASE Stop \/ UNCHANGED vars
  <2> USE DEF Chain, OnceInv, Goal
  <2>1. UNCHANGED <<plan, pool, outcome, interactive, window, terminal, ready, ran>>
    BY <1>9 DEF Stop, vars, drive
  <2>2. Apart' /\ InFlight' = InFlight  BY <2>1, PoolKept
  <2>3. Around' = Around  BY <2>1, <2>2 DEF Around, Waiting, Inner
  <2>4. Settles  BY <2>1 DEF Settles, Fates, outcome
  <2>5. Failing'
    <3>1. CASE Stop
      <4>1. phase' = "done"  BY <3>1 DEF Stop
      <4> QED  BY <4>1, FailingLoop
    <3>2. CASE UNCHANGED vars  BY <3>2 DEF vars, drive, pool, outcome, plan, Failing
    <3> QED  BY <1>9, <3>1, <3>2
  <2> QED  BY <2>1, <2>2, <2>3, <2>4, <2>5, FateSame DEF Fates, outcome
<1> QED  BY <1>1, <1>2, <1>3, <1>4, <1>5, <1>6, <1>7, <1>8, <1>9 DEF Next, MainThread, Window

LEMMA InitChain == ASSUME Init PROVE Apart /\ Fates /\ Failing /\ Contract!Init
<1>1. /\ queue = <<>> /\ results = <<>> /\ busy = [w \in Workers |-> None]
      /\ good = {} /\ bad = {} /\ ran = {} /\ completed = {} /\ cancelled = {}
      /\ terminal = None /\ phase = "loop" /\ window = NoWindow
  BY DEF Init
<1>2. InQueue = {} /\ InChannel = {} /\ Executing = {}
  BY <1>1 DEF InQueue, InChannel, Executing
<1>3. Len(queue) = 0 /\ Len(results) = 0 /\ window.failed = 0  BY <1>1 DEF NoWindow
<1>4. Apart  BY <1>1, <1>2, <1>3 DEF Apart, Distinct
<1>5. Fates /\ Failing  BY <1>1, <1>2, <1>3 DEF Fates, Failing, InFlight
<1>6. PlanTypeOK  BY InitInside DEF Inside
<1>7. Contract!Init  BY <1>1, <1>6 DEF Contract!Init, PlanTypeOK
<1> QED  BY <1>4, <1>5, <1>7

(* Seen through the fates of its units the executor does what the contract   *)
(* says, whatever the plan and the number of workers: a unit starts after    *)
(* all it depends on succeeded, ends once, and a failure blocks exactly what *)
(* is downstream of it in the step that fails.  The one thing set aside is a *)
(* process group that survives its drain, which takes back the success of a  *)
(* chore's last step after its dependents were released.                     *)
THEOREM ImplementsContractCorrect == ~DrainMayFail => (Spec => ImplementsContract)
<1> SUFFICES ASSUME ~DrainMayFail PROVE Spec => ImplementsContract
  OBVIOUS
<1>1. Init => FromPlan /\ Quiet
  <2> SUFFICES ASSUME Init PROVE FromPlan /\ Quiet
    OBVIOUS
  <2>1. FromPlan  BY DEF Init, FromPlan
  <2>2. terminal = None /\ phase = "loop"  BY DEF Init
  <2> QED  BY <2>1, <2>2 DEF Quiet
<1>2. Init => Apart /\ Fates /\ Failing /\ Contract!Init  BY InitChain
<1>3. OnceInv /\ OnceInv' /\ FromPlan /\ Quiet /\ [Next]_vars => FromPlan' /\ Quiet'
  BY NextQuiet DEF OnceInv
<1>4. OnceInv /\ OnceInv' /\ FromPlan /\ Quiet /\ PendingExact /\ TerminalAlone
        /\ Apart /\ Fates /\ Failing /\ [Next]_vars
      => Apart' /\ Fates' /\ Failing' /\ [Contract!Next]_(Contract!vars)
  BY NextChain DEF Chain, Goal, FateStep
<1> QED
  BY <1>1, <1>2, <1>3, <1>4, OnceInvariance, PendingExactCorrect, TerminalAloneCorrect, PTL
  DEF Spec, ImplementsContract, Contract!Spec
----------------------------------------------------------------------------
(* What the run tells.  Forgotten nothing: a unit that has no end waits, is  *)
(* in the window, runs, or still has a dependency to come.  The books count  *)
(* a unit when it ends, a step of a chore when the window closes.            *)
Ends == good \cup bad \cup cancelled
Unready == {m \in Node : ~(deps[m] \subseteq completed)}

Unforgotten == \A n \in Node : n \in Ends \cup Around \cup {terminal} \cup Unready

(* The row of a test is what became of it. *)
RowsOK ==
  \A n \in Node : kind[n] = "test" =>
    /\ n \in cancelled => rows[n] = <<"blocked">>
    /\ n \in bad => rows[n] = <<"failed">>
    /\ n \in good => rows[n] \in {<<"cached">>, <<"passed">>}
    /\ n \notin Ends => rows[n] = <<>>

(* Nothing queued for the terminal is cancelled; what is cancelled has a     *)
(* dependency that failed or was cancelled, or was the rest of a window and  *)
(* waits for nothing; what is completed and failed is a test.                *)
Cleared == Entries(interactive) \cap cancelled = {}

Caused ==
  \A m \in cancelled : deps[m] \cap (bad \cup cancelled) # {} \/ deps[m] \subseteq Ends

SoftOK == \A d \in bad \cap completed : kind[d] = "test"

(* What comes before and after a unit.  When a step of a chore waits for a   *)
(* test, every unit of the chore comes before that step or after that test,  *)
(* as it is when the units of the body follow one another; a step group of a *)
(* Lua chore can have a unit that does neither.                              *)
Upstream(p, m) ==
  {k \in Node : \A D \in SUBSET Node :
     p.deps[m] \subseteq D /\ (\A x \in D : p.deps[x] \subseteq D) => k \in D}
Downstream(p, d) ==
  {k \in Node : \A C \in SUBSET Node :
     (\A x \in Node : p.deps[x] \cap ({d} \cup C) # {} => x \in C) => k \in C}
StepsInOrder ==
  \A p \in Plans : \A m \in Node : \A d \in p.deps[m] :
    m \in ChoreWith(p, m) /\ p.kind[d] = "test" =>
      \A k \in Node : p.recipe[k] = p.recipe[m] => k \in Upstream(p, m) \cup Downstream(p, d)

(* Then a window with a cancelled step holds all that is left of the chore.  *)
WindowLast ==
  StepsInOrder => \A m \in Inner \cap cancelled : InRecipe(Node, recipe[m]) \subseteq Inner \cup Ends

(* The books of a recipe, when the units of E are counted, those of F failed *)
(* and those of C are skipped.  A cancelled step that is in a window is      *)
(* counted again when the window closes; with the steps in order nothing of  *)
(* the chore is left then, so as long as something is left (W, the units     *)
(* counted when the step of the scheduler is over, lacks a unit) no count    *)
(* runs ahead.                                                               *)
Chorefree(r) == \A n \in InRecipe(Node, r) : ~IsChore(n)
Behind(r, E) == StepsInOrder /\ ~(InRecipe(Node, r) \subseteq E)

TallyOf(b, r, W, E, F, C) ==
  /\ b.verdicts # <<>> <=> b.done >= Total(r) /\ Total(r) > 0
  /\ Len(b.verdicts) <= 1
  /\ b.failed <=> InRecipe(F, r) # {}
  /\ b.skipped > 0 => InRecipe(C, r) # {}
  /\ Behind(r, W) => b.done <= Cardinality(InRecipe(E, r))
  /\ Chorefree(r) =>
       /\ b.done = Cardinality(InRecipe(E, r))
       /\ b.verdicts # <<>> => b.verdicts[1] = Verdict(b.failed, b.skipped)

Counted == Ends \ (Inner \cap good)

Tally == \A r \in Recipes : TallyOf(book[r], r, Counted, Counted, failures, cancelled)

(* No test has the terminal, and nothing is left over when the run stops. *)
Sober ==
  /\ terminal # None => kind[terminal] # "test"
  /\ phase = "done" => pending = 0 /\ ready = <<>> /\ interactive = <<>> /\ terminal = None

Report == RowsOK /\ Cleared /\ Caused /\ SoftOK /\ WindowLast /\ Tally

Told == Unforgotten /\ Sober /\ Report

(* Completions: all that is released is processed.                           *)
LEMMA ListingOnto ==
  ASSUME NEW S \in SUBSET Node, NEW s \in Listings(S)
  PROVE  Entries(s) = S
<1> DEFINE c == Cardinality(S)
<1>1. c \in Nat /\ IsFiniteSet(S) /\ s \in [1 .. c -> S]  BY CountNodes, NodeFacts, FS_Subset DEF Listings
<1>2. Len(s) = c /\ Entries(s) \subseteq S  BY <1>1, ListingEntries
<1>3. \A i, j \in 1 .. c : i # j => s[i] # s[j]  BY <1>2, ListingDistinct DEF Distinct
<1> HIDE DEF c
<1>4. s \in Injection(1 .. c, S)  BY <1>1, <1>3 DEF Injection, IsInjective
<1>5. IsFiniteSet(1 .. c) /\ Cardinality(1 .. c) = c
  <2>1. 1 \in Int /\ c \in Int  BY <1>1
  <2>2. IsFiniteSet(1 .. c) /\ Cardinality(1 .. c) = IF 1 > c THEN 0 ELSE c - 1 + 1
    BY <2>1, FS_Interval
  <2> QED  BY <1>1, <2>2
<1>6. s \in Surjection(1 .. c, S)  BY <1>1, <1>4, <1>5, FS_Injection DEF c
<1>7. \A x \in S : \E i \in 1 .. c : s[i] = x  BY <1>6 DEF Surjection
<1> QED  BY <1>2, <1>7 DEF Entries

LEMMA ConcatOnto ==
  ASSUME NEW S, NEW s \in Seq(S), NEW t \in Seq(S)
  PROVE  Entries(s \o t) = Entries(s) \cup Entries(t)
<1> DEFINE u == s \o t
<1>1. Len(u) = Len(s) + Len(t)
      /\ \A i \in 1 .. Len(s) + Len(t) : u[i] = IF i <= Len(s) THEN s[i] ELSE t[i - Len(s)]
  BY ConcatProperties
<1>2. Len(s) \in Nat /\ Len(t) \in Nat  BY LenProperties
<1> HIDE DEF u
<1>3. ASSUME NEW i \in 1 .. Len(s) PROVE s[i] \in Entries(u)
  <2>1. i \in 1 .. Len(u) /\ u[i] = s[i]  BY <1>1, <1>2
  <2> QED  BY <2>1 DEF Entries
<1>4. ASSUME NEW i \in 1 .. Len(t) PROVE t[i] \in Entries(u)
  <2>1. /\ i + Len(s) \in 1 .. Len(u) /\ ~(i + Len(s) <= Len(s)) /\ i + Len(s) - Len(s) = i
    BY <1>1, <1>2
  <2>2. u[i + Len(s)] = t[i]  BY <1>1, <2>1
  <2> QED  BY <2>1, <2>2 DEF Entries
<1>5. Entries(s) \cup Entries(t) \subseteq Entries(u)  BY <1>3, <1>4 DEF Entries
<1>6. Entries(u) \subseteq Entries(s) \cup Entries(t)  BY ConcatEntries DEF u
<1> QED  BY <1>5, <1>6 DEF u

LEMMA CompleteReleases ==
  ASSUME PlanTypeOK, NEW n \in Node, n \notin completed, UNCHANGED plan,
         NEW rest \in Seq(Node), Complete(n, rest)
  PROVE  /\ Entries(rest) \subseteq Entries(ready')
         /\ \A m \in Unready : m \in Unready' \/ m \in Entries(ready')
<1>1. PICK s \in Listings(Released(n)) : ready' = s \o rest  BY DEF Complete
<1>2. Released(n) \in SUBSET Node  BY DEF Released, Dependents
<1>3. s \in Seq(Node) /\ Entries(s) = Released(n)  BY <1>1, <1>2, ListingEntries, ListingOnto
<1>4. Entries(ready') = Released(n) \cup Entries(rest)  BY <1>1, <1>3, ConcatOnto
<1>5. ASSUME NEW m \in Unready, m \notin Unready' PROVE m \in Released(n)
  <2>1. completed' = completed \cup {n}  BY DEF Complete
  <2>2. deps[m] \ completed = {n} /\ m \in Node  BY <1>5, <2>1 DEF Unready, plan
  <2> QED  BY <2>2 DEF Released, Dependents
<1> QED  BY <1>4, <1>5

(* Cascades.  Nothing in them has started, waits or has an end; each has a   *)
(* dependency that makes it part of the cascade.                             *)
LEMMA CascadeFacts ==
  ASSUME PlanTypeOK, NEW S \in SUBSET Node, NEW out \in SUBSET Node
  PROVE  /\ Cascade(S, out) \in SUBSET Node /\ Cascade(S, out) \cap out = {}
         /\ \A m \in Cascade(S, out) : deps[m] \cap (S \cup Cascade(S, out)) # {}
<1> DEFINE K == Cascade(S, out)
           C == {m \in K : deps[m] \cap (S \cup K) # {}}
<1>1. K \in SUBSET Node /\ \A m \in S \cup K : Dependents(m) \subseteq out \cup K
  BY CascadeCloses
<1>2. C \in SUBSET Node  BY <1>1
<1>3. ASSUME NEW k \in Node \ out, deps[k] \cap (S \cup C) # {} PROVE k \in C
  <2>1. PICK d \in deps[k] : d \in S \cup K  BY <1>3
  <2>2. k \in Dependents(d)  BY <2>1 DEF Dependents
  <2> QED  BY <1>1, <2>1, <2>2
<1>4. K \subseteq C
  <2> HIDE DEF C
  <2> QED  BY <1>2, <1>3 DEF Cascade
<1>5. K \subseteq Node \ out
  <2>1. Node \ out \in SUBSET Node
        /\ \A k \in Node \ out : deps[k] \cap (S \cup (Node \ out)) # {} => k \in Node \ out
    OBVIOUS
  <2> QED  BY <2>1 DEF Cascade
<1> QED  BY <1>1, <1>4, <1>5

LEMMA CascadeUnready ==
  ASSUME Inside, Fates, NEW S \in SUBSET Node, S \cap completed = {}, NEW out \in SUBSET Node
  PROVE  /\ Cascade(S, out) \subseteq Unready
         /\ Cascade(S, out) \cap (ran \cup good \cup bad \cup completed \cup Waiting) = {}
<1> USE DEF Inside
<1>1. ASSUME NEW d \in Unready, d \in completed \cup ran \cup good \cup bad \cup Waiting PROVE FALSE
  BY <1>1 DEF Unready, FateOK, CompletedOK, Fates, QueuedOK, Waiting
<1>2. ASSUME NEW k \in Node \ out, deps[k] \cap (S \cup Unready) # {} PROVE k \in Unready
  BY <1>1, <1>2 DEF Unready
<1>3. Cascade(S, out) \subseteq Unready
  <2>1. Unready \in SUBSET Node  BY DEF Unready
  <2> QED  BY <1>2, <2>1 DEF Cascade
<1> QED  BY <1>1, <1>3

LEMMA CascadeOutside ==
  ASSUME Inside, Fates, NEW n \in Node, n \notin completed, n \notin Inner, NEW out \in SUBSET Node
  PROVE  Cascade({n}, out) \cap Inner = {}
<1> USE DEF Inside
<1> DEFINE D == Unready \ Inner
<1>1. D \in SUBSET Node  BY DEF Unready
<1>2. ASSUME NEW k \in Node \ out, deps[k] \cap ({n} \cup D) # {} PROVE k \in D
  <2>1. PICK d \in deps[k] : d \in {n} \cup D  BY <1>2
  <2>2. d \notin completed  BY <2>1 DEF Unready, FateOK, CompletedOK, Fates
  <2>3. k \notin Inner
    <3> SUFFICES ASSUME k \in Inner PROVE FALSE
      OBVIOUS
    <3>1. PICK j \in 1 .. Len(window.members) : k = window.members[j]  BY DEF Inner, Entries
    <3>2. j > 1 /\ d = window.members[j - 1]  BY <2>1, <2>2, <3>1 DEF WindowOK
    <3>3. j - 1 \in 1 .. Len(window.members)  BY <3>2, WindowTypes
    <3>4. d \in Inner  BY <3>2, <3>3, WindowTypes
    <3> QED  BY <2>1, <3>4
  <2> QED  BY <2>1, <2>2, <2>3 DEF Unready
<1> HIDE DEF D
<1>3. Cascade({n}, out) \subseteq D  BY <1>1, <1>2 DEF Cascade
<1> QED  BY <1>3 DEF D

(* The books.  A tick of units not counted before keeps them true.           *)
LEMMA InRecipeFacts ==
  ASSUME NEW S \in SUBSET Node, NEW T \in SUBSET Node, NEW r
  PROVE  /\ InRecipe(S, r) \in SUBSET Node /\ IsFiniteSet(InRecipe(S, r))
         /\ Cardinality(InRecipe(S, r)) \in Nat /\ Total(r) \in Nat
         /\ InRecipe(S, r) \subseteq InRecipe(Node, r)
         /\ Cardinality(InRecipe(S, r)) <= Total(r)
         /\ Cardinality(InRecipe(S, r)) = Total(r) => InRecipe(S, r) = InRecipe(Node, r)
         /\ Cardinality(InRecipe(S, r)) > 0 <=> InRecipe(S, r) # {}
         /\ InRecipe(S \cup T, r) = InRecipe(S, r) \cup InRecipe(T, r)
         /\ S \subseteq T => Cardinality(InRecipe(S, r)) <= Cardinality(InRecipe(T, r))
<1>1. \A X \in SUBSET Node : InRecipe(X, r) \in SUBSET Node /\ InRecipe(X, r) \subseteq InRecipe(Node, r)
  BY DEF InRecipe
<1>2. \A X \in SUBSET Node :
        IsFiniteSet(InRecipe(X, r)) /\ Cardinality(InRecipe(X, r)) \in Nat
  <2> SUFFICES ASSUME NEW X \in SUBSET Node
               PROVE  IsFiniteSet(InRecipe(X, r)) /\ Cardinality(InRecipe(X, r)) \in Nat
    OBVIOUS
  <2>1. InRecipe(X, r) \in SUBSET Node  BY <1>1
  <2> QED  BY <2>1, NodeFacts, FS_Subset, CountNodes
<1>3. Node \in SUBSET Node  OBVIOUS
<1>4. /\ Cardinality(InRecipe(S, r)) <= Total(r)
      /\ Cardinality(InRecipe(S, r)) = Total(r) => InRecipe(S, r) = InRecipe(Node, r)
  <2>1. InRecipe(S, r) \in SUBSET InRecipe(Node, r) /\ IsFiniteSet(InRecipe(Node, r))
    BY <1>1, <1>2, <1>3
  <2> QED  BY <2>1, FS_Subset DEF Total
<1>5. Cardinality(InRecipe(S, r)) > 0 <=> InRecipe(S, r) # {}
  BY <1>2, FS_EmptySet
<1>6. InRecipe(S \cup T, r) = InRecipe(S, r) \cup InRecipe(T, r)  BY DEF InRecipe
<1>7. ASSUME S \subseteq T PROVE Cardinality(InRecipe(S, r)) <= Cardinality(InRecipe(T, r))
  <2>1. InRecipe(S, r) \in SUBSET InRecipe(T, r)  BY <1>7 DEF InRecipe
  <2> QED  BY <2>1, <1>2, FS_Subset
<1> QED  BY <1>1, <1>2, <1>3, <1>4, <1>5, <1>6, <1>7 DEF Total

LEMMA AddCounted ==
  ASSUME NEW S \in SUBSET Node, NEW T \in SUBSET Node, NEW r, S \cap InRecipe(T, r) = {}
  PROVE  Cardinality(InRecipe(S \cup T, r)) =
           Cardinality(InRecipe(S, r)) + Cardinality(InRecipe(T, r))
<1> DEFINE A == InRecipe(S, r)
           B == InRecipe(T, r)
<1>1. InRecipe(S \cup T, r) = A \cup B /\ A \cap B = {}  BY DEF InRecipe
<1>2. IsFiniteSet(A) /\ IsFiniteSet(B) /\ Cardinality(A) \in Nat /\ Cardinality(B) \in Nat
  BY InRecipeFacts
<1> SUFFICES Cardinality(A \cup B) = Cardinality(A) + Cardinality(B)
  BY <1>1
<1> HIDE DEF A, B
<1>3. Cardinality(A \cup B) = Cardinality(A) + Cardinality(B) - Cardinality(A \cap B)
  BY <1>2, FS_Union
<1>4. Cardinality(A \cap B) = 0  BY <1>1, FS_EmptySet
<1> QED  BY <1>2, <1>3, <1>4

LEMMA TickTally ==
  ASSUME NEW b \in Books, NEW r \in Recipes, NEW S \in SUBSET Node,
         NEW E \in SUBSET Node, NEW F \in SUBSET Node, NEW C \in SUBSET Node,
         NEW skips \in BOOLEAN, NEW fails \in BOOLEAN, NEW W \in SUBSET Node,
         TallyOf(b[r], r, W, E, F, C), Behind(r, W) \/ Chorefree(r) => E \cap InRecipe(S, r) = {}
  PROVE  TallyOf(Tick(b, S, skips, fails)[r], r, W, E \cup S,
                 IF fails THEN F \cup S ELSE F, IF skips THEN C \cup S ELSE C)
<1> DEFINE c == Cardinality(InRecipe(S, r))
           done == b[r].done + c
           skipped == IF skips THEN b[r].skipped + c ELSE b[r].skipped
           failed == b[r].failed \/ (fails /\ c > 0)
           emits == b[r].done < Total(r) /\ done >= Total(r)
           told == IF emits THEN Append(b[r].verdicts, Verdict(failed, skipped))
                   ELSE b[r].verdicts
           after == Tick(b, S, skips, fails)[r]
           F2 == IF fails THEN F \cup S ELSE F
           C2 == IF skips THEN C \cup S ELSE C
<1>1. /\ after.done = done /\ after.skipped = skipped /\ after.failed = failed
      /\ after.verdicts = told
  BY DEF Tick
<1>2. /\ b[r].done \in Nat /\ b[r].skipped \in Nat /\ b[r].failed \in BOOLEAN
      /\ b[r].verdicts \in Seq({"completed", "skipped", "failed"})
  BY DEF Books
<1>3. /\ c \in Nat /\ Total(r) \in Nat /\ (c > 0 <=> InRecipe(S, r) # {})
      /\ Cardinality(InRecipe(E, r)) \in Nat /\ Cardinality(InRecipe(E \cup S, r)) \in Nat
      /\ Cardinality(InRecipe(E, r)) = Total(r) => InRecipe(E, r) = InRecipe(Node, r)
      /\ Cardinality(InRecipe(E, r)) <= Total(r)
      /\ InRecipe(S, r) \subseteq InRecipe(Node, r)
      /\ InRecipe(F \cup S, r) = InRecipe(F, r) \cup InRecipe(S, r)
      /\ InRecipe(C \cup S, r) = InRecipe(C, r) \cup InRecipe(S, r)
  <2>1. E \cup S \in SUBSET Node  OBVIOUS
  <2>2. \A X \in SUBSET Node : InRecipe(X \cup S, r) = InRecipe(X, r) \cup InRecipe(S, r)
    BY DEF InRecipe
  <2>3. /\ c \in Nat /\ Total(r) \in Nat /\ (c > 0 <=> InRecipe(S, r) # {})
        /\ InRecipe(S, r) \subseteq InRecipe(Node, r)
    BY InRecipeFacts
  <2>4. Cardinality(InRecipe(E \cup S, r)) \in Nat  BY <2>1, InRecipeFacts
  <2>5. /\ Cardinality(InRecipe(E, r)) \in Nat /\ Cardinality(InRecipe(E, r)) <= Total(r)
        /\ Cardinality(InRecipe(E, r)) = Total(r) => InRecipe(E, r) = InRecipe(Node, r)
    BY InRecipeFacts
  <2> QED  BY <2>2, <2>3, <2>4, <2>5
<1>4. Behind(r, W) \/ Chorefree(r) => Cardinality(InRecipe(E \cup S, r)) = Cardinality(InRecipe(E, r)) + c
  <2> SUFFICES ASSUME E \cap InRecipe(S, r) = {}
               PROVE  Cardinality(InRecipe(E \cup S, r)) = Cardinality(InRecipe(E, r)) + c
    OBVIOUS
  <2> QED  BY AddCounted
<1>5. /\ b[r].verdicts # <<>> <=> b[r].done >= Total(r) /\ Total(r) > 0
      /\ Len(b[r].verdicts) <= 1
      /\ b[r].failed <=> InRecipe(F, r) # {}
      /\ b[r].skipped > 0 => InRecipe(C, r) # {}
      /\ Behind(r, W) => b[r].done <= Cardinality(InRecipe(E, r))
      /\ Chorefree(r) =>
           /\ b[r].done = Cardinality(InRecipe(E, r))
           /\ b[r].verdicts # <<>> => b[r].verdicts[1] = Verdict(b[r].failed, b[r].skipped)
  BY DEF TallyOf
<1>6. Verdict(failed, skipped) \in {"completed", "skipped", "failed"}  BY DEF Verdict
<1>7. emits => b[r].verdicts = <<>>  BY <1>2, <1>3, <1>5
<1>8. emits => told = <<Verdict(failed, skipped)>>
  <2>1. \A v : Append(<<>>, v) = <<v>>  OBVIOUS
  <2> QED  BY <1>7, <2>1
<1>9. \A v : <<v>> # <<>> /\ Len(<<v>>) = 1 /\ <<v>>[1] = v  OBVIOUS
<1>10. (told # <<>> <=> done >= Total(r) /\ Total(r) > 0) /\ Len(told) <= 1
  <2>1. CASE emits
    <3>1. told # <<>> /\ Len(told) = 1  BY <1>8, <1>9, <2>1
    <3> QED  BY <1>2, <1>3, <2>1, <3>1
  <2>2. CASE ~emits
    <3>1. told = b[r].verdicts  BY <2>2
    <3> QED  BY <1>2, <1>3, <1>5, <2>2, <3>1
  <2> QED  BY <2>1, <2>2
<1>11. failed <=> InRecipe(F2, r) # {}  BY <1>3, <1>5
<1>12. skipped > 0 => InRecipe(C2, r) # {}
  <2>1. CASE skips
    <3>1. skipped = b[r].skipped + c /\ InRecipe(C2, r) = InRecipe(C, r) \cup InRecipe(S, r)
      BY <1>3, <2>1
    <3>2. b[r].skipped + c > 0 => b[r].skipped > 0 \/ c > 0  BY <1>2, <1>3
    <3> QED  BY <1>3, <1>5, <3>1, <3>2
  <2>2. CASE ~skips  BY <1>5, <2>2
  <2> QED  BY <2>1, <2>2
<1>13. Behind(r, W) => done <= Cardinality(InRecipe(E \cup S, r))  BY <1>2, <1>3, <1>4, <1>5
<1>14. ASSUME Chorefree(r)
       PROVE  /\ done = Cardinality(InRecipe(E \cup S, r))
              /\ told # <<>> => told[1] = Verdict(failed, skipped)
  <2>2. done = Cardinality(InRecipe(E \cup S, r))  BY <1>4, <1>5, <1>14
  <2>3. CASE emits  BY <1>8, <1>9, <2>2, <2>3
  <2>4. CASE ~emits /\ b[r].verdicts # <<>>
    <3>1. b[r].done = Total(r)  BY <1>2, <1>3, <1>5, <1>14, <2>4
    <3>2. InRecipe(E, r) = InRecipe(Node, r)  BY <1>3, <1>5, <1>14, <3>1
    <3>3. InRecipe(S, r) \subseteq E  BY <1>3, <3>2 DEF InRecipe
    <3>4. c = 0  BY <1>3, <1>14, <3>3
    <3>5. failed = b[r].failed /\ skipped = b[r].skipped  BY <1>2, <3>4
    <3> QED  BY <1>5, <1>14, <2>2, <2>4, <3>5
  <2>5. CASE ~emits /\ b[r].verdicts = <<>>  BY <2>2, <2>5
  <2> QED  BY <2>3, <2>4, <2>5
<1> HIDE DEF c, done, skipped, failed, emits, told, after, F2, C2
<1>15. TallyOf(after, r, W, E \cup S, F2, C2)
  BY <1>1, <1>10, <1>11, <1>12, <1>13, <1>14 DEF TallyOf
<1> QED  BY <1>15 DEF after, F2, C2

(* So does counting the steps of a chore without a tick.                     *)
LEMMA WidenTally ==
  ASSUME NEW b, NEW r \in Recipes, NEW W, b.done \in Nat,
         NEW E \in SUBSET Node, NEW F \in SUBSET Node, NEW C \in SUBSET Node,
         NEW E2 \in SUBSET Node, NEW C2 \in SUBSET Node, E \subseteq E2, C \subseteq C2,
         \A n \in E2 \ E : IsChore(n), TallyOf(b, r, W, E, F, C)
  PROVE  TallyOf(b, r, W, E2, F, C2)
<1>1. /\ Cardinality(InRecipe(E, r)) \in Nat /\ Cardinality(InRecipe(E2, r)) \in Nat
      /\ Cardinality(InRecipe(E, r)) <= Cardinality(InRecipe(E2, r))
  BY InRecipeFacts
<1>2. InRecipe(C, r) \subseteq InRecipe(C2, r)  BY DEF InRecipe
<1>3. Chorefree(r) => InRecipe(E2, r) = InRecipe(E, r)  BY DEF Chorefree, InRecipe
<1> QED  BY <1>1, <1>2, <1>3 DEF TallyOf

(* The books after a step, the plan being what it was.                       *)
LEMMA TallyNext ==
  ASSUME UNCHANGED plan,
         \A r \in Recipes :
           TallyOf(book'[r], r, Counted', Counted', failures', cancelled')
  PROVE  Tally'
  BY DEF Tally, TallyOf, InRecipe, Total, Chorefree, Behind, IsChore, plan

LEMMA TallyBefore ==
  ASSUME Tally, NEW r \in Recipes, NEW E, Counted \subseteq E
  PROVE  TallyOf(book[r], r, E, Counted, failures, cancelled)
<1>1. Behind(r, E) => Behind(r, Counted)  BY DEF Behind
<1> QED  BY <1>1 DEF Tally, TallyOf

LEMMA WindowNext ==
  ASSUME WindowLast, UNCHANGED plan, Inner' = Inner, Inner \cap cancelled' \subseteq cancelled,
         Ends \subseteq Ends'
  PROVE  WindowLast'
  BY DEF WindowLast, InRecipe, plan

(* The five ways a step touches the report.                                  *)
LEMMA ReportSame ==
  ASSUME Report, UNCHANGED <<plan, outcome>>, Inner' \cap good = Inner \cap good,
         Entries(interactive') \cap cancelled = {},
         StepsInOrder => \A m \in Inner' \cap cancelled :
                           InRecipe(Node, recipe[m]) \subseteq Inner' \cup Ends
  PROVE  Report'
<1> USE DEF Report, outcome
<1>1. Ends' = Ends /\ Counted' = Counted  BY DEF Ends, Counted
<1>2. \A r \in Recipes :
        TallyOf(book'[r], r, Counted', Counted', failures', cancelled')
  BY <1>1 DEF Tally
<1>3. Tally'  BY <1>2, TallyNext
<1>4. RowsOK' /\ Caused' /\ SoftOK'  BY <1>1 DEF RowsOK, Caused, SoftOK, plan
<1>5. Cleared' /\ WindowLast'
  BY <1>1 DEF Cleared, WindowLast, InRecipe, plan
<1> QED  BY <1>3, <1>4, <1>5

LEMMA BookType ==
  ASSUME Chain
  PROVE  /\ book \in Books /\ PlanTypeOK /\ Counted \in SUBSET Node /\ failures \in SUBSET Node
         /\ cancelled \in SUBSET Node /\ good \in SUBSET Node /\ bad \in SUBSET Node
         /\ completed \in SUBSET Node /\ ran \in SUBSET Node
         /\ rows \in [Node -> Seq(Row)] /\ Ends \in SUBSET Node
         /\ \A n \in Ends \ cancelled : n \notin cancelled /\ deps[n] \subseteq completed
         /\ completed \subseteq Ends /\ completed \cap cancelled = {}
  BY DEF Chain, OnceInv, Inside, FateOK, OutcomeTypeOK, Counted, Ends, Books, Row, Fates, CompletedOK

LEMMA ReportGood ==
  ASSUME Chain, Report, NEW n \in Node, n \notin Ends, n \notin Inner,
         completed' = completed \cup {n}, good' = good \cup {n}, book' = TickOk(book, {n}),
         NEW row \in {"cached", "passed"}, rows' = WithRow(rows, n, row),
         UNCHANGED <<plan, cancelled, bad, failures>>, Inner' = Inner,
         Entries(interactive') \subseteq Entries(interactive)
  PROVE  Report'
<1> USE DEF Report
<1>1. Ends' = Ends \cup {n} /\ Counted' = Counted \cup {n} /\ n \notin Counted
  BY DEF Ends, Counted
<1>2. Tally'
  <2>1. ASSUME NEW r \in Recipes
        PROVE  TallyOf(book'[r], r, Counted', Counted', failures', cancelled')
    <3> DEFINE x == Counted \cup {n}
    <3>1. TallyOf(book[r], r, x, Counted, failures, cancelled)  BY TallyBefore
    <3>2. Counted \cap InRecipe({n}, r) = {}  BY <1>1 DEF InRecipe
    <3>4. x \in SUBSET Node  BY BookType
    <3> HIDE DEF x
    <3>3. TallyOf(Tick(book, {n}, FALSE, FALSE)[r], r, x, Counted \cup {n},
                  IF FALSE THEN failures \cup {n} ELSE failures,
                  IF FALSE THEN cancelled \cup {n} ELSE cancelled)
      BY <3>1, <3>2, <3>4, BookType, TickTally
    <3> QED  BY <1>1, <3>3 DEF TickOk, x
  <2> QED  BY <2>1, TallyNext
<1>3. RowsOK'
  <2>1. ASSUME NEW k \in Node, kind[k] = "test", k # n
        PROVE  rows'[k] = rows[k] /\ (k \in Ends' <=> k \in Ends) /\ (k \in good' <=> k \in good)
    BY <1>1, <2>1, BookType DEF WithRow
  <2>2. ASSUME kind[n] = "test" PROVE rows'[n] = <<row>> /\ n \in good' /\ n \notin bad \cup cancelled
    <3>1. rows[n] = <<>>  BY <2>2 DEF RowsOK
    <3>2. rows'[n] = Append(<<>>, row)  BY <2>2, <3>1, BookType DEF WithRow
    <3>3. Append(<<>>, row) = <<row>>  OBVIOUS
    <3> QED  BY <3>2, <3>3 DEF Ends
  <2> QED  BY <1>1, <2>1, <2>2 DEF RowsOK, plan
<1>4. Cleared' /\ WindowLast'  BY <1>1, WindowNext DEF Cleared
<1>5. Caused'  BY <1>1 DEF Caused, plan
<1>6. SoftOK'  BY DEF SoftOK, Ends, plan
<1> QED  BY <1>2, <1>3, <1>4, <1>5, <1>6

(* A step of the window succeeds: it is counted when the window closes.      *)
LEMMA ReportStep ==
  ASSUME Chain, Report, NEW n \in Inner, n \notin Ends, n \in Node,
         completed' = completed \cup {n}, good' = good \cup {n},
         UNCHANGED <<plan, cancelled, bad, failures, book, rows>>, Inner' = Inner,
         UNCHANGED interactive
  PROVE  Report'
<1> USE DEF Report
<1>1. Ends' = Ends \cup {n} /\ Counted' = Counted  BY DEF Ends, Counted
<1>2. \A r \in Recipes :
        TallyOf(book'[r], r, Counted', Counted', failures', cancelled')
  BY <1>1 DEF Tally
<1>3. Tally'  BY <1>2, TallyNext
<1>4. kind[n] # "test"  BY DEF Chain, OnceInv, KindsOK, IsChore
<1>5. RowsOK'  BY <1>1, <1>4 DEF RowsOK, plan
<1>6. Cleared' /\ WindowLast'  BY <1>1, WindowNext DEF Cleared
<1>7. Caused'  BY <1>1 DEF Caused, plan
<1>8. SoftOK'  BY DEF SoftOK, Ends, plan
<1> QED  BY <1>3, <1>5, <1>6, <1>7, <1>8

(* A failure outside the window, with its cone; a test fails softly.         *)
LEMMA ReportBad ==
  ASSUME Chain, Report, NEW n \in Node, n \notin Ends, n \notin Inner, n \notin completed,
         NEW cone, cone = Cascade({n}, cancelled),
         deps[n] \subseteq completed, NEW hard \in BOOLEAN, hard <=> kind[n] # "test",
         cancelled' = cancelled \cup cone, bad' = bad \cup {n}, good' = good,
         failures' = IF hard THEN failures \cup {n} ELSE failures,
         book' = TickSkipped(Tick(book, {n}, FALSE, hard), cone),
         rows' = BlockedRows(WithRow(rows, n, "failed"), cone),
         completed \subseteq completed', completed' \subseteq completed \cup {n},
         hard => UNCHANGED completed,
         UNCHANGED plan, Inner' = Inner, Entries(interactive') \subseteq Entries(interactive)
  PROVE  Report'
<1> USE DEF Report
<1>1. /\ cone \in SUBSET Node /\ cone \cap cancelled = {} /\ cone \cap Inner = {}
      /\ cone \cap (good \cup bad \cup Waiting) = {}
      /\ \A m \in cone : deps[m] \cap ({n} \cup cone) # {}
  <2>1. Inside /\ Fates /\ {n} \in SUBSET Node /\ {n} \cap completed = {}
        /\ cancelled \in SUBSET Node /\ PlanTypeOK
    BY BookType DEF Chain, OnceInv
  <2>2. cone \in SUBSET Node /\ cone \cap cancelled = {}
        /\ \A m \in cone : deps[m] \cap ({n} \cup cone) # {}
    BY <2>1, CascadeFacts
  <2>3. cone \cap (ran \cup good \cup bad \cup completed \cup Waiting) = {}
    BY <2>1, CascadeUnready
  <2>4. cone \cap Inner = {}  BY <2>1, CascadeOutside
  <2> QED  BY <2>2, <2>3, <2>4
<1>2. n \notin cone
  <2>1. Inside /\ Fates /\ {n} \in SUBSET Node /\ {n} \cap completed = {}
        /\ cancelled \in SUBSET Node
    BY BookType DEF Chain, OnceInv
  <2>2. cone \subseteq Unready  BY <2>1, CascadeUnready
  <2> QED  BY <2>2 DEF Unready
<1>3. /\ Ends' = Ends \cup {n} \cup cone /\ Counted' = Counted \cup {n} \cup cone
      /\ n \notin Counted /\ cone \cap (Counted \cup {n}) = {}
  BY <1>1, <1>2 DEF Ends, Counted
<1>4. Tally'
  <2>1. ASSUME NEW r \in Recipes
        PROVE  TallyOf(book'[r], r, Counted', Counted', failures', cancelled')
    <3> DEFINE b == Tick(book, {n}, FALSE, hard)
               F == IF hard THEN failures \cup {n} ELSE failures
               x == Counted \cup {n} \cup cone
    <3>1. TallyOf(book[r], r, x, Counted, failures, cancelled)  BY TallyBefore
    <3>10. x \in SUBSET Node  BY <1>1, BookType
    <3> HIDE DEF x
    <3>2. Counted \cap InRecipe({n}, r) = {}  BY <1>3 DEF InRecipe
    <3>3. TallyOf(b[r], r, x, Counted \cup {n}, F,
                  IF FALSE THEN cancelled \cup {n} ELSE cancelled)
      BY <3>1, <3>2, <3>10, BookType, TickTally
    <3>4. b \in Books  BY BookType, TickBooks
    <3>5. F \in SUBSET Node /\ Counted \cup {n} \in SUBSET Node  BY BookType
    <3>6. (Counted \cup {n}) \cap InRecipe(cone, r) = {}  BY <1>3 DEF InRecipe
    <3> HIDE DEF b, F
    <3>7. TallyOf(b[r], r, x, Counted \cup {n}, F, cancelled)  BY <3>3
    <3>8. TallyOf(Tick(b, cone, TRUE, FALSE)[r], r, x, (Counted \cup {n}) \cup cone,
                  IF FALSE THEN F \cup cone ELSE F,
                  IF TRUE THEN cancelled \cup cone ELSE cancelled)
      BY <1>1, <3>4, <3>5, <3>6, <3>7, <3>10, BookType, TickTally
    <3>9. book' = Tick(b, cone, TRUE, FALSE) /\ failures' = F  BY DEF TickSkipped, b, F
    <3> QED  BY <1>3, <3>8, <3>9 DEF x
  <2> QED  BY <2>1, TallyNext
<1>5. RowsOK'
  <2> DEFINE R == WithRow(rows, n, "failed")
  <2>1. R \in [Node -> Seq(Row)]  BY BookType, RowTypes DEF Row
  <2>2. ASSUME NEW k \in Node, kind[k] = "test" PROVE R[k] = IF k = n THEN <<"failed">> ELSE rows[k]
    <3>1. Append(<<>>, "failed") = <<"failed">>  OBVIOUS
    <3>2. kind[n] = "test" => rows[n] = <<>>  BY DEF RowsOK
    <3> QED  BY <2>2, <3>1, <3>2, BookType DEF WithRow
  <2>3. \A k \in cone : kind[k] = "test" => R[k] = <<>>
    BY <1>1, <1>2, <2>2 DEF RowsOK, Ends
  <2>6. rows' = BlockedRows(R, cone)  OBVIOUS
  <2> HIDE DEF R
  <2>4. \A k \in Node : kind[k] = "test" =>
          rows'[k] = IF k \in cone THEN <<"blocked">> ELSE R[k]
    <3>1. Append(<<>>, "blocked") = <<"blocked">>  OBVIOUS
    <3>2. \A k \in Node : kind[k] = "test" =>
            BlockedRows(R, cone)[k] = IF k \in cone THEN Append(R[k], "blocked") ELSE R[k]
      BY DEF BlockedRows
    <3> QED  BY <2>3, <2>6, <3>1, <3>2
  <2>5. ASSUME NEW k \in Node, kind[k] = "test"
        PROVE  rows'[k] = IF k \in cone THEN <<"blocked">>
                          ELSE IF k = n THEN <<"failed">> ELSE rows[k]
    BY <2>2, <2>4, <2>5
  <2> QED  BY <1>1, <1>2, <1>3, <2>5 DEF RowsOK, plan, Ends
<1>6. Cleared' /\ WindowLast'  BY <1>1, <1>3, WindowNext DEF Cleared, Waiting
<1>7. Caused'
  <2>1. deps' = deps /\ bad \cup cancelled \subseteq bad' \cup cancelled' /\ Ends \subseteq Ends'
    BY <1>3 DEF plan
  <2>2. ASSUME NEW m \in cancelled
        PROVE  deps[m] \cap (bad' \cup cancelled') # {} \/ deps[m] \subseteq Ends'
    BY <2>1 DEF Caused
  <2>3. ASSUME NEW m \in cone PROVE deps[m] \cap (bad' \cup cancelled') # {}
    BY <1>1
  <2> QED  BY <2>1, <2>2, <2>3 DEF Caused
<1>8. SoftOK'  BY DEF SoftOK, plan
<1> QED  BY <1>4, <1>5, <1>6, <1>7, <1>8


(* The window closes: its steps are counted, and when one failed the rest is *)
(* cancelled without a tick.                                                 *)
LEMMA MembersInner == ASSUME Inside PROVE Members = Inner
<1>1. DOMAIN window.members = 1 .. Len(window.members)  BY WindowTypes
<1> QED  BY <1>1 DEF Members, Inner, Entries

LEMMA InnerFacts ==
  ASSUME Chain
  PROVE  /\ Inner \in SUBSET Node /\ Inner \cap bad = {} /\ Inner \cap Waiting = {}
         /\ \A n \in Inner : IsChore(n) /\ kind[n] # "test"
<1> USE DEF Chain, OnceInv
<1>1. Inner \in SUBSET Node  BY WindowTypes DEF Inner, Entries
<1>2. \A n \in Inner : IsChore(n)  BY DEF KindsOK
<1> QED  BY <1>1, <1>2 DEF Fates, Around, Once, AllDistinct, IsChore

LEMMA InnerFresh ==
  ASSUME Chain, WindowLast, NEW S \in SUBSET Inner, S \subseteq completed \cup cancelled,
         NEW E, Inner \cup Ends \subseteq E,
         NEW r \in Recipes, Behind(r, E) \/ Chorefree(r)
  PROVE  Counted \cap InRecipe(S, r) = {}
<1>1. CASE Behind(r, E)
  <2>1. \A m \in S \cap cancelled : recipe[m] # r  BY <1>1 DEF WindowLast, Behind
  <2>2. S \cap bad = {}  BY InnerFacts
  <2>3. \A m \in S : recipe[m] = r => m \in good
    BY <2>1, <2>2 DEF Chain, OnceInv, Inside, FateOK, CompletedOK
  <2> QED  BY <2>3 DEF Counted, InRecipe
<1>2. CASE Chorefree(r)
  <2>1. InRecipe(S, r) = {}  BY <1>2, InnerFacts DEF Chorefree, InRecipe
  <2> QED  BY <2>1
<1> QED  BY <1>1, <1>2

LEMMA CloseOkReport ==
  ASSUME Chain, Report, Inner \subseteq completed \cup cancelled,
         book' = TickOk(book, Inner), Inner' = {},
         UNCHANGED <<plan, completed, cancelled, good, bad, failures, rows, interactive>>
  PROVE  Report'
<1> USE DEF Report
<1>1. Ends' = Ends /\ Counted' = Counted \cup Inner
  BY BookType DEF Ends, Counted
<1>2. Tally'
  <2>1. ASSUME NEW r \in Recipes
        PROVE  TallyOf(book'[r], r, Counted', Counted', failures', cancelled')
    <3> DEFINE x == Counted \cup Inner
    <3>1. TallyOf(book[r], r, x, Counted, failures, cancelled)  BY TallyBefore
    <3>5. Inner \cup Ends \subseteq Counted \cup Inner  BY DEF Counted
    <3>2. Behind(r, x) \/ Chorefree(r) => Counted \cap InRecipe(Inner, r) = {}  BY <3>5, InnerFresh
    <3>3. Inner \in SUBSET Node  BY InnerFacts
    <3>6. x \in SUBSET Node  BY BookType, InnerFacts
    <3> HIDE DEF x
    <3>4. TallyOf(Tick(book, Inner, FALSE, FALSE)[r], r, x, Counted \cup Inner,
                  IF FALSE THEN failures \cup Inner ELSE failures,
                  IF FALSE THEN cancelled \cup Inner ELSE cancelled)
      BY <3>1, <3>2, <3>3, <3>6, BookType, TickTally
    <3> QED  BY <1>1, <3>4 DEF TickOk, x
  <2> QED  BY <2>1, TallyNext
<1>3. RowsOK' /\ Caused' /\ SoftOK'  BY <1>1 DEF RowsOK, Caused, SoftOK, plan
<1>4. Cleared' /\ WindowLast'  BY DEF Cleared, WindowLast
<1> QED  BY <1>2, <1>3, <1>4

LEMMA ConeFacts ==
  ASSUME Chain, NEW S \in SUBSET Node, S \cap completed = {},
         NEW out \in SUBSET Node, cancelled \subseteq out
  PROVE  /\ Cascade(S, out) \in SUBSET Node /\ Cascade(S, out) \cap out = {}
         /\ Cascade(S, out) \subseteq Unready /\ Cascade(S, out) \cap Ends = {}
         /\ Cascade(S, out) \cap Waiting = {}
         /\ \A m \in Cascade(S, out) : deps[m] \cap (S \cup Cascade(S, out)) # {}
<1>1. Inside /\ Fates /\ PlanTypeOK  BY BookType DEF Chain, OnceInv
<1> DEFINE K == Cascade(S, out)
<1>2. K \in SUBSET Node /\ K \cap out = {} /\ \A m \in K : deps[m] \cap (S \cup K) # {}
  BY <1>1, CascadeFacts
<1>3. K \subseteq Unready /\ K \cap (ran \cup good \cup bad \cup completed \cup Waiting) = {}
  BY <1>1, CascadeUnready
<1> HIDE DEF K
<1>4. K \cap Ends = {}  BY <1>2, <1>3 DEF Ends
<1> QED  BY <1>2, <1>3, <1>4 DEF K

(* The steps before the failed one, that one, and the rest of the window.    *)
ClosesFailed(n, before, tail, left, cone) ==
  /\ n \in Inner /\ n \notin Ends /\ deps[n] \subseteq completed
  /\ before \in SUBSET Inner /\ tail \in SUBSET Inner
  /\ Inner = before \cup {n} \cup tail /\ n \notin tail
  /\ before \subseteq completed \cup cancelled /\ tail \cap (good \cup bad) = {}
  /\ \A m \in tail : deps[m] \subseteq completed \cup {n} \cup tail
  /\ left = tail \ cancelled /\ cone = Cascade({n} \cup tail, cancelled \cup left)
  /\ cancelled' = cancelled \cup left \cup cone
  /\ good' = good /\ bad' = bad \cup {n} /\ failures' = failures \cup {n}
  /\ book' = TickSkipped(TickFailed(TickOk(book, before), {n}), cone)
  /\ rows' = BlockedRows(rows, cone) /\ Inner' = {}
  /\ UNCHANGED <<plan, completed, interactive>>

LEMMA CloseFailedReport ==
  ASSUME Chain, Report, NEW n, NEW before, NEW tail, NEW left, NEW cone,
         ClosesFailed(n, before, tail, left, cone)
  PROVE  Report'
<1> USE DEF Report, ClosesFailed
<1>1. /\ n \in Node /\ before \in SUBSET Node /\ tail \in SUBSET Node /\ left \in SUBSET Node
      /\ tail \cap Waiting = {} /\ \A m \in {n} \cup tail : IsChore(m) /\ kind[m] # "test"
  BY InnerFacts
<1>2. /\ Inside /\ Fates /\ PlanTypeOK /\ cancelled \in SUBSET Node /\ good \in SUBSET Node
      /\ bad \in SUBSET Node /\ completed \subseteq good \cup bad
      /\ completed \subseteq Ends /\ Ends \in SUBSET Node /\ Counted \in SUBSET Node
  BY BookType DEF Chain, OnceInv, Inside, FateOK, CompletedOK
<1>3. /\ cone \in SUBSET Node /\ cone \cap (cancelled \cup left) = {}
      /\ cone \subseteq Unready /\ cone \cap Ends = {} /\ cone \cap Waiting = {}
      /\ \A m \in cone : deps[m] \cap ({n} \cup tail \cup cone) # {}
  <2> DEFINE S == {n} \cup tail
             out == cancelled \cup left
  <2>1. S \in SUBSET Node /\ out \in SUBSET Node /\ S \cap completed = {}
        /\ cancelled \subseteq out
    BY <1>1, <1>2 DEF Ends
  <2>2. cone = Cascade(S, out)  OBVIOUS
  <2> SUFFICES /\ cone \in SUBSET Node /\ cone \cap out = {}
               /\ cone \subseteq Unready /\ cone \cap Ends = {} /\ cone \cap Waiting = {}
               /\ \A m \in cone : deps[m] \cap (S \cup cone) # {}
    OBVIOUS
  <2> HIDE DEF S, out, Report
  <2> DEFINE K == Cascade(S, out)
  <2>3. /\ K \in SUBSET Node /\ K \cap out = {}
        /\ K \subseteq Unready /\ K \cap Ends = {} /\ K \cap Waiting = {}
        /\ \A m \in K : deps[m] \cap (S \cup K) # {}
    BY <2>1, ConeFacts
  <2> HIDE DEF K
  <2>4. cone = K  BY <2>2 DEF K
  <2> QED  BY <2>3, <2>4
<1>5. n \notin cone /\ cone \cap Ends = {}  BY <1>3 DEF Unready
<1>6. /\ Ends' = Ends \cup {n} \cup left \cup cone /\ Counted' = Ends'
  BY DEF Ends, Counted
<1>7. before \subseteq Ends /\ Counted \subseteq Ends
      /\ Ends \subseteq Counted \cup before
  BY <1>2 DEF Counted, Ends
<1> DEFINE E == Counted \cup before \cup {n} \cup cone
<1>8. E \subseteq Counted' /\ \A m \in Counted' \ E : IsChore(m)  BY <1>1, <1>6, <1>7
<1>9. Tally'
  <2>1. ASSUME NEW r \in Recipes
        PROVE  TallyOf(book'[r], r, Counted', Counted', failures', cancelled')
    <3> DEFINE b1 == Tick(book, before, FALSE, FALSE)
               b2 == Tick(b1, {n}, FALSE, TRUE)
               b3 == Tick(b2, cone, TRUE, FALSE)
               x == Counted'
    <3>1. /\ book \in Books /\ failures \in SUBSET Node /\ {n} \in SUBSET Node
          /\ TallyOf(book[r], r, x, Counted, failures, cancelled)
      BY <1>1, <1>6, <1>7, BookType, TallyBefore
    <3>11. x \in SUBSET Node  BY <1>1, <1>2, <1>3, <1>6
    <3>2. b1 \in Books /\ b2 \in Books /\ b3 \in Books
      <4>1. b1 \in Books  BY <1>1, <1>2, <3>1, TickBooks
      <4> HIDE DEF b1
      <4>2. b2 \in Books  BY <1>2, <3>1, <4>1, TickBooks
      <4> HIDE DEF b2
      <4>3. b3 \in Books  BY <1>2, <1>3, <4>2, TickBooks
      <4> QED  BY <4>1, <4>2, <4>3
    <3>3. book' = b3  BY DEF TickOk, TickFailed, TickSkipped
    <3>4. Behind(r, x) \/ Chorefree(r) => Counted \cap InRecipe(before, r) = {}
      <4> DEFINE X == Counted'
      <4>1. Inner \cup Ends \subseteq X
        <5>1. Inner \subseteq Ends \cup {n} \cup left  BY <1>7 DEF Ends
        <5> QED  BY <1>6, <5>1
      <4> HIDE DEF X
      <4>2. Behind(r, X) \/ Chorefree(r) => Counted \cap InRecipe(before, r) = {}
        BY <4>1, InnerFresh
      <4> QED  BY <4>2 DEF X
    <3> HIDE DEF x
    <3>5. TallyOf(b1[r], r, x, Counted \cup before, failures, cancelled)
      <4>1. TallyOf(b1[r], r, x, Counted \cup before, IF FALSE THEN failures \cup before ELSE failures,
                    IF FALSE THEN cancelled \cup before ELSE cancelled)
        BY <1>1, <1>2, <3>1, <3>11, <3>4, TickTally
      <4> QED  BY <4>1
    <3> HIDE DEF b1
    <3>6. TallyOf(b2[r], r, x, Counted \cup before \cup {n}, failures \cup {n}, cancelled)
      <4>1. Counted \cup before \in SUBSET Node /\ (Counted \cup before) \cap InRecipe({n}, r) = {}
        BY <1>1, <1>2, <1>7 DEF InRecipe
      <4>2. TallyOf(b2[r], r, x, (Counted \cup before) \cup {n},
                    IF TRUE THEN failures \cup {n} ELSE failures,
                    IF FALSE THEN cancelled \cup {n} ELSE cancelled)
        BY <1>2, <3>1, <3>2, <3>5, <3>11, <4>1, TickTally
      <4> QED  BY <4>2
    <3> HIDE DEF b2
    <3>7. TallyOf(b3[r], r, x, E, failures \cup {n}, cancelled \cup cone)
      <4>1. Counted \cup before \cup {n} \in SUBSET Node /\ failures \cup {n} \in SUBSET Node
            /\ (Counted \cup before \cup {n}) \cap InRecipe(cone, r) = {}
        BY <1>1, <1>2, <1>5, <1>7, <3>1 DEF InRecipe
      <4>2. TallyOf(b3[r], r, x, (Counted \cup before \cup {n}) \cup cone,
                    IF FALSE THEN (failures \cup {n}) \cup cone ELSE failures \cup {n},
                    IF TRUE THEN cancelled \cup cone ELSE cancelled)
        BY <1>2, <1>3, <3>2, <3>6, <3>11, <4>1, TickTally
      <4> QED  BY <4>2
    <3> HIDE DEF b3
    <3>8. /\ E \in SUBSET Node /\ Counted' \in SUBSET Node /\ failures \cup {n} \in SUBSET Node
          /\ cancelled \cup cone \in SUBSET Node /\ cancelled' \in SUBSET Node
          /\ cancelled \cup cone \subseteq cancelled'
      BY <1>1, <1>2, <1>3, <1>6, <3>1
    <3>9. b3[r].done \in Nat  BY <3>2 DEF Books
    <3> HIDE DEF E, Report
    <3>10. TallyOf(b3[r], r, x, Counted', failures \cup {n}, cancelled')
      <4> DEFINE X == Counted'
                 Y == cancelled'
      <4>1. E \subseteq X /\ \A m \in X \ E : IsChore(m)  BY <1>8
      <4>2. X \in SUBSET Node /\ Y \in SUBSET Node /\ cancelled \cup cone \subseteq Y  BY <3>8
      <4> HIDE DEF X, Y
      <4>3. TallyOf(b3[r], r, x, X, failures \cup {n}, Y)
        BY <3>7, <3>8, <3>9, <4>1, <4>2, WidenTally
      <4> QED  BY <4>3 DEF X, Y
    <3> QED  BY <3>3, <3>10 DEF x
  <2> QED  BY <2>1, TallyNext
<1>10. RowsOK'
  <2>1. \A k \in cone : kind[k] = "test" => rows[k] = <<>>  BY <1>3, <1>5 DEF RowsOK
  <2>2. Append(<<>>, "blocked") = <<"blocked">>  OBVIOUS
  <2>3. \A k \in Node : kind[k] = "test" =>
          rows'[k] = IF k \in cone THEN <<"blocked">> ELSE rows[k]
    BY <2>1, <2>2 DEF BlockedRows
  <2>4. ASSUME NEW k \in Node, kind[k] = "test", k \notin cone
        PROVE  /\ k \in cancelled' <=> k \in cancelled
               /\ k \in bad' <=> k \in bad
               /\ k \in Ends' <=> k \in Ends
    BY <1>1, <1>6, <2>4
  <2>5. \A k \in cone : k \in cancelled' /\ k \in Ends' /\ k \notin bad' /\ k \notin good'
    BY <1>5, <1>6 DEF Ends
  <2> QED  BY <2>3, <2>4, <2>5 DEF RowsOK, plan
<1>11. Cleared' /\ WindowLast'  BY <1>1, <1>3 DEF Cleared, WindowLast, Waiting
<1>12. Caused'
  <2> DEFINE S == {n} \cup tail
  <2>1. bad \cup cancelled \cup S \cup cone \subseteq bad' \cup cancelled'  OBVIOUS
  <2>2. deps' = deps /\ Ends \subseteq Ends' /\ Caused  BY <1>6 DEF plan
  <2>3. cancelled' \subseteq cancelled \cup left \cup cone  OBVIOUS
  <2>4. \A m \in cone : deps[m] \cap (S \cup cone) # {}  BY <1>3
  <2>5. \A m \in left : deps[m] \subseteq Ends \cup S  BY <1>2
  <2> HIDE DEF S, Report
  <2>6. ASSUME NEW m \in cancelled'
        PROVE  deps'[m] \cap (bad' \cup cancelled') # {} \/ deps'[m] \subseteq Ends'
    <3>1. CASE m \in cancelled  BY <2>1, <2>2, <3>1 DEF Caused
    <3>2. CASE m \in cone
      <4>1. deps[m] \cap (S \cup cone) # {}  BY <2>4, <3>2
      <4> QED  BY <2>1, <2>2, <4>1
    <3>3. CASE m \in left
      <4>1. deps[m] \subseteq Ends \cup S  BY <2>5, <3>3
      <4> QED  BY <2>1, <2>2, <4>1
    <3> QED  BY <2>3, <2>6, <3>1, <3>2, <3>3
  <2> QED  BY <2>6 DEF Caused
<1>13. SoftOK'  BY <1>2 DEF SoftOK, plan, Ends
<1> QED  BY <1>9, <1>10, <1>11, <1>12, <1>13

(* A hard failure outside the window. *)
LEMMA HardReport ==
  ASSUME Chain, Report, NEW n \in Node, n \notin Ends, n \notin Inner, n \notin completed,
         deps[n] \subseteq completed, kind[n] # "test", FailHard(n),
         UNCHANGED plan, Inner' = Inner, Entries(interactive') \subseteq Entries(interactive)
  PROVE  Report' /\ Ends \cup {n} \subseteq Ends' /\ UNCHANGED completed
<1> DEFINE cone == Cascade({n}, cancelled)
<1>1. /\ cancelled' = cancelled \cup cone /\ bad' = bad \cup {n}
      /\ failures' = failures \cup {n} /\ UNCHANGED <<completed, good>>
      /\ book' = TickSkipped(Tick(book, {n}, FALSE, TRUE), cone)
      /\ rows' = BlockedRows(WithRow(rows, n, "failed"), cone)
  BY DEF FailHard, WithRow, TickFailed
<1>2. Ends \cup {n} \subseteq Ends'  BY <1>1 DEF Ends
<1> HIDE DEF cone
<1>3. TRUE \in BOOLEAN /\ cone = Cascade({n}, cancelled)  BY DEF cone
<1>4. failures' = IF TRUE THEN failures \cup {n} ELSE failures  BY <1>1
<1>5. completed \subseteq completed' /\ completed' \subseteq completed \cup {n}  BY <1>1
<1>6. Report'  BY <1>1, <1>3, <1>4, <1>5, ReportBad
<1> QED  BY <1>1, <1>2, <1>6

(* One lemma per part of the scheduler. *)
LEMMA UnforgottenNext ==
  ASSUME Unforgotten, Ends \subseteq Ends',
         \A x \in Node : x \in Around \cup {terminal} => x \in Ends' \cup Around' \cup {terminal'},
         \A x \in Unready : x \in Unready' \cup Around' \cup Ends'
  PROVE  Unforgotten'
  BY DEF Unforgotten

LEMMA ProcessReadyTold == ASSUME Chain, OnceInv', Told, ProcessReady PROVE Told'
<1> USE DEF Told
<1>1. PICK n \in Node :
        SkipCancelled(n) \/ Serve(n) \/ QueueInteractive(n) \/ FailReady(n) \/ Dispatch(n)
  BY DEF ProcessReady
<1>2. Turn(n) /\ UNCHANGED <<plan, window, phase, terminal>>
  BY <1>1 DEF SkipCancelled, Serve, ServeNothing, ServeTest, ServeProbe, ServeHit, Served,
              QueueInteractive, FailReady, FailLookup, FailPinned, FailDirs, FailEarly,
              Dispatch, SendProbe, SendTest, SendUnit, Send, Live, drive
<1>3. /\ n \in Entries(ready) /\ n \notin Entries(interactive) /\ n \notin Inner
      /\ n \notin Taken
      /\ Tail(ready) \in Seq(Node) /\ n \notin Entries(Tail(ready))
      /\ deps[n] \subseteq completed
  BY <1>2, TurnOnce, TurnFacts DEF Chain, OnceInv, Inside
<1>4. Entries(ready) = {n} \cup Entries(Tail(ready))
  <2>1. ready \in Seq(Node) /\ ready # <<>> /\ n = Head(ready) /\ Distinct(ready)
    BY <1>2 DEF Chain, OnceInv, Inside, DriveTypeOK, Turn, Once, AllDistinct
  <2> QED  BY <2>1, TailDistinct
<1>5. Sober'
  <2>1. phase # "done"  BY <1>2 DEF Sober, Turn
  <2> QED  BY <1>2, <2>1 DEF Sober, plan
<1>6. Inner' = Inner  BY <1>2 DEF Inner
<1>7. n \notin InFlight /\ n \notin good /\ n \notin bad /\ n \notin completed
  BY <1>3, PoolParts DEF Taken, Chain, OnceInv, Fates, Around, Waiting
<1>8. CASE SkipCancelled(n)
  <2>1. ready' = Tail(ready) /\ UNCHANGED <<pool, outcome, interactive>> /\ n \in cancelled
    BY <1>8 DEF SkipCancelled, drive
  <2>2. InFlight' = InFlight  BY <2>1, PoolKept DEF Chain
  <2>3. Report'  BY <1>2, <1>6, <2>1, ReportSame DEF Report, Cleared, WindowLast
  <2>4. Ends' = Ends /\ n \in Ends  BY <2>1 DEF Ends, outcome
  <2>5. Around \subseteq Around' \cup {n} /\ Unready' = Unready
    BY <1>2, <1>4, <1>6, <2>1, <2>2 DEF Around, Waiting, Unready, outcome, plan
  <2>6. Unforgotten'  BY <1>2, <2>4, <2>5, UnforgottenNext
  <2> QED  BY <1>5, <2>3, <2>6
<1>9. CASE QueueInteractive(n)
  <2>1. /\ ready' = Tail(ready) /\ interactive' = Append(interactive, n) /\ n \notin cancelled
        /\ UNCHANGED <<pool, outcome, ran>>
    BY <1>9 DEF QueueInteractive, Live
  <2>2. InFlight' = InFlight  BY <2>1, PoolKept DEF Chain
  <2>3. Entries(interactive') = Entries(interactive) \cup {n}
    BY <2>1, AppendEntries DEF Chain, OnceInv, Inside, DriveTypeOK
  <2>4. Report'  BY <1>2, <1>6, <2>1, <2>3, ReportSame DEF Report, Cleared, WindowLast
  <2>5. Ends' = Ends  BY <2>1 DEF Ends, outcome
  <2>6. Around \subseteq Around' /\ Unready' = Unready
    BY <1>2, <1>4, <1>6, <2>1, <2>2, <2>3 DEF Around, Waiting, Unready, outcome, plan
  <2>7. Unforgotten'  BY <1>2, <2>5, <2>6, UnforgottenNext
  <2> QED  BY <1>5, <2>4, <2>7
<1>10. CASE Serve(n)
  <2>1. /\ Complete(n, Tail(ready)) /\ good' = good \cup {n} /\ n \notin cancelled
        /\ book' = TickOk(book, {n})
        /\ UNCHANGED <<cancelled, bad, failures, pool, interactive>>
    BY <1>10 DEF Serve, ServeNothing, ServeTest, ServeProbe, ServeHit, Served, Settle, Live, drive
  <2>2. completed' = completed \cup {n}  BY <2>1 DEF Complete
  <2>3. rows' = WithRow(rows, n, "cached")
    <3>1. CASE ServeTest(n)  BY <3>1 DEF ServeTest
    <3>2. CASE ~ServeTest(n)
      <4>1. kind[n] # "test" /\ UNCHANGED rows
        BY <1>10, <3>2 DEF Serve, ServeNothing, ServeProbe, ServeHit, Served
      <4> QED  BY <4>1 DEF WithRow
    <3> QED  BY <3>1, <3>2
  <2>4. n \notin Ends  BY <1>7, <2>1 DEF Ends
  <2>5. Report'  BY <1>2, <1>3, <1>6, <2>1, <2>2, <2>3, <2>4, ReportGood
  <2>6. InFlight' = InFlight  BY <2>1, PoolKept DEF Chain
  <2>7. /\ Entries(Tail(ready)) \subseteq Entries(ready')
        /\ \A m \in Unready : m \in Unready' \/ m \in Entries(ready')
    BY <1>2, <1>3, <1>7, <2>1, BookType, CompleteReleases
  <2>8. Ends' = Ends \cup {n}  BY <2>1 DEF Ends
  <2>9. Around \subseteq Around' \cup {n}
    BY <1>4, <1>6, <2>1, <2>6, <2>7 DEF Around, Waiting
  <2>10. \A x \in Unready : x \in Unready' \cup Around'  BY <2>7 DEF Around, Waiting
  <2>11. Unforgotten'  BY <1>2, <2>8, <2>9, <2>10, UnforgottenNext
  <2> QED  BY <1>5, <2>5, <2>11
<1>11. CASE FailReady(n)
  <2>1. /\ FailHard(n) /\ n \notin cancelled /\ ready' = Tail(ready) /\ kind[n] # "test"
        /\ UNCHANGED <<pool, interactive>>
    BY <1>11 DEF FailReady, FailLookup, FailPinned, FailDirs, FailEarly, Live, drive
  <2>2. n \notin Ends  BY <1>7, <2>1 DEF Ends
  <2>3. Report' /\ Ends \cup {n} \subseteq Ends' /\ UNCHANGED completed
    BY <1>2, <1>3, <1>6, <1>7, <2>1, <2>2, HardReport
  <2>4. InFlight' = InFlight  BY <2>1, PoolKept DEF Chain
  <2>5. Around \subseteq Around' \cup {n} /\ Unready' = Unready
    BY <1>2, <1>4, <1>6, <2>1, <2>3, <2>4 DEF Around, Waiting, Unready, plan
  <2>6. Unforgotten'  BY <1>2, <2>3, <2>5, UnforgottenNext
  <2> QED  BY <1>5, <2>3, <2>6
<1>12. CASE Dispatch(n)
  <2>1. /\ queue' = Append(queue, n) /\ ready' = Tail(ready)
        /\ UNCHANGED <<busy, results, outcome, interactive>>
    BY <1>12 DEF Dispatch, SendProbe, SendTest, SendUnit, Send, Submit, Live, drive
  <2>2. InFlight' = InFlight \cup {n}
    BY <1>7, <2>1, SubmitApart DEF Chain, OnceInv
  <2>3. Report'  BY <1>2, <1>6, <2>1, ReportSame DEF Report, Cleared, WindowLast
  <2>4. Ends' = Ends  BY <2>1 DEF Ends, outcome
  <2>5. Around \subseteq Around' /\ Unready' = Unready
    BY <1>2, <1>4, <1>6, <2>1, <2>2 DEF Around, Waiting, Unready, outcome, plan
  <2>6. Unforgotten'  BY <1>2, <2>4, <2>5, UnforgottenNext
  <2> QED  BY <1>5, <2>3, <2>6
<1> QED  BY <1>1, <1>8, <1>9, <1>10, <1>11, <1>12

LEMMA InteractTold == ASSUME Chain, OnceInv', Told, Interact PROVE Told'
<1> USE DEF Told
<1>1. phase' = "loop" /\ phase = "loop" /\ UNCHANGED <<plan, pool, window>> /\ Inner' = Inner
  <2>1. phase = "loop" /\ phase' = "loop" /\ UNCHANGED <<plan, pool, window>>
    BY DEF Interact, DropCancelledHead, StartInteractive, EndInteractive, AtHead
  <2> QED  BY <2>1 DEF Inner
<1>2. InFlight' = InFlight  BY <1>1, PoolKept DEF Chain
<1>3. Inner = {}  BY <1>1, EmptyFacts DEF Chain, OnceInv, Once, NoWindow, Inner
<1>4. ASSUME NEW n \in Node, DropCancelledHead(n) \/ StartInteractive(n) PROVE Told'
  <2>1. /\ interactive # <<>> /\ n = Head(interactive) /\ interactive' = Tail(interactive)
        /\ UNCHANGED <<ready, outcome>> /\ terminal = None
    BY <1>4 DEF DropCancelledHead, StartInteractive, AtHead
  <2>2. /\ Entries(interactive) = {n} \cup Entries(interactive') /\ n \in Entries(interactive)
    <3>1. interactive \in Seq(Node) /\ Distinct(interactive)
      BY DEF Chain, OnceInv, Inside, DriveTypeOK, Once, AllDistinct
    <3> QED  BY <2>1, <3>1, TailDistinct
  <2>3. Report'  BY <1>1, <2>1, <2>2, ReportSame DEF Report, Cleared, WindowLast
  <2>4. Ends' = Ends /\ Unready' = Unready
    BY <1>1, <2>1 DEF Ends, outcome, Unready, plan
  <2>5. Around \subseteq Around' \cup {n}  BY <1>1, <1>2, <2>1, <2>2 DEF Around, Waiting
  <2>6. n \in Ends \cup {terminal'} /\ (terminal' = None \/ terminal' = n)
    BY <1>4, <2>1 DEF DropCancelledHead, StartInteractive, Ends
  <2>7. Unforgotten'  BY <2>1, <2>4, <2>5, <2>6, NodeFacts, UnforgottenNext
  <2>8. kind[n] # "test"  BY <2>2 DEF Chain, OnceInv, KindsOK, IsChore
  <2>9. Sober'  BY <1>1, <2>6, <2>8 DEF Sober, plan
  <2> QED  BY <2>3, <2>7, <2>9
<1>5. ASSUME NEW ok \in BOOLEAN, EndInteractive(ok) PROVE Told'
  <2> DEFINE n == terminal
  <2>1. /\ n # None /\ terminal' = None /\ UNCHANGED interactive
        /\ IF ok THEN Settle(n, <<>>) /\ UNCHANGED rows ELSE FailHard(n) /\ UNCHANGED ready
    BY <1>5 DEF EndInteractive
  <2>2. n \in Node /\ n \notin Ends /\ deps[n] \subseteq completed /\ n \notin completed
    BY <2>1, BookType DEF Chain, OnceInv, Inside, DriveTypeOK, HandedOK, Fates, Ends
  <2>3. Sober' /\ kind[n] # "test"  BY <1>1, <2>1 DEF Sober
  <2>4. ready = <<>>  BY <2>1 DEF Chain, Quiet
  <2> HIDE DEF n
  <2>5. CASE ok
    <3>1. /\ Complete(n, <<>>) /\ good' = good \cup {n} /\ book' = TickOk(book, {n})
          /\ UNCHANGED <<cancelled, bad, failures, rows>>
      BY <2>1, <2>5 DEF Settle
    <3>2. completed' = completed \cup {n}  BY <3>1 DEF Complete
    <3>3. rows' = WithRow(rows, n, "passed")  BY <2>3, <3>1 DEF WithRow
    <3>4. Report'  BY <1>1, <1>3, <2>1, <2>2, <3>1, <3>2, <3>3, ReportGood
    <3>5. \A m \in Unready : m \in Unready' \/ m \in Entries(ready')
      BY <1>1, <2>2, <3>1, BookType, EmptyFacts, CompleteReleases
    <3>6. Ends' = Ends \cup {n}  BY <3>1 DEF Ends
    <3>7. Around \subseteq Around'
      BY <1>1, <1>2, <2>1, <2>4, EmptyFacts DEF Around, Waiting
    <3>8. \A x \in Unready : x \in Unready' \cup Around'  BY <3>5 DEF Around, Waiting
    <3>9. Unforgotten'  BY <2>1, <3>6, <3>7, <3>8, UnforgottenNext DEF n
    <3> QED  BY <2>3, <3>4, <3>9
  <2>6. CASE ~ok
    <3>1. FailHard(n) /\ UNCHANGED ready  BY <2>1, <2>6
    <3>2. Report' /\ Ends \cup {n} \subseteq Ends' /\ UNCHANGED completed
      BY <1>1, <1>3, <2>1, <2>2, <2>3, <3>1, HardReport
    <3>3. Around' = Around /\ Unready' = Unready
      BY <1>1, <1>2, <2>1, <3>1, <3>2 DEF Around, Waiting, Unready, plan
    <3>4. Unforgotten'  BY <2>1, <3>2, <3>3, UnforgottenNext DEF n
    <3> QED  BY <2>3, <3>2, <3>4
  <2> QED  BY <2>5, <2>6
<1> QED  BY <1>4, <1>5 DEF Interact

(* Nothing is lost on the way through the pool. *)
LEMMA WorkerKeeps ==
  ASSUME Inside, Inside', NEW w \in Workers, Worker(w) PROVE InFlight \subseteq InFlight'
<1>1. /\ InQueue = Entries(queue) /\ InQueue' = Entries(queue')
      /\ InChannel = {results[i].node : i \in 1 .. Len(results)}
      /\ InChannel' = {results'[i].node : i \in 1 .. Len(results')}
      /\ queue \in Seq(Node) /\ results \in Seq([node : Node, ok : BOOLEAN])
      /\ busy \in [Workers -> Node \cup {None}] /\ Len(results) \in Nat
  BY PoolParts, PoolPartsNext
<1>2. CASE Take(w)
  <2> DEFINE h == Head(queue)
  <2>1. /\ queue # <<>> /\ queue' = Tail(queue) /\ UNCHANGED results /\ busy[w] = None
        /\ busy' = [busy EXCEPT ![w] = h]
    BY <1>2 DEF Take
  <2>2. Entries(queue) \subseteq {h} \cup Entries(queue') /\ h \in Node
    <3>1. /\ h = queue[1] /\ h \in Node /\ Len(queue') = Len(queue) - 1
          /\ \A i \in 1 .. Len(queue') : queue'[i] = queue[i + 1]
          /\ Len(queue) \in Nat /\ Len(queue) >= 1
      BY <1>1, <2>1, HeadTailProperties, EmptySeq, LenProperties
    <3>2. ASSUME NEW i \in 1 .. Len(queue), i # 1 PROVE queue[i] \in Entries(queue')
      <4>1. i - 1 \in 1 .. Len(queue') /\ (i - 1) + 1 = i  BY <3>1, <3>2
      <4>2. queue'[i - 1] = queue[i]  BY <3>1, <4>1
      <4> QED  BY <4>1, <4>2 DEF Entries
    <3> QED  BY <3>1, <3>2 DEF Entries
  <2> HIDE DEF h
  <2>3. Executing \subseteq Executing' /\ h \in Executing'
    BY <1>1, <2>1, <2>2, NodeFacts DEF Executing
  <2>4. InChannel' = InChannel  BY <2>1 DEF InChannel
  <2> QED  BY <1>1, <2>2, <2>3, <2>4 DEF InFlight
<1>3. ASSUME NEW ok \in BOOLEAN, SendResult(w, ok) PROVE InFlight \subseteq InFlight'
  <2> DEFINE r == [node |-> busy[w], ok |-> ok]
             s == Append(results, r)
  <2>1. /\ busy[w] # None /\ results' = s /\ UNCHANGED queue
        /\ busy' = [busy EXCEPT ![w] = None]
    BY <1>3 DEF SendResult
  <2>2. r \in [node : Node, ok : BOOLEAN] /\ r.node = busy[w]  BY <1>1, <2>1
  <2>3. /\ Len(s) = Len(results) + 1 /\ s[Len(results) + 1] = r
        /\ \A i \in 1 .. Len(results) : s[i] = results[i]
    BY <1>1, <2>2, AppendProperties
  <2> HIDE DEF s, r
  <2>4. /\ \A i \in 1 .. Len(results) : i \in 1 .. Len(s)
        /\ Len(results) + 1 \in 1 .. Len(s)
    BY <1>1, <2>3
  <2>5. InChannel \cup {busy[w]} \subseteq InChannel'  BY <1>1, <2>1, <2>2, <2>3, <2>4
  <2>6. Executing \subseteq Executing' \cup {busy[w]}  BY <1>1, <2>1 DEF Executing
  <2>7. InQueue' = InQueue  BY <2>1 DEF InQueue
  <2> QED  BY <2>5, <2>6, <2>7 DEF InFlight
<1> QED  BY <1>2, <1>3 DEF Worker

LEMMA ReceiveKeeps ==
  ASSUME Inside, Inside', results # <<>>, results' = Tail(results), UNCHANGED <<queue, busy>>
  PROVE  InFlight \subseteq InFlight' \cup {Head(results).node}
<1>1. /\ results \in Seq([node : Node, ok : BOOLEAN]) /\ Len(results) \in Nat
      /\ InChannel = {results[i].node : i \in 1 .. Len(results)}
      /\ InChannel' = {results'[i].node : i \in 1 .. Len(results')}
  BY PoolParts, PoolPartsNext
<1> DEFINE t == Tail(results)
<1>2. /\ Head(results) = results[1] /\ Len(t) = Len(results) - 1 /\ Len(results) >= 1
      /\ \A i \in 1 .. Len(t) : t[i] = results[i + 1]
  BY <1>1, HeadTailProperties, EmptySeq, LenProperties
<1>3. results' = t  OBVIOUS
<1> HIDE DEF t
<1>4. ASSUME NEW i \in 1 .. Len(results), i # 1 PROVE results[i].node \in InChannel'
  <2>1. i - 1 \in 1 .. Len(t) /\ (i - 1) + 1 = i  BY <1>1, <1>2, <1>4
  <2>2. t[i - 1] = results[i]  BY <1>2, <2>1
  <2> QED  BY <1>1, <1>3, <2>1, <2>2
<1>5. InQueue' = InQueue /\ Executing' = Executing  BY DEF InQueue, Executing
<1> QED  BY <1>1, <1>2, <1>4, <1>5 DEF InFlight

LEMMA WorkerTold == ASSUME Chain, OnceInv', Told, NEW w \in Workers, Worker(w) PROVE Told'
<1> USE DEF Told
<1>1. UNCHANGED <<plan, drive, outcome, ready, ran, pending>>
  BY DEF Worker, Take, SendResult
<1>2. InFlight \subseteq InFlight'  BY WorkerKeeps DEF Chain, OnceInv
<1>3. Waiting' = Waiting /\ Inner' = Inner  BY <1>1 DEF Waiting, Inner, drive
<1>4. Report'  BY <1>1, <1>3, ReportSame DEF Report, Cleared, WindowLast, drive
<1>5. Sober'  BY <1>1 DEF Sober, drive, plan
<1>6. Ends' = Ends /\ Unready' = Unready /\ terminal' = terminal
  BY <1>1 DEF Ends, outcome, Unready, plan, drive
<1>7. Around \subseteq Around'  BY <1>2, <1>3 DEF Around
<1>8. Unforgotten'  BY <1>6, <1>7, UnforgottenNext
<1> QED  BY <1>4, <1>5, <1>8

LEMMA ReceiveTold ==
  ASSUME Chain, OnceInv', Told, NEW r \in [node : Node, ok : BOOLEAN], Receive(r) PROVE Told'
<1> USE DEF Told
<1> DEFINE n == r.node
<1>1. /\ phase = "loop" /\ phase' = "loop" /\ terminal = None /\ terminal' = None
      /\ ready = <<>> /\ results # <<>> /\ r = Head(results) /\ results' = Tail(results)
      /\ UNCHANGED <<plan, interactive, window, queue, busy>>
  BY DEF Receive, Receiving, drive
<1>2. n \in InFlight /\ InFlight \subseteq InFlight' \cup {n}
  BY <1>1, ReceiveApart, ReceiveKeeps DEF Chain, OnceInv
<1>3. n \in Node /\ n \notin Ends /\ deps[n] \subseteq completed /\ n \notin completed
  <2>1. n \in Node  OBVIOUS
  <2> HIDE DEF n
  <2>2. n \in ran  BY <1>2, PoolParts DEF Chain, OnceInv
  <2>3. n \notin good \cup bad  BY <1>2 DEF Chain, Fates, Around
  <2>4. n \notin cancelled  BY <2>2 DEF Chain, Fates
  <2>5. n \notin completed  BY <2>3 DEF Chain, OnceInv, Inside, FateOK, CompletedOK
  <2>6. deps[n] \subseteq completed  BY <2>2 DEF Chain, Fates
  <2> QED  BY <2>1, <2>3, <2>4, <2>5, <2>6 DEF Ends
<1>4. Inner = {} /\ Inner' = Inner
  BY <1>1, EmptyFacts DEF Chain, OnceInv, Once, NoWindow, Inner
<1>5. Sober'  BY <1>1 DEF Sober
<1>6. Around \subseteq Around' \cup {n}
  BY <1>1, <1>2, <1>4, EmptyFacts DEF Around, Waiting
<1>7. /\ results' = Tail(results)
      /\ \/ r.ok /\ Settle(n, <<>>) /\ rows' = WithRow(rows, n, "passed")
         \/ ~r.ok /\ kind[n] = "test" /\ FailSoft(n)
         \/ ~r.ok /\ kind[n] # "test" /\ FailHard(n) /\ UNCHANGED ready
  BY DEF Receive
<1> HIDE DEF n
<1>8. CASE r.ok /\ Settle(n, <<>>) /\ rows' = WithRow(rows, n, "passed")
  <2>1. /\ Complete(n, <<>>) /\ good' = good \cup {n} /\ book' = TickOk(book, {n})
        /\ UNCHANGED <<cancelled, bad, failures>>
    BY <1>8 DEF Settle
  <2>2. completed' = completed \cup {n}  BY <2>1 DEF Complete
  <2>3. Report'  BY <1>1, <1>3, <1>4, <1>8, <2>1, <2>2, ReportGood
  <2>4. \A m \in Unready : m \in Unready' \/ m \in Entries(ready')
    BY <1>1, <1>3, <2>1, BookType, EmptyFacts, CompleteReleases
  <2>5. Ends' = Ends \cup {n}  BY <2>1 DEF Ends
  <2>6. \A x \in Unready : x \in Unready' \cup Around'  BY <2>4 DEF Around, Waiting
  <2>7. Unforgotten'  BY <1>1, <1>6, <2>5, <2>6, UnforgottenNext
  <2> QED  BY <1>5, <2>3, <2>7
<1>9. CASE ~r.ok /\ kind[n] = "test" /\ FailSoft(n)
  <2> DEFINE cone == Cascade({n}, cancelled)
  <2>1. /\ cancelled' = cancelled \cup cone /\ bad' = bad \cup {n}
        /\ Complete(n, <<>>) /\ UNCHANGED <<good, failures>>
        /\ book' = TickSkipped(Tick(book, {n}, FALSE, FALSE), cone)
        /\ rows' = BlockedRows(WithRow(rows, n, "failed"), cone)
    BY <1>9 DEF FailSoft, ConeOfTest, TickOk
  <2>2. completed' = completed \cup {n}  BY <2>1 DEF Complete
  <2>3. Ends \cup {n} \subseteq Ends'  BY <2>1 DEF Ends
  <2> HIDE DEF cone
  <2>4. FALSE \in BOOLEAN /\ cone = Cascade({n}, cancelled)  BY DEF cone
  <2>5. failures' = IF FALSE THEN failures \cup {n} ELSE failures  BY <2>1
  <2>6. completed \subseteq completed' /\ completed' \subseteq completed \cup {n}  BY <2>2
  <2>7. Report'
    BY <1>1, <1>3, <1>4, <1>9, <2>1, <2>4, <2>5, <2>6, ReportBad
  <2>8. \A m \in Unready : m \in Unready' \/ m \in Entries(ready')
    BY <1>1, <1>3, <2>1, BookType, EmptyFacts, CompleteReleases
  <2>9. \A x \in Unready : x \in Unready' \cup Around'  BY <2>8 DEF Around, Waiting
  <2>10. Unforgotten'  BY <1>1, <1>6, <2>3, <2>9, UnforgottenNext
  <2> QED  BY <1>5, <2>7, <2>10
<1>10. CASE ~r.ok /\ kind[n] # "test" /\ FailHard(n) /\ UNCHANGED ready
  <2>1. Report' /\ Ends \cup {n} \subseteq Ends' /\ UNCHANGED completed
    BY <1>1, <1>3, <1>4, <1>10, HardReport
  <2>2. Unready' = Unready  BY <1>1, <2>1 DEF Unready, plan
  <2>3. Unforgotten'  BY <1>1, <1>6, <2>1, <2>2, UnforgottenNext
  <2> QED  BY <1>5, <2>1, <2>3
<1> QED  BY <1>7, <1>8, <1>9, <1>10

LEMMA StopTold == ASSUME Chain, Told, Stop \/ UNCHANGED vars PROVE Told'
<1> USE DEF Told
<1>1. UNCHANGED <<plan, pool, outcome, interactive, window, terminal, ready, ran>>
  BY DEF Stop, vars, drive
<1>2. InFlight' = InFlight /\ Inner' = Inner  BY <1>1, PoolKept DEF Chain, Inner
<1>3. Report'  BY <1>1, <1>2, ReportSame DEF Report, Cleared, WindowLast
<1>4. Ends' = Ends /\ Unready' = Unready /\ Around' = Around
  BY <1>1, <1>2 DEF Ends, outcome, Unready, plan, Around, Waiting
<1>5. Unforgotten'  BY <1>1, <1>4, UnforgottenNext
<1>6. Sober'
  <2>1. CASE Stop  BY <1>1, <2>1 DEF Stop, Sober, plan, pool
  <2>2. CASE UNCHANGED vars  BY <1>1, <2>2 DEF vars, drive, Sober, plan, pool
  <2> QED  BY <2>1, <2>2
<1> QED  BY <1>3, <1>5, <1>6

(* The window.  A cancelled step joins it only behind the last member, and   *)
(* then what comes before the step in its chore is completed or a member and *)
(* what comes after the test that failed is cancelled.                       *)
LEMMA OpenWindowTold ==
  ASSUME Chain, OnceInv', Told, NEW n \in Node, OpenWindow(n) PROVE Told'
<1> USE DEF Told
<1>1. /\ interactive # <<>> /\ n = Head(interactive) /\ n \notin cancelled /\ terminal = None
      /\ interactive' = Tail(interactive) /\ phase' = "gather"
      /\ window' = [members |-> <<n>>, at |-> 1, failed |-> 0] /\ phase = "loop"
      /\ UNCHANGED <<plan, pool, outcome, terminal, ready, ran>>
  BY DEF OpenWindow, AtHead
<1>2. /\ Entries(interactive) = {n} \cup Entries(interactive') /\ n \notin good
  <2>1. interactive \in Seq(Node) /\ Distinct(interactive)
    BY DEF Chain, OnceInv, Inside, DriveTypeOK, Once, AllDistinct
  <2> QED  BY <1>1, <2>1, TailDistinct, HeadOnce DEF Chain, OnceInv, Taken
<1>3. window'.members = <<n>>  BY <1>1
<1>4. Len(<<n>>) = 1 /\ <<n>>[1] = n  OBVIOUS
<1>5. Inner' = {n} /\ Inner = {}
  <2>1. Inner' = {n}  BY <1>3, <1>4 DEF Inner, Entries
  <2>2. Inner = {}  BY <1>1, EmptyFacts DEF Chain, OnceInv, Once, NoWindow, Inner
  <2> QED  BY <2>1, <2>2
<1>6. InFlight' = InFlight  BY <1>1, PoolKept DEF Chain
<1>7. Report'  BY <1>1, <1>2, <1>5, ReportSame DEF Report, Cleared
<1>8. Ends' = Ends /\ Unready' = Unready  BY <1>1 DEF Ends, outcome, Unready, plan
<1>9. Around \subseteq Around'  BY <1>1, <1>2, <1>5, <1>6 DEF Around, Waiting
<1>10. Unforgotten'  BY <1>1, <1>8, <1>9, UnforgottenNext
<1>11. Sober'  BY <1>1 DEF Sober
<1> QED  BY <1>7, <1>10, <1>11

LEMMA JoinTold ==
  ASSUME Chain, OnceInv', Told, NEW m \in Node, m \notin good,
         StepsInOrder /\ m \in cancelled => InRecipe(Node, recipe[m]) \subseteq Inner \cup Ends,
         phase = "gather", Entries(interactive) \subseteq Entries(interactive') \cup {m},
         Entries(interactive') \subseteq Entries(interactive),
         window' = [window EXCEPT !.members = Append(@, m)],
         UNCHANGED <<plan, pool, outcome, ready, phase, terminal, ran>>
  PROVE  Told'
<1> USE DEF Told
<1> DEFINE s == window.members
           t == Append(s, m)
<1>1. /\ s \in Seq(Node) /\ window \in [members : Seq(Node), at : Nat, failed : Nat]
  BY WindowTypes DEF Chain, OnceInv, Inside, DriveTypeOK
<1>2. window'.members = t  BY <1>1
<1>3. Entries(t) = Entries(s) \cup {m}  BY <1>1, AppendEntries
<1> HIDE DEF t
<1>4. Inner' = Inner \cup {m}  BY <1>2, <1>3 DEF Inner
<1>5. InFlight' = InFlight  BY PoolKept DEF Chain
<1>6. Report'
  <2>1. Inner' \cap good = Inner \cap good  BY <1>4
  <2>2. ASSUME StepsInOrder, NEW k \in Inner' \cap cancelled
        PROVE  InRecipe(Node, recipe[k]) \subseteq Inner' \cup Ends
    BY <1>4, <2>2 DEF Report, WindowLast
  <2> QED  BY <2>1, <2>2, ReportSame DEF Report, Cleared
<1>7. Ends' = Ends /\ Unready' = Unready  BY DEF Ends, outcome, Unready, plan
<1>8. Around \subseteq Around'  BY <1>4, <1>5 DEF Around, Waiting
<1>9. Unforgotten'  BY <1>7, <1>8, UnforgottenNext
<1>10. Sober'  BY DEF Sober, plan
<1> QED  BY <1>6, <1>9, <1>10

LEMMA GatherTold == ASSUME Chain, OnceInv', Told, Gather PROVE Told'
<1> DEFINE m == Head(interactive)
<1>1. /\ phase = "gather" /\ interactive # <<>> /\ interactive' = Tail(interactive)
      /\ window' = [window EXCEPT !.members = Append(@, m)]
      /\ UNCHANGED <<plan, pool, outcome, ready, phase, terminal, ran>>
  BY DEF Gather, CanGather
<1>2. /\ m \in Node /\ m \in Entries(interactive) /\ m \notin good
      /\ Entries(interactive') \subseteq Entries(interactive)
  BY <1>1, HeadOnce DEF Chain, OnceInv, Taken
<1>3. Entries(interactive) = {m} \cup Entries(interactive')
  <2>1. interactive \in Seq(Node) /\ Distinct(interactive)
    BY DEF Chain, OnceInv, Inside, DriveTypeOK, Once, AllDistinct
  <2> QED  BY <1>1, <2>1, TailDistinct
<1>4. m \notin cancelled  BY <1>2 DEF Told, Report, Cleared
<1> HIDE DEF m
<1> QED  BY <1>1, <1>2, <1>3, <1>4, JoinTold

LEMMA ExtendTold == ASSUME Chain, OnceInv', Told, NEW m \in Node, Extend(m) PROVE Told'
<1> USE DEF Chain, OnceInv
<1> DEFINE l == LastMember
           h == window.members[1]
<1>1. /\ phase = "gather" /\ Follows(m)
      /\ window' = [window EXCEPT !.members = Append(@, m)]
      /\ UNCHANGED <<plan, pool, outcome, interactive, ready, phase, terminal, ran>>
  BY DEF Extend
<1>2. deps[m] \ completed = {l} /\ SameChore(m)  BY <1>1 DEF Follows
<1>3. Len(window.members) >= 1 /\ window.at = 1 /\ window.failed = 0 /\ terminal = None
  BY <1>1 DEF Inside, WindowOK, Once
<1>4. /\ 1 \in 1 .. Len(window.members) /\ Len(window.members) \in 1 .. Len(window.members)
  BY <1>3, WindowTypes
<1>5. l \in Inner /\ h \in Inner /\ l \in Node /\ h \in Node /\ l \notin Taken
  BY <1>3, <1>4, WindowTypes DEF LastMember, Once, Untouched
<1>7. m \notin good  BY <1>2 DEF Fates
<1>8. ASSUME StepsInOrder, m \in cancelled, NEW k \in Node, recipe[k] = recipe[m]
      PROVE  k \in Inner \cup Ends
  <2>1. IsChore(m) /\ recipe[m] = recipe[h]  BY <1>2 DEF SameChore
  <2>2. l \notin completed /\ l \notin bad /\ recipe[l] = recipe[m]
    BY <1>5, <2>1, InnerFacts DEF Taken, KindsOK
  <2>3. CASE l \in cancelled
    BY <1>5, <1>8, <2>2, <2>3 DEF Told, Report, WindowLast, InRecipe
  <2>4. CASE l \notin cancelled
    <3>1. PICK d \in deps[m] : d \in bad \cup cancelled
      <4>1. l \notin Ends /\ l \in deps[m]  BY <1>2, <1>5, <2>2, <2>4 DEF Ends, Taken
      <4> QED  BY <1>8, <4>1 DEF Told, Report, Caused
    <3>2. d \in completed /\ d \in bad  BY <1>2, <2>2, <2>4, <3>1, BookType
    <3>3. kind[d] = "test"  BY <3>2 DEF Told, Report, SoftOK
    <3>4. PICK p \in Plans : deps = p.deps /\ kind = p.kind /\ recipe = p.recipe  BY DEF FromPlan
    <3>5. m \in ChoreWith(p, m)  BY <2>1, <3>4 DEF ChoreWith, IsChore
    <3>6. k \in Upstream(p, m) \cup Downstream(p, d)
      BY <1>8, <3>1, <3>3, <3>4, <3>5 DEF StepsInOrder
    <3>7. CASE k \in Upstream(p, m)
      <4>1. completed \cup Inner \in SUBSET Node  BY BookType, InnerFacts
      <4>2. deps[m] \subseteq completed \cup Inner  BY <1>2, <1>5
      <4>3. \A x \in completed \cup Inner : deps[x] \subseteq completed \cup Inner
        <5>1. \A x \in completed : deps[x] \subseteq completed  BY DEF Once, DepsDone, Taken
        <5>2. ASSUME NEW j \in 1 .. Len(window.members), NEW y \in deps[window.members[j]]
              PROVE  y \in completed \cup Inner
          <6>1. CASE y \in completed  BY <6>1
          <6>2. CASE j > 1 /\ y = window.members[j - 1]
            <7>1. j - 1 \in 1 .. Len(window.members)  BY <6>2, WindowTypes
            <7> QED  BY <6>2, <7>1, WindowTypes
          <6> QED  BY <6>1, <6>2 DEF Inside, WindowOK
        <5>3. \A x \in Inner : deps[x] \subseteq completed \cup Inner
          BY <5>2 DEF Inner, Entries
        <5> QED  BY <5>1, <5>3
      <4>4. k \in completed \cup Inner  BY <3>4, <3>7, <4>1, <4>2, <4>3 DEF Upstream
      <4> QED  BY <4>4, BookType
    <3>8. CASE k \in Downstream(p, d)
      <4>1. cancelled \in SUBSET Node  BY BookType
      <4>2. ASSUME NEW x \in Node, deps[x] \cap ({d} \cup cancelled) # {} PROVE x \in cancelled
        <5>1. PICK y \in deps[x] : y \in {d} \cup cancelled  BY <4>2
        <5>2. x \in Dependents(y)  BY <5>1 DEF Dependents
        <5> QED  BY <3>2, <5>1, <5>2 DEF Inside, FateOK, FailedOK, CancelledOK
      <4>3. k \in cancelled  BY <3>4, <3>8, <4>1, <4>2 DEF Downstream
      <4> QED  BY <4>3 DEF Ends
    <3> QED  BY <3>6, <3>7, <3>8
  <2> QED  BY <2>3, <2>4
<1>10. StepsInOrder /\ m \in cancelled => InRecipe(Node, recipe[m]) \subseteq Inner \cup Ends
  BY <1>8 DEF InRecipe
<1> HIDE DEF l, h
<1>9. Entries(interactive') = Entries(interactive)  BY <1>1
<1> QED  BY <1>1, <1>7, <1>9, <1>10, JoinTold

LEMMA StepTold ==
  ASSUME Chain, OnceInv', Told, NEW n \in Node,
         SkipStep(n) \/ StartStep(n) \/ \E ok \in BOOLEAN : StartWindow(ok)
  PROVE  Told'
<1> USE DEF Told, Chain, OnceInv
<1>1. /\ UNCHANGED <<plan, outcome, interactive, ready, busy, results>>
      /\ window'.members = window.members /\ terminal = None /\ phase' # "done"
      /\ \/ queue' = queue
         \/ queue' = Append(queue, n) /\ StartStep(n)
      /\ terminal' = None \/ (terminal' = n /\ StartStep(n))
  <2>1. window \in [members : Seq(Node), at : Nat, failed : Nat]
        /\ (phase = "gather" => terminal = None)
    BY DEF Inside, DriveTypeOK, WindowOK
  <2>2. CASE SkipStep(n)
    BY <2>1, <2>2 DEF SkipStep, AtStep, InWindow, pool
  <2>3. CASE StartStep(n)
    BY <2>1, <2>3 DEF StartStep, AtStep, InWindow, Submit
  <2>4. CASE \E ok \in BOOLEAN : StartWindow(ok)
    BY <2>1, <2>4 DEF StartWindow, pool
  <2> QED  BY <2>2, <2>3, <2>4
<1>2. Inner' = Inner  BY <1>1 DEF Inner
<1>3. ASSUME StartStep(n) PROVE n \in Inner /\ kind[n] # "test" /\ n \notin InFlight
  <2>1. AtStep(n) /\ phase = "window" /\ terminal = None /\ window.failed = 0
    BY <1>3 DEF StartStep, AtStep, InWindow
  <2>2. window.at \in 1 .. Len(window.members) /\ n = window.members[window.at]
    BY <2>1, WindowTypes DEF AtStep
  <2>3. n \in Inner /\ n \notin Taken  BY <2>1, <2>2, WindowTypes DEF Once, Untouched
  <2> QED  BY <2>3, InnerFacts, PoolParts DEF Taken
<1>4. InFlight \subseteq InFlight'
  <2>1. CASE queue' = queue
    BY <1>1, <2>1 DEF InFlight, InQueue, Executing, InChannel
  <2>2. CASE queue' = Append(queue, n) /\ StartStep(n)
    BY <1>1, <1>3, <2>2, SubmitApart
  <2> QED  BY <1>1, <2>1, <2>2
<1>5. Report'  BY <1>1, <1>2, ReportSame DEF Report, Cleared, WindowLast
<1>6. Ends' = Ends /\ Unready' = Unready  BY <1>1 DEF Ends, outcome, Unready, plan
<1>7. Around \subseteq Around'  BY <1>1, <1>2, <1>4 DEF Around, Waiting
<1>8. Unforgotten'  BY <1>1, <1>6, <1>7, NodeFacts, UnforgottenNext
<1>9. Sober'  BY <1>1, <1>3 DEF Sober, plan
<1> QED  BY <1>5, <1>8, <1>9

LEMMA StepEndsTold ==
  ASSUME Chain, OnceInv', Told, phase = "window", terminal # None,
         InFlight \subseteq InFlight' \cup {terminal}, NEW ok \in BOOLEAN, StepEnds(ok)
  PROVE  Told'
<1> USE DEF Told
<1> DEFINE n == terminal
<1>1. /\ terminal' = None /\ UNCHANGED <<plan, interactive, phase, cancelled, bad, book, failures, rows>>
      /\ window \in [members : Seq(Node), at : Nat, failed : Nat] /\ ready = <<>>
  BY DEF StepEnds, Quiet, Chain, OnceInv, Inside, DriveTypeOK
<1>2. n \in Node /\ n \in Inner /\ n \notin Ends /\ n \notin completed
  <2>1. n \in Node /\ n \in ran /\ n \notin good \cup bad /\ n \notin cancelled
    BY DEF Chain, OnceInv, Inside, DriveTypeOK, HandedOK, Fates
  <2>2. window.at \in 1 .. Len(window.members) /\ n = window.members[window.at]
    BY WindowTypes DEF Chain, OnceInv, Inside, WindowOK
  <2>3. n \in Inner  BY <2>2, WindowTypes DEF Chain, OnceInv
  <2>4. completed \subseteq Ends  BY BookType
  <2> QED  BY <2>1, <2>3, <2>4 DEF Ends
<1>3. Sober'  BY <1>1 DEF Sober
<1> HIDE DEF n
<1>4. CASE ok
  <2>1. /\ window' = [window EXCEPT !.at = @ + 1]
        /\ completed' = completed \cup {n} /\ good' = good \cup {n}
    BY <1>4 DEF StepEnds, n
  <2>2. PICK s \in Listings(Released(n) \ Members) : ready' = s  BY <1>4 DEF StepEnds, n
  <2>3. Released(n) \ Members \in SUBSET Node  BY DEF Released, Dependents
  <2>4. Entries(ready') = Released(n) \ Inner
    BY <2>2, <2>3, ListingOnto, MembersInner DEF Chain, OnceInv
  <2>5. Inner' = Inner
    <3>1. window'.members = window.members  BY <1>1, <2>1
    <3> QED  BY <3>1 DEF Inner
  <2>6. Report'  BY <1>1, <1>2, <2>1, <2>5, ReportStep
  <2>7. Ends' = Ends \cup {n}  BY <1>1, <2>1 DEF Ends
  <2>8. ASSUME NEW m \in Unready, m \notin Unready' PROVE m \in Released(n)
    <3>1. deps[m] \ completed = {n} /\ m \in Node  BY <1>1, <2>1, <2>8 DEF Unready, plan
    <3> QED  BY <1>2, <3>1 DEF Released, Dependents
  <2>9. \A x \in Unready : x \in Unready' \cup Around'
    BY <2>4, <2>5, <2>8 DEF Around, Waiting
  <2>10. Around \subseteq Around' \cup {n}
    BY <1>1, <2>5, EmptyFacts DEF Around, Waiting, n
  <2>11. Unforgotten'  BY <2>7, <2>9, <2>10, UnforgottenNext DEF n
  <2> QED  BY <1>3, <2>6, <2>11
<1>5. CASE ~ok
  <2>1. window' = [window EXCEPT !.failed = window.at] /\ UNCHANGED <<completed, good, ready>>
    BY <1>5 DEF StepEnds
  <2>2. Inner' = Inner
    <3>1. window'.members = window.members  BY <1>1, <2>1
    <3> QED  BY <3>1 DEF Inner
  <2>3. UNCHANGED <<plan, outcome>>  BY <1>1, <2>1 DEF outcome
  <2>4. Report'  BY <1>1, <2>2, <2>3, ReportSame DEF Report, Cleared, WindowLast
  <2>5. Ends' = Ends /\ Unready' = Unready  BY <2>3 DEF Ends, outcome, Unready, plan
  <2>6. Around \subseteq Around'
    BY <1>1, <1>2, <2>1, <2>2 DEF Around, Waiting, n
  <2>7. n \in Around'  BY <1>2, <2>2 DEF Around
  <2>8. Unforgotten'  BY <2>5, <2>6, <2>7, UnforgottenNext DEF n
  <2> QED  BY <1>3, <2>4, <2>8
<1> QED  BY <1>4, <1>5

LEMMA EndStepTold ==
  ASSUME Chain, OnceInv', Told, NEW ok \in BOOLEAN, EndShellStep(ok) \/ EndLuaStep PROVE Told'
<1>1. CASE EndShellStep(ok)
  <2>1. phase = "window" /\ terminal # None /\ StepEnds(ok) /\ UNCHANGED pool
    BY <1>1 DEF EndShellStep
  <2>2. InFlight' = InFlight  BY <2>1, PoolKept DEF Chain
  <2> QED  BY <2>1, <2>2, StepEndsTold
<1>2. CASE EndLuaStep
  <2>1. /\ phase = "window" /\ terminal # None /\ kind[terminal] = "choreLua" /\ results # <<>>
        /\ StepEnds(Head(results).ok) /\ results' = Tail(results)
        /\ UNCHANGED <<queue, busy>>
    BY <1>2 DEF EndLuaStep
  <2>2. /\ Head(results).node \in InFlight
        /\ InFlight \subseteq InFlight' \cup {Head(results).node}
    BY <2>1, ReceiveApart, ReceiveKeeps DEF Chain, OnceInv
  <2>3. Head(results).node = terminal  BY <2>1, <2>2 DEF Chain, TerminalAlone, AwaitsLua
  <2>4. Head(results).ok \in BOOLEAN  BY <2>1, ResultsTail DEF Chain, OnceInv, Inside
  <2> QED  BY <2>1, <2>2, <2>3, <2>4, StepEndsTold
<1> QED  BY <1>1, <1>2

LEMMA CloseWindowTold ==
  ASSUME Chain, OnceInv', Told, ~DrainMayFail, NEW survives \in BOOLEAN, CloseWindow(survives)
  PROVE  Told'
<1> DEFINE last == Len(window.members)
           k == window.failed
           Between(i, j) == {window.members[x] : x \in i .. j}
           n == window.members[k]
           before == Between(1, k - 1)
           tail == Between(k + 1, last)
           left == tail \ cancelled
           cone == Cascade(Between(k, last), cancelled \cup left)
<1>1. /\ phase = "window" /\ phase' = "loop" /\ window' = NoWindow /\ terminal = None
      /\ terminal' = None /\ ~survives
      /\ UNCHANGED <<plan, pool, interactive, completed, ready>>
      /\ k # 0 \/ window.at > last
  BY DEF CloseWindow, InWindow
<1>2. Inner' = {}
  <2>1. window'.members = <<>>  BY <1>1 DEF NoWindow
  <2> QED  BY <2>1, EmptyFacts DEF Inner
<1>3. /\ last \in Nat /\ k \in Nat /\ window.at \in Nat /\ window.at <= last + 1
      /\ \A j \in 1 .. last : window.members[j] \in Node /\ window.members[j] \in Inner
      /\ \A j \in 1 .. window.at - 1 : window.members[j] \in completed \cup cancelled
  BY WindowTypes DEF Chain, OnceInv, Inside, WindowOK
<1>4. Report  BY DEF Told
<1>10. /\ Inside /\ Once /\ Fates /\ Failing /\ Apart  BY DEF Chain, OnceInv
<1>5. Report' /\ Ends \cup Inner \subseteq Ends'
  <2>1. CASE k = 0
    <3>1. /\ book' = TickOk(book, Inner)
          /\ UNCHANGED <<cancelled, good, bad, failures, rows>>
      BY <1>1, <2>1, <1>10, MembersInner DEF CloseWindow
    <3>2. \A j \in 1 .. last : j \in 1 .. window.at - 1  BY <1>1, <1>3, <2>1
    <3>3. Inner \subseteq completed \cup cancelled  BY <1>3, <3>2 DEF Inner, Entries
    <3>4. Report'  BY <1>1, <1>2, <1>4, <3>1, <3>3, CloseOkReport
    <3>5. Ends' = Ends /\ Inner \subseteq Ends  BY <3>1, <3>3, BookType DEF Ends
    <3> QED  BY <3>4, <3>5
  <2>2. CASE k # 0
    <3>1. /\ cancelled' = cancelled \cup left \cup cone
          /\ good' = good \ {n} /\ bad' = bad \cup {n} /\ failures' = failures \cup {n}
          /\ book' = TickSkipped(TickFailed(TickOk(book, before), {n}), cone)
          /\ rows' = BlockedRows(rows, cone)
      BY <1>1, <2>2 DEF CloseWindow
    <3>2. k \in 1 .. last /\ k = window.at
      BY <1>3, <1>10, <2>2 DEF Inside, WindowOK, Failing
    <3>3. n \notin cancelled \cup good \cup bad /\ deps[n] \subseteq good /\ n \in Inner
      BY <1>3, <1>10, <2>2, <3>2 DEF Failing
    <3>4. \A j \in k + 1 .. last : j \in 1 .. last /\ j > window.at /\ j # k /\ j - 1 \in k .. last
      BY <1>3, <3>2
    <3>5. \A j \in k + 1 .. last :
            /\ window.members[j] \in Inner /\ window.members[j] \notin Taken
            /\ window.members[j] # n
      BY <1>3, <1>10, <3>2, <3>4 DEF Once, Untouched, AllDistinct, Distinct
    <3>6. tail \in SUBSET Inner /\ n \notin tail /\ tail \cap (good \cup bad) = {}
      BY <3>5, InnerFacts DEF Taken
    <3>7. \A j \in 1 .. k - 1 : j \in 1 .. last /\ j \in 1 .. window.at - 1  BY <1>3, <3>2
    <3>8. before \in SUBSET Inner /\ before \subseteq completed \cup cancelled
      BY <1>3, <3>7
    <3>9. Between(k, last) = {n} \cup tail
      <4>1. \A j \in k .. last : j = k \/ j \in k + 1 .. last  BY <1>3, <3>2
      <4>2. k \in k .. last /\ \A j \in k + 1 .. last : j \in k .. last  BY <1>3, <3>2
      <4> QED  BY <4>1, <4>2
    <3>10. Inner = before \cup {n} \cup tail
      <4>1. \A j \in 1 .. last : j \in 1 .. k - 1 \/ j = k \/ j \in k + 1 .. last  BY <1>3, <3>2
      <4>2. Inner = {window.members[j] : j \in 1 .. last}  BY DEF Inner, Entries
      <4> QED  BY <3>3, <3>6, <3>8, <4>1, <4>2
    <3>11. \A m \in tail : deps[m] \subseteq completed \cup {n} \cup tail
      <4>1. ASSUME NEW j \in k + 1 .. last, NEW d \in deps[window.members[j]]
            PROVE  d \in completed \cup {n} \cup tail
        <5>1. d \in completed \/ d = window.members[j - 1]
          BY <1>10, <3>4, <4>1 DEF Inside, WindowOK
        <5>2. window.members[j - 1] \in {n} \cup tail  BY <3>4, <3>9
        <5> QED  BY <5>1, <5>2
      <4> QED  BY <4>1
    <3>12. n \notin Ends /\ deps[n] \subseteq completed
      BY <1>10, <3>3 DEF Ends, Fates
    <3> HIDE DEF n, k, last, before, tail, Between
    <3>13. left = tail \ cancelled /\ cone = Cascade({n} \cup tail, cancelled \cup left)
      BY <3>9
    <3> HIDE DEF left, cone
    <3>14. good' = good  BY <3>1, <3>3
    <3>18. ClosesFailed(n, before, tail, left, cone)
      BY <1>1, <1>2, <3>1, <3>3, <3>6, <3>8, <3>10, <3>11, <3>12, <3>13, <3>14 DEF ClosesFailed
    <3>15. Report'  BY <1>4, <3>18, CloseFailedReport
    <3>16. Ends \subseteq Ends' /\ {n} \subseteq Ends' /\ tail \subseteq Ends'
      BY <3>1, <3>13, <3>14 DEF Ends
    <3>17. before \subseteq Ends'  BY <3>8, <3>16, BookType DEF Ends
    <3> QED  BY <3>10, <3>15, <3>16, <3>17
  <2> QED  BY <2>1, <2>2
<1> HIDE DEF last, k, n, before, tail, left, cone, Between
<1>6. InFlight' = InFlight  BY <1>1, <1>10, PoolKept
<1>7. Around \subseteq Around' \cup Ends' /\ Unready' = Unready
  BY <1>1, <1>5, <1>6 DEF Around, Waiting, Unready, plan
<1>8. Unforgotten'  BY <1>1, <1>5, <1>7, UnforgottenNext DEF Told
<1>9. Sober'  BY <1>1 DEF Sober
<1> QED  BY <1>5, <1>8, <1>9 DEF Told

LEMMA NextTold == ASSUME Chain, OnceInv', ~DrainMayFail, Told, [Next]_vars PROVE Told'
<1>1. CASE ProcessReady  BY <1>1, ProcessReadyTold
<1>2. CASE Interact  BY <1>2, InteractTold
<1>3. CASE \E n \in Node : OpenWindow(n) \/ Extend(n) \/ SkipStep(n) \/ StartStep(n)
  BY <1>3, OpenWindowTold, ExtendTold, StepTold
<1>4. CASE \E ok \in BOOLEAN : StartWindow(ok) \/ EndShellStep(ok) \/ CloseWindow(ok)
  <2>1. \E n \in Node : TRUE
    <3>1. 0 \in Node  BY NodeCountAssumption DEF Node
    <3> QED  BY <3>1
  <2> QED  BY <1>4, <2>1, StepTold, EndStepTold, CloseWindowTold
<1>5. CASE EndLuaStep
  <2>1. TRUE \in BOOLEAN  OBVIOUS
  <2> QED  BY <1>5, <2>1, EndStepTold
<1>6. CASE Gather  BY <1>6, GatherTold
<1>7. ASSUME NEW n \in Node, NEW ok \in BOOLEAN, Receive([node |-> n, ok |-> ok]) PROVE Told'
  <2>1. [node |-> n, ok |-> ok] \in [node : Node, ok : BOOLEAN]  OBVIOUS
  <2> QED  BY <1>7, <2>1, ReceiveTold
<1>8. ASSUME NEW w \in Workers, Worker(w) PROVE Told'  BY <1>8, WorkerTold
<1>9. CASE Stop \/ UNCHANGED vars  BY <1>9, StopTold
<1> QED  BY <1>1, <1>2, <1>3, <1>4, <1>5, <1>6, <1>7, <1>8, <1>9 DEF Next, MainThread, Window

LEMMA InitTold == ASSUME Init PROVE Told
<1>1. /\ completed = {} /\ cancelled = {} /\ good = {} /\ bad = {} /\ failures = {}
      /\ book = [r \in Recipes |->
                  [done |-> 0, skipped |-> 0, failed |-> FALSE, verdicts |-> <<>>]]
      /\ rows = [n \in Node |-> <<>>] /\ ready \in Listings(InitialReady)
      /\ interactive = <<>> /\ window.members = <<>> /\ terminal = None /\ phase = "loop"
  BY DEF Init, NoWindow
<1>2. Ends = {} /\ Inner = {} /\ Counted = {} /\ Entries(interactive) = {}
  BY <1>1, EmptyFacts DEF Ends, Inner, Counted
<1>3. Unforgotten
  <2>1. InitialReady \in SUBSET Node  BY DEF InitialReady
  <2>2. Entries(ready) = InitialReady  BY <1>1, <2>1, ListingOnto
  <2>3. \A n \in Node : n \in InitialReady \/ n \in Unready
    BY <1>1 DEF InitialReady, Unready
  <2> QED  BY <2>2, <2>3 DEF Unforgotten, Around, Waiting
<1>4. Sober  BY <1>1 DEF Sober
<1>5. RowsOK /\ Cleared /\ Caused /\ SoftOK /\ WindowLast
  BY <1>1, <1>2 DEF RowsOK, Cleared, Caused, SoftOK, WindowLast
<1>6. ASSUME NEW r \in Recipes PROVE TallyOf(book[r], r, Counted, Counted, failures, cancelled)
  <2>1. book[r] = [done |-> 0, skipped |-> 0, failed |-> FALSE, verdicts |-> <<>>]
    BY <1>1
  <2> DEFINE b == book[r]
  <2>2. b.done = 0 /\ b.skipped = 0 /\ b.failed = FALSE /\ b.verdicts = <<>>
    BY <2>1
  <2>3. InRecipe({}, r) = {} /\ Total(r) \in Nat
    BY InRecipeFacts DEF InRecipe
  <2>4. Cardinality({}) = 0  BY FS_EmptySet
  <2>5. Len(b.verdicts) = 0  BY <2>2
  <2> HIDE DEF b
  <2>6. TallyOf(b, r, {}, {}, {}, {})
    <3>1. Cardinality(InRecipe({}, r)) = 0  BY <2>3, <2>4
    <3>2. b.verdicts # <<>> <=> b.done >= Total(r) /\ Total(r) > 0  BY <2>2, <2>3
    <3>3. Len(b.verdicts) <= 1 /\ ~(b.skipped > 0)  BY <2>2, <2>5
    <3>4. b.failed <=> InRecipe({}, r) # {}  BY <2>2, <2>3
    <3>5. b.done <= 0 /\ b.done = 0 /\ b.verdicts = <<>>  BY <2>2
    <3> HIDE DEF b
    <3> QED  BY <3>1, <3>2, <3>3, <3>4, <3>5 DEF TallyOf
  <2> QED  BY <1>1, <1>2, <2>6 DEF b
<1> QED  BY <1>3, <1>4, <1>5, <1>6 DEF Told, Report, Tally

(* When the run stops nothing waits, so the unit of least id without an end  *)
(* would have a dependency without one.                                      *)
LEMMA AllEnd ==
  ASSUME Chain, Told, phase = "done"
  PROVE  Ends = Node /\ InFlight = {} /\ Inner = {}
<1> USE DEF Chain, OnceInv, Told
<1>1. pending = 0 /\ ready = <<>> /\ interactive = <<>> /\ terminal = None  BY DEF Sober
<1>2. InFlight = {}  BY <1>1, NothingInFlight DEF AwaitsLua
<1>3. Inner = {}  BY EmptyFacts DEF Once, NoWindow, Inner
<1>4. \A n \in Node : n \in Ends \cup Unready
  BY <1>1, <1>2, <1>3, EmptyFacts, NodeFacts DEF Unforgotten, Around, Waiting
<1> DEFINE Rest == Node \ Ends
<1>5. Rest = {}
  <2> SUFFICES ASSUME Rest # {} PROVE FALSE
    OBVIOUS
  <2>1. Rest \subseteq Nat  BY NodeFacts
  <2> HIDE DEF Rest
  <2>2. PICK n \in Rest : \A m \in Rest : ~(<<m, n>> \in OpToRel(<, Nat))
    BY <2>1, WFMin, NatLessThanWellFounded
  <2>3. \A m \in Rest : ~(m < n)  BY <2>1, <2>2 DEF OpToRel
  <2>4. n \in Node /\ n \notin Ends  BY <2>2 DEF Rest
  <2>5. PICK d \in deps[n] : d \notin completed  BY <1>4, <2>4 DEF Unready
  <2>6. d \in Node /\ d < n  BY <2>4, <2>5, PlansAssumption DEF FromPlan, Inside, PlanTypeOK
  <2>7. d \in Ends  BY <2>3, <2>6 DEF Rest
  <2>8. d \notin good  BY <2>5 DEF Fates
  <2>9. n \in cancelled
    BY <2>4, <2>5, <2>6, <2>7, <2>8 DEF Ends, Inside, FateOK, FailedOK, CancelledOK, Dependents
  <2> QED  BY <2>4, <2>9 DEF Ends
<1>6. Ends \in SUBSET Node  BY BookType
<1> QED  BY <1>2, <1>3, <1>5, <1>6

LEMMA ToldAtEnd ==
  ASSUME Chain, Told PROVE AllAccountedFor /\ TestsReported /\ VerdictGiven
<1> SUFFICES ASSUME phase = "done"
             PROVE  AllAccountedFor /\ TestsReported /\ VerdictGiven
  BY DEF AllAccountedFor, TestsReported, VerdictGiven
<1>1. Ends = Node /\ InFlight = {} /\ Inner = {}  BY AllEnd
<1>2. good \cap bad = {} /\ cancelled \cap (good \cup bad) = {}  BY DEF Chain, Fates
<1>3. AllAccountedFor  BY <1>1 DEF AllAccountedFor, Ends
<1>4. TestsReported
  <2> SUFFICES ASSUME NEW n \in Node, kind[n] = "test"
               PROVE  /\ Len(rows[n]) = 1
                      /\ rows[n][1] = "blocked" <=> n \in cancelled
                      /\ rows[n][1] = "failed" <=> n \in bad
    BY DEF TestsReported
  <2>1. /\ n \in cancelled => rows[n] = <<"blocked">>
        /\ n \in bad => rows[n] = <<"failed">>
        /\ n \in good => rows[n] \in {<<"cached">>, <<"passed">>}
    BY DEF Told, Report, RowsOK
  <2>2. CASE n \in cancelled  BY <1>2, <2>1, <2>2
  <2>3. CASE n \in bad  BY <1>2, <2>1, <2>3
  <2>4. CASE n \in good  BY <1>2, <2>1, <2>4
  <2> QED  BY <1>1, <2>2, <2>3, <2>4 DEF Ends
<1>5. VerdictGiven
  <2> SUFFICES ASSUME NEW r \in Recipes, InRecipe(Node, r) # {},
                      \A n \in InRecipe(Node, r) : ~IsChore(n)
               PROVE  /\ Len(book[r].verdicts) = 1
                      /\ book[r].verdicts[1] = "failed" <=> InRecipe(failures, r) # {}
                      /\ book[r].verdicts[1] = "skipped" =>
                           InRecipe(cancelled, r) # {} /\ InRecipe(failures, r) = {}
    BY DEF VerdictGiven
  <2> DEFINE b == book[r]
  <2>1. TallyOf(b, r, Node, Node, failures, cancelled)
    BY <1>1 DEF Told, Report, Tally, Counted
  <2>2. Chorefree(r)  BY DEF Chorefree
  <2>3. /\ Total(r) \in Nat /\ Total(r) > 0 /\ Cardinality(InRecipe(Node, r)) = Total(r)
    BY InRecipeFacts DEF Total
  <2>4. b.verdicts \in Seq({"completed", "skipped", "failed"})
    BY BookType DEF Books
  <2> HIDE DEF b
  <2>5. b.done = Total(r)  BY <2>1, <2>2, <2>3 DEF TallyOf
  <2>6. b.verdicts # <<>>  BY <2>1, <2>3, <2>5 DEF TallyOf
  <2>7. Len(b.verdicts) = 1
    <3>1. Len(b.verdicts) <= 1  BY <2>1 DEF TallyOf
    <3>2. Len(b.verdicts) \in Nat /\ Len(b.verdicts) # 0
      BY <2>4, <2>6, EmptySeq, LenProperties
    <3>3. \A l \in Nat : l <= 1 /\ l # 0 => l = 1  OBVIOUS
    <3> QED  BY <3>1, <3>2, <3>3
  <2>8. b.verdicts[1] = Verdict(b.failed, b.skipped)  BY <2>1, <2>2, <2>6 DEF TallyOf
  <2>9. b.failed <=> InRecipe(failures, r) # {}  BY <2>1 DEF TallyOf
  <2>10. b.skipped > 0 => InRecipe(cancelled, r) # {}  BY <2>1 DEF TallyOf
  <2> QED  BY <2>7, <2>8, <2>9, <2>10 DEF Verdict, b
<1> QED  BY <1>3, <1>4, <1>5

LastVerdict(r) ==
  book[r].verdicts # <<>> =>
    /\ Len(book[r].verdicts) = 1
    /\ InRecipe(Node, r) \subseteq (good \cup bad \cup cancelled) \ InFlight

LEMMA VerdictsLast ==
  ASSUME Chain, Told, NEW r \in Recipes, StepsInOrder \/ Chorefree(r) PROVE LastVerdict(r)
<1> SUFFICES ASSUME book[r].verdicts # <<>>
             PROVE  /\ Len(book[r].verdicts) = 1
                    /\ InRecipe(Node, r) \subseteq (good \cup bad \cup cancelled) \ InFlight
  BY DEF LastVerdict
<1> DEFINE b == book[r]
<1>1. TallyOf(b, r, Counted, Counted, failures, cancelled)
  BY DEF Told, Report, Tally
<1>2. /\ b.verdicts \in Seq({"completed", "skipped", "failed"}) /\ b.done \in Nat
      /\ Counted \in SUBSET Node
  BY BookType DEF Books
<1>3. b.verdicts # <<>>  OBVIOUS
<1> HIDE DEF b
<1>4. Len(b.verdicts) = 1
  <2>1. Len(b.verdicts) <= 1  BY <1>1 DEF TallyOf
  <2>2. Len(b.verdicts) \in Nat /\ Len(b.verdicts) # 0
    BY <1>2, <1>3, EmptySeq, LenProperties
  <2>3. \A l \in Nat : l <= 1 /\ l # 0 => l = 1  OBVIOUS
  <2> QED  BY <2>1, <2>2, <2>3
<1>5. InRecipe(Counted, r) = InRecipe(Node, r)
  <2> SUFFICES ASSUME ~(InRecipe(Node, r) \subseteq Counted)
               PROVE  InRecipe(Counted, r) = InRecipe(Node, r)
    BY <1>2 DEF InRecipe
  <2>3. b.done \in Nat /\ Cardinality(InRecipe(Counted, r)) \in Nat  BY <1>2, InRecipeFacts
  <2>1. b.done >= Total(r) /\ b.done <= Cardinality(InRecipe(Counted, r))
    BY <1>1, <1>3, <2>3 DEF TallyOf, Behind
  <2>2. /\ Cardinality(InRecipe(Counted, r)) \in Nat /\ Total(r) \in Nat
        /\ Cardinality(InRecipe(Counted, r)) <= Total(r)
        /\ Cardinality(InRecipe(Counted, r)) = Total(r) =>
             InRecipe(Counted, r) = InRecipe(Node, r)
    BY <1>2, InRecipeFacts
  <2> QED  BY <1>2, <2>1, <2>2
<1>6. InRecipe(Counted, r) \subseteq good \cup bad \cup cancelled
  BY DEF InRecipe, Counted, Ends
<1>7. InFlight \cap (good \cup bad \cup cancelled) = {}
  <2>1. InFlight \subseteq ran  BY PoolParts DEF Chain, OnceInv
  <2> QED  BY <2>1 DEF Chain, Fates, Around
<1> QED  BY <1>4, <1>5, <1>6, <1>7 DEF b

(* All that the proofs of the contract and of the report establish, at once. *)
LEMMA ChainTold == ASSUME ~DrainMayFail PROVE Spec => [](Chain /\ Told)
<1>1. Init => FromPlan /\ Quiet
  <2> SUFFICES ASSUME Init PROVE FromPlan /\ Quiet
    OBVIOUS
  <2>1. FromPlan  BY DEF Init, FromPlan
  <2>2. terminal = None /\ phase = "loop"  BY DEF Init
  <2> QED  BY <2>1, <2>2 DEF Quiet
<1>2. Init => Apart /\ Fates /\ Failing  BY InitChain
<1>3. Init => Told  BY InitTold
<1>4. OnceInv /\ OnceInv' /\ FromPlan /\ Quiet /\ [Next]_vars => FromPlan' /\ Quiet'
  BY NextQuiet DEF OnceInv
<1>5. Chain /\ OnceInv' /\ [Next]_vars => Apart' /\ Fates' /\ Failing'
  BY NextChain DEF Goal
<1>6. Chain /\ OnceInv' /\ Told /\ [Next]_vars => Told'  BY NextTold
<1>7. Chain <=> /\ OnceInv /\ FromPlan /\ Quiet /\ PendingExact /\ TerminalAlone
                /\ Apart /\ Fates /\ Failing
  BY DEF Chain
<1> QED
  BY <1>1, <1>2, <1>3, <1>4, <1>5, <1>6, <1>7, OnceInvariance, PendingExactCorrect,
     TerminalAloneCorrect, PTL DEF Spec

(* When the run stops every unit has an end, every test has one row that     *)
(* says what became of it, and every recipe without a chore step has its one *)
(* verdict: "failed" for a hard failure of its own, "skipped" only if it was *)
(* held up; and that verdict never came while a unit of the recipe was still *)
(* to run.  For every plan, and any number of workers.                       *)
THEOREM RunAccounted ==
  ~DrainMayFail =>
    (Spec => [](/\ AllAccountedFor /\ TestsReported /\ VerdictGiven
                /\ \A r \in Recipes : Chorefree(r) => LastVerdict(r)))
<1> DEFINE Accounted == /\ AllAccountedFor /\ TestsReported /\ VerdictGiven
                        /\ \A r \in Recipes : Chorefree(r) => LastVerdict(r)
<1> SUFFICES ASSUME ~DrainMayFail PROVE Spec => []Accounted
  OBVIOUS
<1>1. Spec => [](Chain /\ Told)  BY ChainTold
<1>2. Chain /\ Told => Accounted  BY ToldAtEnd, VerdictsLast
<1> QED  BY <1>1, <1>2, PTL

(* The whole of what the run tells, the verdict of a chore included: none is *)
(* given while a step of the chore is still to run, in plans where a test    *)
(* that one step of a chore waits for holds up every unit of the chore that  *)
(* does not come before that step.  Elsewhere a step is ticked when it is    *)
(* cancelled and again when its window closes, and the count runs ahead.     *)
THEOREM OutcomeToldCorrect ==
  ~DrainMayFail /\ StepsInOrder => (Spec => []OutcomeTold)
<1> SUFFICES ASSUME ~DrainMayFail, StepsInOrder PROVE Spec => []OutcomeTold
  OBVIOUS
<1>1. Spec => [](Chain /\ Told)  BY ChainTold
<1>2. Chain /\ Told => OutcomeTold
  <2> SUFFICES ASSUME Chain, Told PROVE OutcomeTold
    OBVIOUS
  <2>1. \A r \in Recipes : LastVerdict(r)  BY VerdictsLast
  <2>2. VerdictLast  BY <2>1 DEF VerdictLast, LastVerdict
  <2> QED  BY <2>2, ToldAtEnd DEF OutcomeTold
<1> QED  BY <1>1, <1>2, PTL
=============================================================================
