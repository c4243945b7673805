------------------------ MODULE ArtifactStoreProofs ------------------------
(***************************************************************************)
(* The store on disk for any number of processes, keys, shards and damages.*)
(* What a read may promise is inductive only with what the writers know    *)
(* between two file operations: who holds the lock of the key he works on  *)
(* (LockHeld), that nothing accepted stands where a put is about to rename *)
(* or a removal has begun (Unserved), and that a blob placed is the blob   *)
(* the sidecar will name (Placed).  What a sweep leaves is a sum: CalmInv  *)
(* says that what it has listed accounts, key by key, for what stands, and *)
(* what it is not to remove fits its goal.                                 *)
(***************************************************************************)
EXTENDS ArtifactStore, FiniteSetTheorems, WellFoundedInduction, TLAPS

Placing == {"decide", "place", "sidecar"}
Removing == {"unserve", "unlink", "unmanifest"}

(* What an operation holds in each of its phases.                            *)
PutShape(o) ==
  /\ o.pc \in {"staged"} \cup Placing
  /\ o.key \in Keys /\ o.val \in Contents
  /\ o = [pc |-> o.pc, key |-> o.key, val |-> o.val]
ManifestShape(o) ==
  o.pc = "manifest" /\ o.key \in Described /\ o = [pc |-> o.pc, key |-> o.key]
OpenShape(o) ==
  /\ o.pc = "open" /\ o.key \in Keys /\ o.hash \in Contents
  /\ o = [pc |-> o.pc, key |-> o.key, hash |-> o.hash]
StreamShape(o) ==
  /\ o.pc = "stream" /\ o.key \in Keys /\ o.hash \in Contents
  /\ o.got \in Contents \cup {Rotten}
  /\ o = [pc |-> o.pc, key |-> o.key, hash |-> o.hash, got |-> o.got]
ReadShape(o) ==
  /\ o.pc = "read" /\ o.key \in Keys /\ o.got \in Contents \cup {Absent}
  /\ o = [pc |-> o.pc, key |-> o.key, got |-> o.got]
RemoveShape(o) ==
  /\ o.pc \in {"remove"} \cup Removing
  /\ o.victims \in Seq(Keys)
  /\ o.pc \in Removing => o.victims # <<>>
  /\ o = [pc |-> o.pc, victims |-> o.victims, goal |-> o.goal]
ListShape(o) ==
  /\ o.pc = "list" /\ IsFiniteSet(o.found) /\ \A c \in o.found : c.key \in Keys
  /\ o = [pc |-> o.pc, todo |-> o.todo, found |-> o.found]
KindShape(o) ==
  /\ o.pc = "kind" /\ IsFiniteSet(o.found) /\ \A c \in o.found : c.key \in Keys
  /\ o.cand = Candidate(o.cand.key, o.cand.size, o.cand.last, o.cand.kind)
  /\ o.cand.key \in Keys
  /\ o = [pc |-> o.pc, todo |-> o.todo, found |-> o.found, cand |-> o.cand]
Shape(o) ==
  \/ o = Idle \/ PutShape(o) \/ ManifestShape(o) \/ OpenShape(o) \/ StreamShape(o)
  \/ ReadShape(o) \/ RemoveShape(o) \/ ListShape(o) \/ KindShape(o)

States == Contents \cup {Absent, Rotten}

Typed ==
  /\ blob \in [Keys -> States] /\ meta \in [Keys -> States]
  /\ holder \in [Range(ShardOf) -> Procs \cup {NoMan}]
  /\ standing \in [Keys -> Contents \cup {None}]
  /\ owed \in [Procs -> Contents \cup {None}]
  /\ spare \in [Procs -> SUBSET Keys]
  /\ DOMAIN op = Procs /\ op = [p \in Procs |-> op[p]] /\ \A p \in Procs : Shape(op[p])

(* The process works under the lock of the key.                              *)
Works(p, k) ==
  \/ op[p].pc \in Placing \cup {"manifest"} /\ op[p].key = k
  \/ op[p].pc \in Removing /\ Head(op[p].victims) = k

LockHeld(p) == \A k \in Keys : Works(p, k) => holder[ShardOf[k]] = p

(* Where a put is past its decision or a removal past its lock, nothing      *)
(* accepted stands.                                                          *)
Unserved(p) ==
  \A k \in Keys : Works(p, k) /\ op[p].pc \notin {"decide", "manifest"} => standing[k] = None

Placed(p) == At(p, "sidecar") => blob[op[p].key] \in {op[p].val, Rotten}

OwedKept(p) ==
  owed[p] # None =>
    /\ op[p].pc \in {"open", "stream", "read"}
    /\ standing[op[p].key] = owed[p]
    /\ op[p].pc \in {"open", "stream"} => op[p].hash = owed[p]
    /\ op[p].pc \in {"stream", "read"} => op[p].got = owed[p]

(* A route that is to survive stands, and the sweep that is under way has    *)
(* seen it as one, or has not listed it.                                     *)
Spared(p) ==
  \A k \in spare[p] :
    /\ standing[k] # None /\ KindOf[k] = "route"
    /\ op[p].pc \in {"list", "kind", "remove"} \cup Removing
    /\ op[p].pc \in {"list", "kind"} => \A c \in op[p].found : c.key = k => c.kind = "route"
    /\ op[p].pc \in {"remove"} \cup Removing =>
         \A i \in DOMAIN op[p].victims : op[p].victims[i] # k

Own(p) == LockHeld(p) /\ Unserved(p) /\ Placed(p) /\ OwedKept(p) /\ Spared(p)

StandingTrue ==
  \A k \in Keys : standing[k] # None => blob[k] = standing[k] /\ meta[k] = standing[k]

IInv == Typed /\ StandingTrue /\ \A p \in Procs : Own(p)

----------------------------------------------------------------------------
(* The phase tells the shape.                                                *)
LEMMA Phases ==
  ASSUME NEW o, Shape(o)
  PROVE  /\ o.pc \in {"staged"} \cup Placing => PutShape(o)
         /\ o.pc = "manifest" => ManifestShape(o)
         /\ o.pc = "open" => OpenShape(o)
         /\ o.pc = "stream" => StreamShape(o)
         /\ o.pc = "read" => ReadShape(o)
         /\ o.pc \in {"remove"} \cup Removing => RemoveShape(o)
         /\ o.pc = "list" => ListShape(o)
         /\ o.pc = "kind" => KindShape(o)
         /\ o.pc \notin {"staged", "manifest", "open", "stream", "read", "remove", "list",
                        "kind"} \cup Placing \cup Removing => o = Idle
         /\ o = Idle => o.pc = "idle"
  BY DEF Shape, PutShape, ManifestShape, OpenShape, StreamShape, ReadShape, RemoveShape,
         ListShape, KindShape, Idle, Placing, Removing

(* A step of p changes the operation of p alone.                             *)
LEMMA OwnStep ==
  ASSUME Typed, NEW p \in Procs, NEW r, Shape(r), Become(p, r)
  PROVE  /\ DOMAIN op' = Procs /\ op' = [q \in Procs |-> op'[q]]
         /\ \A q \in Procs : Shape(op'[q])
         /\ op'[p] = r
         /\ \A q \in Procs \ {p} : op'[q] = op[q]
  BY DEF Typed, Become

(* A phase entered by a put or a removal keeps what the operation holds.     *)
LEMMA PutPhase ==
  ASSUME Typed, NEW p \in Procs, op[p].pc \in {"staged"} \cup Placing,
         NEW pc \in {"staged"} \cup Placing, GoTo(p, pc)
  PROVE  /\ Become(p, [pc |-> pc, key |-> op[p].key, val |-> op[p].val])
         /\ Shape([pc |-> pc, key |-> op[p].key, val |-> op[p].val])
<1>1. PutShape(op[p])
  BY Phases DEF Typed
<1>2. [op[p] EXCEPT !.pc = pc] = [pc |-> pc, key |-> op[p].key, val |-> op[p].val]
  BY <1>1 DEF PutShape
<1>3. op' = [op EXCEPT ![p] = [op[p] EXCEPT !.pc = pc]]
  BY DEF GoTo
<1>4. Become(p, [pc |-> pc, key |-> op[p].key, val |-> op[p].val])
  BY <1>2, <1>3 DEF Become
<1> QED
  BY <1>1, <1>4 DEF Shape, PutShape

LEMMA RemovePhase ==
  ASSUME Typed, NEW p \in Procs, op[p].pc \in {"remove"} \cup Removing,
         op[p].victims # <<>>,
         NEW pc \in Removing, GoTo(p, pc)
  PROVE  /\ Become(p, [pc |-> pc, victims |-> op[p].victims, goal |-> op[p].goal])
         /\ Shape([pc |-> pc, victims |-> op[p].victims, goal |-> op[p].goal])
<1>1. RemoveShape(op[p])
  BY Phases DEF Typed
<1>2. [op[p] EXCEPT !.pc = pc] = [pc |-> pc, victims |-> op[p].victims, goal |-> op[p].goal]
  BY <1>1 DEF RemoveShape
<1>3. op' = [op EXCEPT ![p] = [op[p] EXCEPT !.pc = pc]]
  BY DEF GoTo
<1>4. Become(p, [pc |-> pc, victims |-> op[p].victims, goal |-> op[p].goal])
  BY <1>2, <1>3 DEF Become
<1> QED
  BY <1>1, <1>4 DEF Shape, RemoveShape

(* No two processes work on a key.                                           *)
LEMMA Alone ==
  ASSUME IInv, NEW p \in Procs, NEW q \in Procs, NEW k \in Keys, Works(p, k), Works(q, k)
  PROVE  p = q
  BY DEF IInv, Own, LockHeld

LEMMA KeyShard ==
  ASSUME NEW k \in Keys
  PROVE  ShardOf[k] \in Range(ShardOf)
  BY OffersAssumption

(* A process changes the files and the promises of no key but the one it     *)
(* works on, where it revokes none, and takes no lock that is held: what     *)
(* the others rely on stays.                                                 *)
LEMMA OwnDoing ==
  ASSUME IInv, NEW p \in Procs, NEW r, Shape(r), Become(p, r),
         blob' \in [Keys -> States], meta' \in [Keys -> States],
         standing' \in [Keys -> Contents \cup {None}],
         holder' \in [Range(ShardOf) -> Procs \cup {NoMan}],
         owed' \in [Procs -> Contents \cup {None}], spare' \in [Procs -> SUBSET Keys],
         \A k \in Keys : ~Works(p, k) =>
           blob'[k] = blob[k] /\ meta'[k] = meta[k] /\ standing'[k] = standing[k],
         \A k \in Keys : standing[k] # None => standing'[k] = standing[k],
         \A s \in Range(ShardOf) : holder[s] \notin {p, NoMan} => holder'[s] = holder[s],
         \A q \in Procs \ {p} : owed'[q] = owed[q] /\ spare'[q] = spare[q],
         StandingTrue', Own(p)'
  PROVE  IInv'
<1>1. /\ DOMAIN op' = Procs /\ op' = [q \in Procs |-> op'[q]]
      /\ \A q \in Procs : Shape(op'[q])
      /\ \A q \in Procs \ {p} : op'[q] = op[q]
  BY OwnStep DEF IInv
<1>2. Typed'
  BY <1>1 DEF Typed
<1>3. ASSUME NEW q \in Procs, q # p
      PROVE  Own(q)'
  <2>1. Own(q) /\ op'[q] = op[q] /\ owed'[q] = owed[q] /\ spare'[q] = spare[q] /\ Shape(op[q])
    BY <1>1, <1>3 DEF IInv, Typed
  <2>2. \A k \in Keys : Works(q, k)' <=> Works(q, k)
    BY <2>1 DEF Works
  <2>3. \A k \in Keys : Works(q, k) => ~Works(p, k)
    BY <1>3, Alone
  <2>4. LockHeld(q)'
    <3> SUFFICES ASSUME NEW k \in Keys, Works(q, k)
                 PROVE  holder'[ShardOf[k]] = q
      BY <2>2 DEF LockHeld
    <3>1. holder[ShardOf[k]] = q
      BY <2>1 DEF Own, LockHeld
    <3> QED
      BY <3>1, <1>3, KeyShard, MarkersAssumption DEF NoMan, Procs
  <2>5. Unserved(q)'
    BY <2>1, <2>2, <2>3 DEF Own, Unserved
  <2>6. Placed(q)'
    <3> SUFFICES ASSUME At(q, "sidecar")
                 PROVE  blob'[op[q].key] \in {op[q].val, Rotten}
      BY <2>1 DEF Placed, At
    <3>1. op[q].key \in Keys /\ Works(q, op[q].key)
      BY <2>1, Phases DEF At, PutShape, Works, Placing
    <3> QED
      BY <2>1, <2>3, <3>1 DEF Own, Placed
  <2>7. OwedKept(q)'
    <3>1. op[q].pc \in {"open", "stream", "read"} => op[q].key \in Keys
      BY <2>1, Phases DEF OpenShape, StreamShape, ReadShape
    <3> QED
      BY <2>1, <3>1 DEF Own, OwedKept
  <2>8. Spared(q)'
    <3>1. \A k \in spare[q] : k \in Keys
      BY DEF IInv, Typed
    <3> QED
      BY <2>1, <3>1 DEF Own, Spared
  <2> QED
    BY <2>4, <2>5, <2>6, <2>7, <2>8 DEF Own
<1> QED
  BY <1>2, <1>3 DEF IInv

(* Giving a lock back takes nobody else's.                                   *)
LEMMA Freed ==
  ASSUME Typed, NEW p \in Procs, Unlock(p)
  PROVE  /\ holder' \in [Range(ShardOf) -> Procs \cup {NoMan}]
         /\ \A s \in Range(ShardOf) : holder[s] \notin {p, NoMan} => holder'[s] = holder[s]
  BY DEF Typed, Unlock

LEMMA Taken ==
  ASSUME Typed, NEW p \in Procs, NEW k \in Keys, TakeLock(p, k)
  PROVE  /\ holder' \in [Range(ShardOf) -> Procs \cup {NoMan}]
         /\ \A s \in Range(ShardOf) : holder[s] \notin {p, NoMan} => holder'[s] = holder[s]
         /\ holder'[ShardOf[k]] = p
  BY KeyShard DEF Typed, TakeLock, Lock

(* A step that leaves the files, and what stands, as they are.               *)
LEMMA QuietDoing ==
  ASSUME IInv, NEW p \in Procs, NEW r, Shape(r), Become(p, r),
         UNCHANGED <<blob, meta, standing>>,
         holder' \in [Range(ShardOf) -> Procs \cup {NoMan}],
         owed' \in [Procs -> Contents \cup {None}], spare' \in [Procs -> SUBSET Keys],
         \A s \in Range(ShardOf) : holder[s] \notin {p, NoMan} => holder'[s] = holder[s],
         \A q \in Procs \ {p} : owed'[q] = owed[q] /\ spare'[q] = spare[q],
         Own(p)'
  PROVE  IInv'
<1>1. StandingTrue'
  BY DEF IInv, StandingTrue
<1>2. /\ blob' \in [Keys -> States] /\ meta' \in [Keys -> States]
      /\ standing' \in [Keys -> Contents \cup {None}]
  BY DEF IInv, Typed
<1> QED
  BY <1>1, <1>2, OwnDoing

(* A process with nothing under way holds no lock and is promised nothing.   *)
LEMMA Rest ==
  ASSUME NEW p \in Procs, op'[p] = Idle, owed'[p] = None, spare'[p] = {}
  PROVE  Own(p)'
  BY DEF Own, LockHeld, Unserved, Works, Placed, OwedKept, Spared, At, Idle, Placing, Removing

(* Who is not reading is owed nothing, who is not sweeping spares nothing.   *)
LEMMA Nothing ==
  ASSUME IInv, NEW p \in Procs
  PROVE  /\ op[p].pc \notin {"open", "stream", "read"} => owed[p] = None
         /\ op[p].pc \notin {"list", "kind", "remove"} \cup Removing => spare[p] = {}
<1>1. OwedKept(p) /\ Spared(p)
  BY DEF IInv, Own
<1> QED
  BY <1>1 DEF OwedKept, Spared

----------------------------------------------------------------------------
(* A put.                                                                    *)
LEMMA StageInv ==
  ASSUME IInv, NEW p \in Procs, NEW k \in Keys, NEW b \in Contents, Stage(p, k, b)
  PROVE  IInv'
<1> DEFINE r == [pc |-> "staged", key |-> k, val |-> b]
<1>1. Shape(r) /\ Become(p, r)
  BY DEF Shape, PutShape, Stage
<1>2. op'[p] = r
  BY <1>1, OwnStep DEF IInv
<1>3. UNCHANGED <<blob, meta, standing, holder, owed, spare>>
  BY DEF Stage, disk, history
<1>4. owed[p] = None /\ spare[p] = {}
  BY Nothing DEF Stage, At, Removing
<1>5. Own(p)'
  BY <1>2, <1>3, <1>4
     DEF Own, LockHeld, Unserved, Works, Placed, OwedKept, Spared, At, Placing, Removing
<1> QED
  BY <1>1, <1>3, <1>5, QuietDoing DEF IInv, Typed

(* A process goes to rest: a put given up or failed, a kill, an answer taken.*)
LEMMA RestInv ==
  ASSUME IInv, NEW p \in Procs, Become(p, Idle), UNCHANGED <<blob, meta, standing>>,
         holder' = holder \/ Unlock(p),
         owed' = owed \/ owed' = [owed EXCEPT ![p] = None],
         spare' = spare \/ spare' = [spare EXCEPT ![p] = {}],
         owed'[p] = None, spare'[p] = {}
  PROVE  IInv'
<1>1. Shape(Idle) /\ op'[p] = Idle
  BY OwnStep DEF IInv, Shape
<1>2. Own(p)'
  BY <1>1, Rest
<1>3. /\ holder' \in [Range(ShardOf) -> Procs \cup {NoMan}]
      /\ \A s \in Range(ShardOf) : holder[s] \notin {p, NoMan} => holder'[s] = holder[s]
  BY Freed DEF IInv, Typed
<1>4. /\ owed' \in [Procs -> Contents \cup {None}] /\ spare' \in [Procs -> SUBSET Keys]
      /\ \A q \in Procs \ {p} : owed'[q] = owed[q] /\ spare'[q] = spare[q]
  BY DEF IInv, Typed
<1> QED
  BY <1>1, <1>2, <1>3, <1>4, QuietDoing

LEMMA PutEndsInv ==
  ASSUME IInv, NEW p \in Procs, Abandon(p) \/ PutFails(p) \/ WriteManifest(p)
  PROVE  IInv'
<1>1. op[p].pc \in {"staged", "manifest"} \cup Placing
  BY DEF Abandon, PutFails, WriteManifest, At, Placing
<1>2. owed[p] = None /\ spare[p] = {}
  BY <1>1, Nothing DEF Placing, Removing
<1>3. /\ Become(p, Idle) /\ UNCHANGED <<blob, meta, standing, owed, spare>>
      /\ holder' = holder \/ Unlock(p)
  BY DEF Abandon, PutFails, WriteManifest, disk, history
<1> QED
  BY <1>2, <1>3, RestInv

LEMMA BeginCommitInv ==
  ASSUME IInv, NEW p \in Procs, BeginCommit(p)
  PROVE  IInv'
<1> DEFINE r == [pc |-> "decide", key |-> op[p].key, val |-> op[p].val]
<1>1. PutShape(op[p]) /\ op[p].pc = "staged"
  BY Phases DEF IInv, Typed, BeginCommit, At, Placing
<1>2. Shape(r) /\ Become(p, r) /\ op'[p] = r
  BY <1>1, PutPhase, OwnStep DEF IInv, BeginCommit, Placing
<1>3. UNCHANGED <<blob, meta, standing, owed, spare>>
  BY DEF BeginCommit, disk, history
<1>4. owed[p] = None /\ spare[p] = {}
  BY <1>1, Nothing DEF Removing
<1>5. /\ holder' \in [Range(ShardOf) -> Procs \cup {NoMan}]
      /\ \A s \in Range(ShardOf) : holder[s] \notin {p, NoMan} => holder'[s] = holder[s]
      /\ holder'[ShardOf[op[p].key]] = p
  BY <1>1, Taken DEF IInv, PutShape, BeginCommit
<1>6. Own(p)'
  BY <1>2, <1>3, <1>4, <1>5
     DEF Own, LockHeld, Unserved, Works, Placed, OwedKept, Spared, At, Placing, Removing
<1> QED
  BY <1>2, <1>3, <1>5, <1>6, QuietDoing DEF IInv, Typed

LEMMA BeginManifestInv ==
  ASSUME IInv, NEW p \in Procs, NEW k \in Described, BeginManifest(p, k)
  PROVE  IInv'
<1> DEFINE r == [pc |-> "manifest", key |-> k]
<1>0. k \in Keys
  BY OffersAssumption
<1>1. Shape(r) /\ Become(p, r)
  BY DEF Shape, ManifestShape, BeginManifest
<1>2. op'[p] = r
  BY <1>1, OwnStep DEF IInv
<1>3. UNCHANGED <<blob, meta, standing, owed, spare>>
  BY DEF BeginManifest, disk, history
<1>4. owed[p] = None /\ spare[p] = {}
  BY Nothing DEF BeginManifest, At, Removing
<1>5. /\ holder' \in [Range(ShardOf) -> Procs \cup {NoMan}]
      /\ \A s \in Range(ShardOf) : holder[s] \notin {p, NoMan} => holder'[s] = holder[s]
      /\ holder'[ShardOf[k]] = p
  BY <1>0, Taken DEF IInv, BeginManifest
<1>6. Own(p)'
  BY <1>2, <1>3, <1>4, <1>5
     DEF Own, LockHeld, Unserved, Works, Placed, OwedKept, Spared, At, Placing, Removing
<1> QED
  BY <1>1, <1>3, <1>5, <1>6, QuietDoing DEF IInv, Typed

(* What a put accepts, whichever way it found or placed it, is on disk and   *)
(* in the sidecar; what stood under its key stood for the same bytes.        *)
LEMMA AcceptInv ==
  ASSUME IInv, NEW p \in Procs, op[p].pc \in Placing, NEW there \in States, Accept(p, there),
         blob' \in [Keys -> States], meta' \in [Keys -> States],
         \A k \in Keys \ {op[p].key} : blob'[k] = blob[k] /\ meta'[k] = meta[k],
         there # Rotten => blob'[op[p].key] = op[p].val /\ meta'[op[p].key] = op[p].val,
         standing[op[p].key] # None => there # Rotten /\ standing[op[p].key] = op[p].val,
         UNCHANGED <<owed, spare>>
  PROVE  IInv'
<1> DEFINE k == op[p].key
<1>1. PutShape(op[p]) /\ k \in Keys /\ op[p].val \in Contents /\ Works(p, k)
  BY Phases DEF IInv, Typed, PutShape, Works, Placing
<1>2. Shape(Idle) /\ Become(p, Idle) /\ op'[p] = Idle
  BY OwnStep DEF IInv, Shape, Accept
<1>3. Own(p)'
  BY <1>2, Rest, Nothing DEF Placing, Removing
<1>4. /\ holder' \in [Range(ShardOf) -> Procs \cup {NoMan}]
      /\ \A s \in Range(ShardOf) : holder[s] \notin {p, NoMan} => holder'[s] = holder[s]
  BY Freed DEF IInv, Accept
<1>5. standing' = [standing EXCEPT ![k] = IF there = Rotten THEN None ELSE op[p].val]
  BY DEF Accept
<1>6. standing' \in [Keys -> Contents \cup {None}]
  BY <1>1, <1>5 DEF IInv, Typed
<1>7. StandingTrue'
  BY <1>1, <1>5 DEF IInv, Typed, StandingTrue
<1>8. \A l \in Keys : ~Works(p, l) => l # k
  BY <1>1
<1>9. \A l \in Keys : /\ l # k => standing'[l] = standing[l]
                      /\ standing[l] # None => standing'[l] = standing[l]
  BY <1>1, <1>5 DEF IInv, Typed
<1>10. owed' \in [Procs -> Contents \cup {None}] /\ spare' \in [Procs -> SUBSET Keys]
  BY DEF IInv, Typed
<1> HIDE DEF k
<1>11. \A l \in Keys : ~Works(p, l) =>
         blob'[l] = blob[l] /\ meta'[l] = meta[l] /\ standing'[l] = standing[l]
  BY <1>8, <1>9 DEF k
<1>12. \A q \in Procs \ {p} : owed'[q] = owed[q] /\ spare'[q] = spare[q]
  OBVIOUS
<1> QED
  BY <1>2, <1>3, <1>4, <1>6, <1>7, <1>9, <1>10, <1>11, <1>12, OwnDoing

LEMMA DecideInv ==
  ASSUME IInv, NEW p \in Procs, Decide(p)
  PROVE  IInv'
<1> DEFINE k == op[p].key
<1>1. /\ PutShape(op[p]) /\ op[p].pc = "decide" /\ k \in Keys /\ op[p].val \in Contents
      /\ Works(p, k)
  BY Phases DEF IInv, Typed, PutShape, Works, Placing, Decide, At
<1>2. blob \in [Keys -> States] /\ meta \in [Keys -> States] /\ op[p].val \in States
  BY <1>1 DEF IInv, Typed, States
<1>3. op[p].val # Absent /\ op[p].val # Rotten
  BY <1>1, MarkersAssumption
<1>4. standing[k] # None => blob[k] = standing[k] /\ meta[k] = standing[k] /\ standing[k] \in Contents
  BY <1>1 DEF IInv, StandingTrue, Typed
<1>5. CASE Refuses(p, k) /\ Unlock(p) /\ Become(p, Idle) /\ UNCHANGED <<disk, history>>
  BY <1>1, <1>5, RestInv, Nothing DEF disk, history, Removing
<1>6. ASSUME Prior(k) = op[p].val PROVE meta[k] = op[p].val
  BY <1>3, <1>6 DEF Prior
<1>7. CASE /\ Prior(k) = op[p].val /\ Intact(k) /\ Accept(p, op[p].val)
           /\ UNCHANGED <<disk, owed, spare, calm>>
  <2>1. blob[k] = op[p].val /\ meta[k] = op[p].val
    BY <1>6, <1>7 DEF Intact
  <2> QED
    BY <1>1, <1>2, <1>3, <1>4, <1>7, <2>1, AcceptInv DEF disk, Placing
<1>8. CASE /\ Prior(k) = op[p].val /\ ~Intact(k)
           /\ blob' = [blob EXCEPT ![k] = op[p].val] /\ Stamped(k, "blob")
           /\ Accept(p, op[p].val) /\ calm' = {}
           /\ UNCHANGED <<meta, manifest, owed, spare>>
  <2>1. meta[k] = op[p].val /\ standing[k] = None
    BY <1>4, <1>6, <1>8 DEF Intact
  <2>2. blob' \in [Keys -> States] /\ blob'[k] = op[p].val /\ meta' = meta
        /\ \A l \in Keys \ {k} : blob'[l] = blob[l]
    BY <1>1, <1>2, <1>8
  <2> HIDE DEF k
  <2> QED
    BY <1>1, <1>2, <1>3, <1>8, <2>1, <2>2, AcceptInv DEF Placing, k
<1>9. CASE /\ ~Refuses(p, k) /\ Prior(k) # op[p].val /\ GoTo(p, "place")
           /\ UNCHANGED <<disk, holder, history>>
  <2> DEFINE r == [pc |-> "place", key |-> op[p].key, val |-> op[p].val]
  <2>1. Shape(r) /\ Become(p, r) /\ op'[p] = r
    BY <1>1, <1>9, PutPhase, OwnStep DEF IInv, Placing
  <2>2. UNCHANGED <<blob, meta, standing, owed, spare, holder>>
    BY <1>9 DEF disk, history
  <2>3. owed[p] = None /\ spare[p] = {}
    BY <1>1, Nothing DEF Removing
  <2>4. Prior(k) = Absent
    BY <1>9 DEF Refuses
  <2>5. standing[k] = None
    BY <1>4, <2>4, MarkersAssumption DEF Prior, Serves
  <2>6. LockHeld(p)
    BY DEF IInv, Own
  <2>7. Own(p)'
    BY <1>1, <2>1, <2>2, <2>3, <2>5, <2>6
       DEF Own, LockHeld, Unserved, Works, Placed, OwedKept, Spared, At, Placing, Removing
  <2> QED
    BY <2>1, <2>2, <2>7, QuietDoing DEF IInv, Typed
<1> QED
  BY <1>5, <1>7, <1>8, <1>9 DEF Decide

LEMMA PlaceBlobInv ==
  ASSUME IInv, NEW p \in Procs, PlaceBlob(p)
  PROVE  IInv'
<1> DEFINE k == op[p].key
           r == [pc |-> "sidecar", key |-> op[p].key, val |-> op[p].val]
<1>1. /\ PutShape(op[p]) /\ op[p].pc = "place" /\ k \in Keys /\ op[p].val \in Contents
      /\ Works(p, k)
  BY Phases DEF IInv, Typed, PutShape, Works, Placing, PlaceBlob, At
<1>2. Shape(r) /\ Become(p, r) /\ op'[p] = r
  BY <1>1, PutPhase, OwnStep DEF IInv, Placing, PlaceBlob
<1>3. UNCHANGED <<meta, standing, owed, spare, holder>>
  BY DEF PlaceBlob
<1>4. standing[k] = None /\ LockHeld(p) /\ owed[p] = None /\ spare[p] = {}
  BY <1>1, Nothing DEF IInv, Own, Unserved, Removing
<1>5. blob' \in [Keys -> States] /\ blob'[k] = op[p].val
      /\ \A l \in Keys \ {k} : blob'[l] = blob[l]
  BY <1>1 DEF IInv, Typed, States, PlaceBlob
<1>6. StandingTrue'
  BY <1>3, <1>4, <1>5 DEF IInv, StandingTrue
<1>7. Own(p)'
  BY <1>1, <1>2, <1>3, <1>4, <1>5
     DEF Own, LockHeld, Unserved, Works, Placed, OwedKept, Spared, At, Placing, Removing
<1> QED
  BY <1>1, <1>2, <1>3, <1>5, <1>6, <1>7, OwnDoing DEF IInv, Typed

LEMMA PlaceSidecarInv ==
  ASSUME IInv, NEW p \in Procs, PlaceSidecar(p)
  PROVE  IInv'
<1> DEFINE k == op[p].key
<1>1. /\ PutShape(op[p]) /\ op[p].pc = "sidecar" /\ k \in Keys /\ op[p].val \in Contents
      /\ Works(p, k)
  BY Phases DEF IInv, Typed, PutShape, Works, Placing, PlaceSidecar, At
<1>2. standing[k] = None /\ blob[k] \in {op[p].val, Rotten} /\ blob[k] \in States
  BY <1>1 DEF IInv, Own, Unserved, Placed, At, Typed
<1>3. /\ meta' \in [Keys -> States] /\ meta'[k] = op[p].val
      /\ \A l \in Keys \ {k} : meta'[l] = meta[l]
  BY <1>1 DEF IInv, Typed, States, PlaceSidecar
<1>4. /\ Accept(p, blob[k]) /\ UNCHANGED <<blob, owed, spare>> /\ blob \in [Keys -> States]
  BY DEF PlaceSidecar, IInv, Typed
<1> QED
  BY <1>1, <1>2, <1>3, <1>4, AcceptInv DEF Placing

----------------------------------------------------------------------------
(* A read.                                                                   *)
LEMMA ReadSidecarInv ==
  ASSUME IInv, NEW p \in Procs, NEW k \in Keys, ReadSidecar(p, k)
  PROVE  IInv'
<1> DEFINE r == IF Serves(k) THEN [pc |-> "open", key |-> k, hash |-> meta[k]]
                             ELSE [pc |-> "read", key |-> k, got |-> Absent]
<1>1. Shape(r) /\ Become(p, r)
  BY DEF Shape, OpenShape, ReadShape, ReadSidecar, Serves
<1>2. op'[p] = r
  BY <1>1, OwnStep DEF IInv
<1>3. UNCHANGED <<blob, meta, standing, holder, spare>> /\ owed' = [owed EXCEPT ![p] = standing[k]]
  BY DEF ReadSidecar, disk
<1>4. spare[p] = {}
  BY Nothing DEF ReadSidecar, At, Removing
<1>5. /\ owed' \in [Procs -> Contents \cup {None}] /\ owed'[p] = standing[k]
      /\ \A q \in Procs \ {p} : owed'[q] = owed[q]
  BY <1>3 DEF IInv, Typed
<1>6. standing[k] # None => Serves(k) /\ meta[k] = standing[k]
  BY DEF IInv, StandingTrue, Typed, Serves
<1>7. OwedKept(p)'
  BY <1>2, <1>3, <1>5, <1>6 DEF OwedKept
<1>8. Own(p)'
  BY <1>2, <1>3, <1>4, <1>7
     DEF Own, LockHeld, Unserved, Works, Placed, Spared, At, Placing, Removing
<1> QED
  BY <1>1, <1>3, <1>5, <1>8, QuietDoing DEF IInv, Typed

LEMMA OpenBlobInv ==
  ASSUME IInv, NEW p \in Procs, OpenBlob(p)
  PROVE  IInv'
<1> DEFINE k == op[p].key
           r == IF blob[k] = Absent
                THEN [pc |-> "read", key |-> k, got |-> Absent]
                ELSE [pc |-> "stream", key |-> k, hash |-> op[p].hash, got |-> blob[k]]
<1>1. OpenShape(op[p]) /\ op[p].pc = "open" /\ k \in Keys /\ op[p].hash \in Contents
  BY Phases DEF IInv, Typed, OpenShape, OpenBlob, At
<1>2. blob[k] \in States
  BY <1>1 DEF IInv, Typed
<1>3. Shape(r) /\ Become(p, r)
  BY <1>1, <1>2 DEF Shape, StreamShape, ReadShape, OpenBlob, States
<1>4. op'[p] = r
  BY <1>3, OwnStep DEF IInv
<1>5. UNCHANGED <<blob, meta, standing, holder, spare, owed>>
  BY DEF OpenBlob, history
<1>6. OwedKept(p) /\ spare[p] = {}
  BY <1>1, Nothing DEF IInv, Own, Removing
<1>7. owed[p] # None => blob[k] = owed[p] /\ blob[k] # Absent
  BY <1>1, <1>6, MarkersAssumption DEF IInv, StandingTrue, OwedKept, Typed, None
<1>8. OwedKept(p)'
  BY <1>1, <1>4, <1>5, <1>6, <1>7 DEF OwedKept
<1>9. Own(p)'
  BY <1>4, <1>5, <1>6, <1>8
     DEF Own, LockHeld, Unserved, Works, Placed, Spared, At, Placing, Removing
<1> QED
  BY <1>3, <1>5, <1>9, QuietDoing DEF IInv, Typed

LEMMA StreamInv ==
  ASSUME IInv, NEW p \in Procs, Stream(p)
  PROVE  IInv'
<1> DEFINE got == IF Verified(op[p].hash, op[p].got) THEN op[p].got ELSE Absent
           r == [pc |-> "read", key |-> op[p].key, got |-> got]
<1>1. StreamShape(op[p]) /\ op[p].pc = "stream" /\ op[p].key \in Keys /\ op[p].hash \in Contents
  BY Phases DEF IInv, Typed, StreamShape, Stream, At
<1>2. Shape(r) /\ Become(p, r)
  BY <1>1 DEF Shape, ReadShape, Stream, Verified
<1>3. op'[p] = r
  BY <1>2, OwnStep DEF IInv
<1>4. UNCHANGED <<blob, meta, standing, holder, spare, owed>>
  BY DEF Stream, disk, history
<1>5. OwedKept(p) /\ spare[p] = {}
  BY <1>1, Nothing DEF IInv, Own, Removing
<1>6. OwedKept(p)'
  BY <1>1, <1>3, <1>4, <1>5 DEF OwedKept, Verified
<1>7. Own(p)'
  BY <1>3, <1>4, <1>5, <1>6
     DEF Own, LockHeld, Unserved, Works, Placed, Spared, At, Placing, Removing
<1> QED
  BY <1>2, <1>4, <1>7, QuietDoing DEF IInv, Typed

LEMMA EndReadInv ==
  ASSUME IInv, NEW p \in Procs, EndRead(p)
  PROVE  IInv'
<1>1. spare[p] = {} /\ owed' = [owed EXCEPT ![p] = None] /\ owed'[p] = None
  BY Nothing DEF EndRead, At, IInv, Typed, Removing
<1> QED
  BY <1>1, RestInv DEF EndRead, disk

----------------------------------------------------------------------------
(* A removal.                                                                *)
LEMMA DeleteInv ==
  ASSUME IInv, NEW p \in Procs, NEW k \in Keys, Delete(p, k)
  PROVE  IInv'
<1> DEFINE r == [pc |-> "remove", victims |-> <<k>>, goal |-> -1]
<1>1. Shape(r) /\ Become(p, r)
  BY DEF Shape, RemoveShape, Delete, Removing
<1>2. op'[p] = r
  BY <1>1, OwnStep DEF IInv
<1>3. UNCHANGED <<blob, meta, standing, holder, owed, spare>>
  BY DEF Delete, disk, history
<1>4. owed[p] = None /\ spare[p] = {}
  BY Nothing DEF Delete, At, Removing
<1>5. Own(p)'
  BY <1>2, <1>3, <1>4
     DEF Own, LockHeld, Unserved, Works, Placed, OwedKept, Spared, At, Placing, Removing
<1> QED
  BY <1>1, <1>3, <1>5, QuietDoing DEF IInv, Typed

(* Between its file operations a removal keeps its victims.                  *)
LEMMA RemovalStep ==
  ASSUME IInv, NEW p \in Procs, op[p].pc \in Removing, NEW pc \in Removing, GoTo(p, pc),
         UNCHANGED <<standing, holder, owed, spare>>,
         blob' \in [Keys -> States], meta' \in [Keys -> States],
         \A k \in Keys : ~Works(p, k) => blob'[k] = blob[k] /\ meta'[k] = meta[k]
  PROVE  IInv'
<1> DEFINE r == [pc |-> pc, victims |-> op[p].victims, goal |-> op[p].goal]
           k == Head(op[p].victims)
<1>1. RemoveShape(op[p]) /\ op[p].victims # <<>> /\ k \in Keys /\ Works(p, k)
  BY Phases DEF IInv, Typed, RemoveShape, Works
<1>2. Shape(r) /\ Become(p, r) /\ op'[p] = r
  BY <1>1, RemovePhase, OwnStep DEF IInv
<1>3. LockHeld(p) /\ Unserved(p) /\ Spared(p) /\ owed[p] = None
  BY Nothing DEF IInv, Own, Removing
<1>4. standing[k] = None /\ holder[ShardOf[k]] = p
  BY <1>1, <1>3 DEF Unserved, LockHeld, Removing
<1>5. \A l \in Keys : Works(p, l)' => l = k
  BY <1>2 DEF Works, Placing, Removing
<1>6. LockHeld(p)' /\ Unserved(p)'
  BY <1>4, <1>5 DEF LockHeld, Unserved
<1>7. Spared(p)'
  BY <1>2, <1>3 DEF Spared, Removing
<1>8. Placed(p)' /\ OwedKept(p)'
  BY <1>2, <1>3 DEF Placed, OwedKept, At, Removing
<1>9. StandingTrue'
  <2>1. \A l \in Keys : standing[l] # None => blob[l] = standing[l] /\ meta[l] = standing[l]
    BY DEF IInv, StandingTrue
  <2>2. \A l \in Keys : standing[l] # None => ~Works(p, l)
    BY <1>3 DEF Unserved, Works, Placing, Removing
  <2> QED
    BY <2>1, <2>2 DEF StandingTrue
<1> QED
  BY <1>2, <1>6, <1>7, <1>8, <1>9, OwnDoing DEF IInv, Typed, Own

LEMMA RemoveFilesInv ==
  ASSUME IInv, NEW p \in Procs, RemoveSidecar(p) \/ RemoveBlob(p) \/ RemovalFails(p)
  PROVE  IInv'
<1>1. op[p].pc \in Removing
  BY DEF RemoveSidecar, RemoveBlob, RemovalFails, At, Removing
<1>2. Works(p, Head(op[p].victims)) /\ Head(op[p].victims) \in Keys
  BY <1>1, Phases DEF IInv, Typed, RemoveShape, Works
<1>3. UNCHANGED <<standing, holder, owed, spare>>
  BY DEF RemoveSidecar, RemoveBlob, RemovalFails, history
<1>4. blob \in [Keys -> States] /\ meta \in [Keys -> States]
  BY DEF IInv, Typed
<1>5. CASE RemoveSidecar(p)
  BY <1>1, <1>2, <1>3, <1>4, <1>5, RemovalStep DEF RemoveSidecar, Removing, States
<1>6. CASE RemoveBlob(p)
  BY <1>1, <1>2, <1>3, <1>4, <1>6, RemovalStep DEF RemoveBlob, Removing, States
<1>7. CASE RemovalFails(p)
  <2>1. PICK pc \in Removing : GoTo(p, pc)
    BY <1>7 DEF RemovalFails, Removing
  <2> QED
    BY <1>1, <1>3, <1>4, <1>7, <2>1, RemovalStep DEF RemovalFails, disk
<1> QED
  BY <1>5, <1>6, <1>7

LEMMA RemoveManifestInv ==
  ASSUME IInv, NEW p \in Procs, RemoveManifest(p)
  PROVE  IInv'
<1> DEFINE r == [pc |-> "remove", victims |-> Tail(op[p].victims), goal |-> op[p].goal]
<1>1. RemoveShape(op[p]) /\ op[p].pc = "unmanifest" /\ op[p].victims # <<>>
  BY Phases DEF IInv, Typed, RemoveShape, RemoveManifest, At, Removing
<1>2. op[p].victims \in Seq(Keys) /\ Tail(op[p].victims) \in Seq(Keys)
  BY <1>1 DEF RemoveShape
<1>3. Shape(r) /\ Become(p, r)
  BY <1>2 DEF Shape, RemoveShape, RemoveManifest, Removing
<1>4. op'[p] = r
  BY <1>3, OwnStep DEF IInv
<1>5. UNCHANGED <<blob, meta, standing, owed, spare>> /\ Unlock(p)
  BY DEF RemoveManifest, history
<1>6. owed[p] = None /\ Spared(p)
  BY <1>1, Nothing DEF IInv, Own
<1>7. \A i \in DOMAIN Tail(op[p].victims) :
        i + 1 \in DOMAIN op[p].victims /\ Tail(op[p].victims)[i] = op[p].victims[i + 1]
  BY <1>1, <1>2
<1>8. Spared(p)'
  BY <1>1, <1>4, <1>5, <1>6, <1>7 DEF Spared, Removing
<1>9. Own(p)'
  BY <1>4, <1>5, <1>6, <1>8
     DEF Own, LockHeld, Unserved, Works, Placed, OwedKept, At, Placing, Removing
<1>10. /\ holder' \in [Range(ShardOf) -> Procs \cup {NoMan}]
       /\ \A s \in Range(ShardOf) : holder[s] \notin {p, NoMan} => holder'[s] = holder[s]
  BY <1>5, Freed DEF IInv
<1> QED
  BY <1>3, <1>5, <1>9, <1>10, QuietDoing DEF IInv, Typed

LEMMA EndRemoveInv ==
  ASSUME IInv, NEW p \in Procs, EndRemove(p)
  PROVE  IInv'
<1>1. owed[p] = None /\ spare' = [spare EXCEPT ![p] = {}] /\ spare'[p] = {}
  BY Nothing DEF EndRemove, At, IInv, Typed
<1> QED
  BY <1>1, RestInv DEF EndRemove, disk

(* What Forget(k) leaves of the promises.                                    *)
LEMMA Forgotten ==
  ASSUME IInv, NEW k \in Keys, Forget(k)
  PROVE  /\ standing' \in [Keys -> Contents \cup {None}]
         /\ standing'[k] = None /\ \A l \in Keys \ {k} : standing'[l] = standing[l]
         /\ owed' \in [Procs -> Contents \cup {None}]
         /\ \A q \in Procs : owed'[q] # None => owed'[q] = owed[q] /\ op[q].key # k
         /\ spare' \in [Procs -> SUBSET Keys]
         /\ \A q \in Procs : spare'[q] = spare[q] \ {k}
<1>1. ASSUME NEW q \in Procs, owed'[q] # None
      PROVE  owed'[q] = owed[q] /\ op[q].key # k
  <2>1. owed'[q] = IF ~At(q, "idle") /\ "key" \in DOMAIN op[q] /\ op[q].key = k
                   THEN None ELSE owed[q]
    BY DEF Forget
  <2>2. owed'[q] = owed[q]
    BY <1>1, <2>1
  <2>3. op[q].pc \in {"open", "stream", "read"} /\ Shape(op[q])
    BY <1>1, <2>2 DEF IInv, Own, OwedKept, Typed
  <2>4. OpenShape(op[q]) \/ StreamShape(op[q]) \/ ReadShape(op[q])
    BY <2>3, Phases
  <2>5. "key" \in DOMAIN op[q]
    BY <2>4 DEF OpenShape, StreamShape, ReadShape
  <2> QED
    BY <1>1, <2>1, <2>2, <2>3, <2>5 DEF At
<1> QED
  BY <1>1 DEF Forget, IInv, Typed

(* A key is given up, its files left alone or damaged: what a process under  *)
(* way relies on stays.                                                      *)
LEMMA GivenUp ==
  ASSUME IInv, NEW k \in Keys, Forget(k), NEW q \in Procs, op'[q] = op[q],
         \A s \in Range(ShardOf) : holder[s] = q => holder'[s] = q,
         \A l \in Keys : blob'[l] \in {blob[l], Rotten}
  PROVE  Own(q)'
<1>1. Own(q) /\ Shape(op[q])
  BY DEF IInv, Typed
<1>2. LockHeld(q)'
  BY <1>1, KeyShard DEF Own, LockHeld, Works
<1>3. Unserved(q)'
  BY <1>1, Forgotten DEF Own, Unserved, Works
<1>4. Placed(q)'
  <2>1. At(q, "sidecar") => op[q].key \in Keys
    BY <1>1, Phases DEF At, PutShape, Placing
  <2> QED
    BY <1>1, <2>1 DEF Own, Placed, At
<1>5. OwedKept(q)'
  <2> SUFFICES ASSUME owed'[q] # None
               PROVE  OwedKept(q)'
    BY DEF OwedKept
  <2>1. owed'[q] = owed[q] /\ op[q].key # k
    BY Forgotten
  <2>2. op[q].pc \in {"open", "stream", "read"}
    BY <1>1, <2>1 DEF Own, OwedKept
  <2>3. op[q].key \in Keys
    BY <1>1, <2>2, Phases DEF OpenShape, StreamShape, ReadShape
  <2> QED
    BY <1>1, <2>1, <2>3, Forgotten DEF Own, OwedKept
<1>6. Spared(q)'
  <2>1. \A l \in spare'[q] : l \in spare[q] /\ l \in Keys /\ standing'[l] = standing[l]
    BY Forgotten DEF IInv, Typed
  <2> QED
    BY <1>1, <2>1 DEF Own, Spared
<1> QED
  BY <1>2, <1>3, <1>4, <1>5, <1>6 DEF Own

LEMMA StandsStill ==
  ASSUME IInv, NEW k \in Keys, Forget(k),
         \A l \in Keys \ {k} : blob'[l] = blob[l] /\ meta'[l] = meta[l]
  PROVE  StandingTrue'
  BY Forgotten DEF IInv, StandingTrue

LEMMA BeginRemoveInv ==
  ASSUME IInv, NEW p \in Procs, BeginRemove(p)
  PROVE  IInv'
<1> DEFINE r == [pc |-> "unserve", victims |-> op[p].victims, goal |-> op[p].goal]
           k == Head(op[p].victims)
<1>1. RemoveShape(op[p]) /\ op[p].pc = "remove" /\ op[p].victims # <<>> /\ k \in Keys
  BY Phases DEF IInv, Typed, RemoveShape, BeginRemove, At
<1>2. Shape(r) /\ Become(p, r)
  BY <1>1, RemovePhase DEF IInv, BeginRemove, Removing
<1>3. /\ DOMAIN op' = Procs /\ op' = [q \in Procs |-> op'[q]]
      /\ \A q \in Procs : Shape(op'[q])
      /\ op'[p] = r
      /\ \A q \in Procs \ {p} : op'[q] = op[q]
  BY <1>2, OwnStep DEF IInv
<1>4. Forget(k) /\ UNCHANGED <<blob, meta>>
  BY DEF BeginRemove, disk
<1>5. /\ holder' \in [Range(ShardOf) -> Procs \cup {NoMan}]
      /\ \A s \in Range(ShardOf) : holder[s] \notin {p, NoMan} => holder'[s] = holder[s]
      /\ holder'[ShardOf[k]] = p
  BY <1>1, Taken DEF IInv, BeginRemove
<1>6. Typed'
  BY <1>1, <1>3, <1>4, <1>5, Forgotten DEF Typed, IInv
<1>7. StandingTrue'
  BY <1>1, <1>4, StandsStill
<1>8. ASSUME NEW q \in Procs, q # p
      PROVE  Own(q)'
  <2>1. \A s \in Range(ShardOf) : holder[s] = q => holder'[s] = q
    BY <1>5, <1>8, MarkersAssumption DEF NoMan, Procs
  <2> QED
    BY <1>1, <1>3, <1>4, <1>8, <2>1, GivenUp
<1>9. Own(p)'
  <2>1. Own(p) /\ owed[p] = None /\ owed'[p] = None
    BY <1>1, <1>4, Nothing, Forgotten DEF IInv
  <2>2. standing'[k] = None
    BY <1>1, <1>4, Forgotten
  <2>3. \A l \in Keys : Works(p, l)' => l = k
    BY <1>3 DEF Works, Placing, Removing
  <2>4. LockHeld(p)' /\ Unserved(p)'
    BY <1>5, <2>2, <2>3 DEF LockHeld, Unserved
  <2>5. \A l \in spare'[p] : l \in spare[p] /\ l \in Keys /\ standing'[l] = standing[l]
    BY <1>1, <1>4, Forgotten DEF IInv, Typed
  <2>6. Spared(p)'
    BY <1>1, <1>3, <2>1, <2>5 DEF Own, Spared, Removing
  <2> QED
    BY <1>3, <2>1, <2>4, <2>6 DEF Own, Placed, OwedKept, At
<1> QED
  BY <1>6, <1>7, <1>8, <1>9 DEF IInv

LEMMA DamageInv ==
  ASSUME IInv, NEW k \in Keys, Damage(k)
  PROVE  IInv'
<1>1. Forget(k) /\ UNCHANGED <<holder, op>>
  BY DEF Damage
<1>2. /\ blob' \in [Keys -> States] /\ meta' \in [Keys -> States]
      /\ \A l \in Keys : blob'[l] \in {blob[l], Rotten}
      /\ \A l \in Keys \ {k} : blob'[l] = blob[l] /\ meta'[l] = meta[l]
  BY DEF Damage, IInv, Typed, States
<1>3. Typed'
  BY <1>1, <1>2, Forgotten DEF IInv, Typed
<1>4. StandingTrue'
  BY <1>1, <1>2, StandsStill
<1>5. \A q \in Procs : Own(q)'
  BY <1>1, <1>2, GivenUp
<1> QED
  BY <1>3, <1>4, <1>5 DEF IInv

----------------------------------------------------------------------------
(* A sweep.                                                                  *)
LEMMA BeginSweepInv ==
  ASSUME IInv, NEW p \in Procs, BeginSweep(p)
  PROVE  IInv'
<1> DEFINE r == [pc |-> "list", todo |-> Entries, found |-> {}]
<1>1. Shape(r) /\ Become(p, r)
  BY FS_EmptySet DEF Shape, ListShape, BeginSweep
<1>2. op'[p] = r
  BY <1>1, OwnStep DEF IInv
<1>3. UNCHANGED <<blob, meta, standing, holder, owed>> /\ spare' = [spare EXCEPT ![p] = Routes]
  BY DEF BeginSweep, disk
<1>4. /\ spare' \in [Procs -> SUBSET Keys] /\ spare'[p] = Routes
      /\ \A q \in Procs \ {p} : spare'[q] = spare[q]
  BY <1>3 DEF IInv, Typed, Routes
<1>5. owed[p] = None
  BY Nothing DEF BeginSweep, At
<1>6. Spared(p)'
  BY <1>2, <1>3, <1>4 DEF Spared, Routes, Removing
<1>7. Own(p)'
  BY <1>2, <1>3, <1>5, <1>6
     DEF Own, LockHeld, Unserved, Works, Placed, OwedKept, At, Placing, Removing
<1> QED
  BY <1>1, <1>3, <1>4, <1>7, QuietDoing DEF IInv, Typed

(* A listing goes on: what is spared must not be found as anything else.     *)
LEMMA ListingInv ==
  ASSUME IInv, NEW p \in Procs, op[p].pc \in {"list", "kind"},
         NEW r, Become(p, r), ListShape(r) \/ KindShape(r),
         \A k \in spare[p] : \A c \in r.found : c.key = k => c.kind = "route",
         UNCHANGED <<disk, holder, history>>
  PROVE  IInv'
<1>1. Shape(r) /\ op'[p] = r
  BY OwnStep DEF IInv, Shape
<1>2. r.pc \in {"list", "kind"}
  BY DEF ListShape, KindShape
<1>3. UNCHANGED <<blob, meta, standing, holder, owed, spare>>
  BY DEF disk, history
<1>4. owed[p] = None /\ Spared(p)
  BY Nothing DEF IInv, Own
<1>5. Spared(p)'
  BY <1>1, <1>2, <1>3, <1>4 DEF Spared, Removing
<1>6. Own(p)'
  BY <1>1, <1>2, <1>3, <1>4, <1>5
     DEF Own, LockHeld, Unserved, Works, Placed, OwedKept, At, Placing, Removing
<1> QED
  BY <1>1, <1>3, <1>6, QuietDoing DEF IInv, Typed

LEMMA ListInv ==
  ASSUME IInv, NEW p \in Procs, NEW k \in Keys, NEW f \in {"blob", "manifest"}, List(p, k, f)
  PROVE  IInv'
<1> DEFINE todo == op[p].todo \ {<<k, f>>}
           sized == Candidate(k, Sized(k), stamp[<<k, f>>], "unknown")
           alone == Candidate(k, ManifestSize, stamp[<<k, f>>], "manifest")
           rest == [pc |-> "list", todo |-> todo, found |-> op[p].found]
           kind == [pc |-> "kind", todo |-> todo, found |-> op[p].found, cand |-> sized]
           more == [pc |-> "list", todo |-> todo, found |-> op[p].found \cup {alone}]
<1>1. ListShape(op[p]) /\ op[p].pc = "list" /\ Spared(p) /\ UNCHANGED <<disk, holder, history>>
  BY Phases DEF IInv, Typed, Own, List, At
<1>2. [op[p] EXCEPT !.todo = @ \ {<<k, f>>}] = rest
  BY <1>1 DEF ListShape
<1>3. [rest EXCEPT !.found = @ \cup {alone}] = more
  OBVIOUS
<1>4. \/ Become(p, kind)
      \/ Become(p, more) /\ blob[k] = Absent
      \/ Become(p, rest)
  BY <1>2, <1>3 DEF List
<1>5. ListShape(rest) /\ KindShape(kind)
  BY <1>1 DEF ListShape, KindShape, Candidate
<1>6. ListShape(more)
  <2>1. IsFiniteSet(op[p].found) /\ \A c \in op[p].found : c.key \in Keys
    BY <1>1 DEF ListShape
  <2>2. IsFiniteSet(more.found)
    BY <2>1, FS_AddElement
  <2>3. \A c \in more.found : c.key \in Keys
    BY <2>1 DEF Candidate
  <2> QED
    BY <2>2, <2>3 DEF ListShape
<1>7. \A l \in spare[p] : \A c \in op[p].found : c.key = l => c.kind = "route"
  BY <1>1 DEF Spared
<1>8. CASE Become(p, kind)
  BY <1>1, <1>5, <1>7, <1>8, ListingInv
<1>9. CASE Become(p, rest)
  BY <1>1, <1>5, <1>7, <1>9, ListingInv
<1>10. CASE Become(p, more) /\ blob[k] = Absent
  <2>1. k \notin spare[p]
    BY <1>1, <1>10, MarkersAssumption DEF Spared, IInv, StandingTrue, Typed, None
  <2>2. \A l \in spare[p] : \A c \in more.found : c.key = l => c.kind = "route"
    BY <1>7, <2>1 DEF Candidate
  <2> QED
    BY <1>1, <1>6, <1>10, <2>2, ListingInv
<1> QED
  BY <1>4, <1>8, <1>9, <1>10

LEMMA ListKindInv ==
  ASSUME IInv, NEW p \in Procs, ListKind(p)
  PROVE  IInv'
<1> DEFINE cand == [op[p].cand EXCEPT !.kind = Kind(op[p].cand.key)]
           r == [pc |-> "list", todo |-> op[p].todo, found |-> op[p].found \cup {cand}]
<1>1. /\ KindShape(op[p]) /\ op[p].pc = "kind" /\ Spared(p) /\ UNCHANGED <<disk, holder, history>>
      /\ Become(p, r)
  BY Phases DEF IInv, Typed, Own, ListKind, At
<1>2. cand.key = op[p].cand.key /\ cand.kind = Kind(op[p].cand.key) /\ op[p].cand.key \in Keys
  BY <1>1 DEF KindShape, Candidate
<1> HIDE DEF cand
<1>3. ListShape(r)
  BY <1>1, <1>2, FS_AddElement DEF ListShape, KindShape
<1>4. op[p].cand.key \in spare[p] => cand.kind = "route"
  BY <1>1, <1>2 DEF Spared, Kind, Serves, IInv, StandingTrue, Typed
<1>5. \A l \in spare[p] : \A c \in r.found : c.key = l => c.kind = "route"
  BY <1>1, <1>2, <1>4 DEF Spared
<1> QED
  BY <1>1, <1>3, <1>5, ListingInv

(* plan_eviction plans to remove what it was told of, by its age or by the   *)
(* size of the rest.                                                         *)
LEMMA VictimsFound ==
  ASSUME NEW found, IsFiniteSet(found), NEW policy, NEW victims \in Victims(found, policy)
  PROVE  /\ victims \in Seq(found)
         /\ \A i \in DOMAIN victims :
              victims[i] \in AgeVictims(found, policy) \cup SizeVictims(found, policy)
<1> DEFINE old == AgeVictims(found, policy)
           big == SizeVictims(found, policy)
<1>1. old \subseteq found /\ big \subseteq found
  BY DEF AgeVictims, SizeVictims, Eligible
<1>2. PICK a \in SetToSeqs(old), b \in SetToSeqs(big) : victims = a \o b
  BY DEF Victims
<1>3. Cardinality(old) \in Nat /\ Cardinality(big) \in Nat
  BY <1>1, FS_Subset, FS_CardinalityType
<1>4. a \in [1..Cardinality(old) -> old] /\ b \in [1..Cardinality(big) -> big]
  BY <1>2 DEF SetToSeqs
<1> HIDE DEF old, big
<1>5. a \in Seq(old) /\ b \in Seq(big)
  BY <1>3, <1>4
<1>6. a \in Seq(old \cup big) /\ b \in Seq(old \cup big)
  BY <1>5
<1>7. victims \in Seq(old \cup big)
  BY <1>2, <1>6
<1>8. victims \in Seq(found)
  BY <1>1, <1>7
<1>9. \A i \in DOMAIN victims : victims[i] \in old \cup big
  BY <1>7
<1> QED
  BY <1>8, <1>9 DEF old, big

LEMMA PlanInv ==
  ASSUME IInv, NEW p \in Procs, NEW policy \in Policies, Plan(p, policy)
  PROVE  IInv'
<1> DEFINE found == op[p].found
           done == policy.dry \/ (policy.budget /\ Bytes(found) <= policy.max)
           free == done \/ policy.older >= 0 \/ ~policy.honour
<1>1. ListShape(op[p]) /\ op[p].pc = "list" /\ Spared(p) /\ owed[p] = None
  BY Phases, Nothing DEF IInv, Typed, Own, Plan, At
<1>2. UNCHANGED <<blob, meta, standing, holder, owed>>
  BY DEF Plan
<1>3. spare' = [spare EXCEPT ![p] = IF free THEN {} ELSE @]
  BY DEF Plan
<1>4. /\ spare' \in [Procs -> SUBSET Keys] /\ spare'[p] = (IF free THEN {} ELSE spare[p])
      /\ \A q \in Procs \ {p} : spare'[q] = spare[q]
  BY <1>3 DEF IInv, Typed
<1>5. CASE done
  <2>1. Become(p, Idle)
    BY <1>5 DEF Plan
  <2>2. spare' = [spare EXCEPT ![p] = {}] /\ spare'[p] = {} /\ owed'[p] = None
    BY <1>1, <1>2, <1>3, <1>4, <1>5
  <2> QED
    BY <1>2, <2>1, <2>2, RestInv
<1>6. CASE ~done
  <2>1. PICK victims \in Victims(found, policy) :
          Become(p, [pc |-> "remove", victims |-> [i \in DOMAIN victims |-> victims[i].key],
                     goal |-> Goal(found, policy)])
    BY <1>6 DEF Plan
  <2> DEFINE keys == [i \in DOMAIN victims |-> victims[i].key]
             r == [pc |-> "remove", victims |-> keys, goal |-> Goal(found, policy)]
  <2>2. /\ victims \in Seq(found)
        /\ \A i \in DOMAIN victims :
              victims[i] \in AgeVictims(found, policy) \cup SizeVictims(found, policy)
    BY <1>1, VictimsFound DEF ListShape
  <2>3. \A i \in DOMAIN victims : victims[i] \in found /\ victims[i].key \in Keys
    BY <1>1, <2>2 DEF ListShape
  <2>4. Len(victims) \in Nat /\ DOMAIN victims = 1..Len(victims)
    BY <2>2
  <2>5. keys \in Seq(Keys)
    BY <2>3, <2>4
  <2>6. ASSUME NEW k \in spare'[p], NEW i \in DOMAIN victims
        PROVE  victims[i].key # k
    <3>1. k \in spare[p] /\ ~free
      BY <1>4
    <3>2. AgeVictims(found, policy) = {}
      BY <3>1 DEF AgeVictims
    <3>3. victims[i] \in found /\ ~Exempt(victims[i], policy)
      BY <2>2, <2>3, <3>2 DEF SizeVictims, Eligible
    <3>4. victims[i].kind # "route"
      BY <3>1, <3>3 DEF Exempt
    <3> QED
      BY <1>1, <3>1, <3>3, <3>4 DEF Spared
  <2> HIDE DEF keys
  <2>7. Shape(r)
    BY <2>5 DEF Shape, RemoveShape, Removing
  <2>8. Become(p, r)
    BY <2>1 DEF keys
  <2>9. op'[p] = r
    BY <2>7, <2>8, OwnStep DEF IInv
  <2>10. \A k \in spare'[p] : k \in spare[p] /\ \A i \in DOMAIN keys : keys[i] # k
    BY <1>4, <2>6 DEF keys
  <2>11. Spared(p)'
    BY <1>1, <1>2, <2>9, <2>10 DEF Spared, Removing
  <2>12. Own(p)'
    BY <1>1, <1>2, <2>9, <2>11
       DEF Own, LockHeld, Unserved, Works, Placed, OwedKept, At, Placing, Removing
  <2> QED
    BY <1>2, <1>4, <2>7, <2>8, <2>12, QuietDoing DEF IInv, Typed
<1> QED
  BY <1>5, <1>6

----------------------------------------------------------------------------
LEMMA KillInv ==
  ASSUME IInv, NEW p \in Procs, Kill(p)
  PROVE  IInv'
<1>1. owed'[p] = None /\ spare'[p] = {}
  BY DEF Kill, IInv, Typed
<1> QED
  BY <1>1, RestInv DEF Kill, disk

(* Time and a reader of manifests touch stamps alone.                        *)
LEMMA StillInv ==
  ASSUME IInv, UNCHANGED <<blob, meta, holder, op, standing, owed, spare>>
  PROVE  IInv'
  BY DEF IInv, Typed, StandingTrue, Own, LockHeld, Unserved, Works, Placed, OwedKept, Spared, At

LEMMA StoreInit ==
  ASSUME Init
  PROVE  IInv
<1>1. Typed
  BY DEF Init, Typed, States, Shape
<1>2. StandingTrue /\ \A p \in Procs : op[p] = Idle /\ owed[p] = None /\ spare[p] = {}
  BY DEF Init, StandingTrue
<1> QED
  BY <1>1, <1>2
     DEF IInv, Own, LockHeld, Unserved, Works, Placed, OwedKept, Spared, At, Idle, Placing, Removing

LEMMA StoreNext ==
  ASSUME IInv, [Next]_vars
  PROVE  IInv'
<1>1. CASE \E p \in Putters : Put(p)
  <2>1. PICK p \in Putters : Put(p)
    BY <1>1
  <2>2. p \in Procs
    BY DEF Procs
  <2>3. CASE \E o \in Offers : o[1] = p /\ Stage(p, o[2], o[3])
    BY <2>2, <2>3, StageInv, OffersAssumption
  <2>4. CASE \E k \in Described : BeginManifest(p, k)
    BY <2>2, <2>4, BeginManifestInv, OffersAssumption
  <2> QED
    BY <2>1, <2>2, <2>3, <2>4, PutEndsInv, BeginCommitInv, DecideInv, PlaceBlobInv,
       PlaceSidecarInv DEF Put
<1>2. CASE \E p \in Getters : Get(p)
  BY <1>2, ReadSidecarInv, OpenBlobInv, StreamInv, EndReadInv DEF Get, Procs
<1>3. CASE \E p \in Deleters \cup Sweepers : Sweep(p) \/ Removal(p) \/ \E k \in Keys : Delete(p, k)
  <2>1. PICK p \in Deleters \cup Sweepers : Sweep(p) \/ Removal(p) \/ \E k \in Keys : Delete(p, k)
    BY <1>3
  <2>2. p \in Procs
    BY DEF Procs
  <2>3. CASE Sweep(p)
    BY <2>2, <2>3, BeginSweepInv, ListInv, ListKindInv, PlanInv DEF Sweep
  <2>4. CASE Removal(p)
    BY <2>2, <2>4, BeginRemoveInv, RemoveFilesInv, RemoveManifestInv, EndRemoveInv DEF Removal
  <2> QED
    BY <2>1, <2>2, <2>3, <2>4, DeleteInv
<1>4. CASE \E p \in Procs : Kill(p)
  BY <1>4, KillInv
<1>5. CASE \E k \in Keys : GetManifest(k) \/ Damage(k)
  BY <1>5, DamageInv, StillInv DEF GetManifest, history
<1>6. CASE Tick \/ UNCHANGED vars
  BY <1>6, StillInv DEF Tick, vars, disk, history
<1> QED
  BY <1>1, <1>2, <1>3, <1>4, <1>5, <1>6 DEF Next

(* The locks, the files, the promises and the lists of the sweeps fit        *)
(* together in every state (backend.rs, cache_gc.rs).                        *)
THEOREM StoreInvariance == Spec => []IInv
<1>1. Init => IInv
  BY StoreInit
<1>2. IInv /\ [Next]_vars => IInv'
  BY StoreNext
<1> QED
  BY <1>1, <1>2, PTL DEF Spec

(* A read that ends while an accepted put stands ends with its bytes, and    *)
(* with no damaged ones ever (open_raw, commit_locked, apply_eviction).      *)
THEOREM AcceptedIsServedCorrect == Spec => []AcceptedIsServed
<1>1. IInv => AcceptedIsServed
  <2> SUFFICES ASSUME IInv, NEW p \in Procs, At(p, "read")
               PROVE  /\ op[p].got # Rotten
                      /\ owed[p] # None => op[p].got = owed[p]
    BY DEF AcceptedIsServed
  <2>1. ReadShape(op[p]) /\ OwedKept(p)
    BY Phases DEF IInv, Typed, Own, At
  <2> QED
    BY <2>1, MarkersAssumption DEF ReadShape, OwedKept, At
<1> QED
  BY <1>1, StoreInvariance, PTL

(* No route to other artifacts is among the victims of a sweep by size that  *)
(* honours the exempt kinds (SIZE_SWEEP_EXEMPT_KINDS, plan_eviction).        *)
THEOREM RoutesSurviveCorrect == Spec => []RoutesSurvive
<1>1. IInv => RoutesSurvive
  <2> SUFFICES ASSUME IInv, NEW p \in Procs, At(p, "remove"), NEW i \in DOMAIN op[p].victims
               PROVE  op[p].victims[i] \notin spare[p]
    BY DEF RoutesSurvive
  <2> QED
    BY DEF IInv, Own, Spared, At
<1> QED
  BY <1>1, StoreInvariance, PTL

(* No step replaces what stands under a key by anything but nothing.         *)
LEMMA OneValue ==
  ASSUME IInv, [Next]_vars, NEW k \in Keys, standing[k] # None, standing'[k] # None
  PROVE  standing'[k] = standing[k]
<1>1. ASSUME NEW p \in Procs, op[p].pc \in Placing, NEW there, Accept(p, there),
             standing[op[p].key] = None \/ standing[op[p].key] = op[p].val
      PROVE  standing'[k] = standing[k]
  BY <1>1 DEF Accept, IInv, Typed
<1>2. ASSUME NEW p \in Procs, Decide(p)
      PROVE  standing'[k] = standing[k]
  <2>1. PutShape(op[p]) /\ op[p].pc \in Placing
    BY <1>2, Phases DEF IInv, Typed, Decide, At, Placing
  <2>2. standing[op[p].key] # None => Prior(op[p].key) = standing[op[p].key]
    BY <2>1, MarkersAssumption
       DEF PutShape, IInv, StandingTrue, Typed, Prior, Serves, None
  <2>3. Prior(op[p].key) = op[p].val => standing[op[p].key] = None \/ standing[op[p].key] = op[p].val
    BY <2>2
  <2> QED
    BY <1>1, <1>2, <2>1, <2>3 DEF Decide, history
<1>3. ASSUME NEW p \in Procs, PlaceSidecar(p)
      PROVE  standing'[k] = standing[k]
  <2>1. PutShape(op[p]) /\ op[p].pc \in Placing /\ op[p].pc = "sidecar"
    BY <1>3, Phases DEF IInv, Typed, PlaceSidecar, At, Placing
  <2>2. standing[op[p].key] = None
    BY <2>1 DEF PutShape, IInv, Own, Unserved, Works
  <2> QED
    BY <1>1, <1>3, <2>1, <2>2 DEF PlaceSidecar
<1>4. ASSUME NEW l \in Keys, Forget(l)
      PROVE  standing'[k] = standing[k]
  BY <1>4, Forgotten
<1>5. ASSUME NEW p \in Procs, BeginRemove(p)
      PROVE  standing'[k] = standing[k]
  <2>1. RemoveShape(op[p]) /\ op[p].victims # <<>>
    BY <1>5, Phases DEF IInv, Typed, BeginRemove, At
  <2>2. Head(op[p].victims) \in Keys
    BY <2>1 DEF RemoveShape
  <2> QED
    BY <1>4, <1>5, <2>2 DEF BeginRemove
<1>6. ASSUME NEW p \in Putters, Put(p)
      PROVE  standing'[k] = standing[k]
  <2>1. p \in Procs
    BY DEF Procs
  <2> QED
    BY <1>2, <1>3, <1>6, <2>1
       DEF Put, Stage, Abandon, BeginCommit, PlaceBlob, PutFails, BeginManifest, WriteManifest,
           history
<1>7. ASSUME NEW p \in Getters, Get(p)
      PROVE  standing'[k] = standing[k]
  BY <1>7 DEF Get, ReadSidecar, OpenBlob, Stream, EndRead, history
<1>8. ASSUME NEW p \in Deleters \cup Sweepers, Sweep(p) \/ Removal(p) \/ \E l \in Keys : Delete(p, l)
      PROVE  standing'[k] = standing[k]
  <2>1. p \in Procs
    BY DEF Procs
  <2> QED
    BY <1>5, <1>8, <2>1
       DEF Sweep, BeginSweep, List, ListKind, Plan, Removal, RemoveSidecar, RemoveBlob,
           RemoveManifest, RemovalFails, EndRemove, Delete, history
<1>9. CASE (\E p \in Procs : Kill(p)) \/ Tick \/ UNCHANGED vars
  BY <1>9 DEF Kill, Tick, vars, history
<1>10. CASE \E l \in Keys : GetManifest(l) \/ Damage(l)
  BY <1>4, <1>10 DEF GetManifest, Damage, history
<1> QED
  BY <1>6, <1>7, <1>8, <1>9, <1>10 DEF Next

(* A key keeps the bytes of the first put it accepted until it is removed or *)
(* damaged, whoever else puts (lock_shard, commit_locked).                   *)
THEOREM OneValuePerKeyCorrect == Spec => OneValuePerKey
<1>1. IInv /\ [Next]_vars =>
        [\A k \in Keys : standing[k] # None /\ standing'[k] # None => standing'[k] = standing[k]]_vars
  BY OneValue
<1> QED
  BY <1>1, StoreInvariance, PTL DEF Spec, OneValuePerKey

----------------------------------------------------------------------------
(* A set of natural numbers has a least one.                                 *)
LEMMA LeastNat ==
  ASSUME NEW T, T \subseteq Nat, T # {}
  PROVE  \E x \in T : \A y \in T : x <= y
<1>1. PICK x \in T : \A y \in T : ~ (<<y, x>> \in OpToRel(<, Nat))
  BY WFMin, NatLessThanWellFounded
<1>2. \A y \in T : ~ (y < x)
  BY <1>1 DEF OpToRel
<1> QED  BY <1>2

(* What MapThenSumSet is over S, of which each member weighs w: a function   *)
(* of the subsets of S, that takes members away one by one.                  *)
Pick(s) == CHOOSE x \in s : TRUE

Added(g, w, s) == IF s = {} THEN 0 ELSE w[Pick(s)] + g[s \ {Pick(s)}]

Sums(g, w, S) == g = [s \in SUBSET S |-> Added(g, w, s)]

(* Taking away the one picked leaves a smaller set.                          *)
LEMMA PickLess ==
  ASSUME NEW s, IsFiniteSet(s), s # {}
  PROVE  /\ Pick(s) \in s /\ IsFiniteSet(s \ {Pick(s)})
         /\ Cardinality(s) \in Nat /\ Cardinality(s \ {Pick(s)}) = Cardinality(s) - 1
<1>1. Pick(s) \in s  BY DEF Pick
<1> QED  BY <1>1, FS_RemoveElement, FS_CardinalityType

(* Sets up to a size have their sum,                                         *)
LEMMA SumsUpTo ==
  ASSUME NEW S, IsFiniteSet(S), NEW w, NEW n \in Nat
  PROVE  \E g : \A s \in SUBSET S : Cardinality(s) <= n => g[s] = Added(g, w, s)
<1> DEFINE Good(m) == \E g : \A s \in SUBSET S : Cardinality(s) <= m => g[s] = Added(g, w, s)
           T == {m \in Nat : ~Good(m)}
<1>s. \A s \in SUBSET S : IsFiniteSet(s) /\ Cardinality(s) \in Nat
  BY FS_Subset, FS_CardinalityType
<1>1. Good(0)
  <2> DEFINE g == [s \in SUBSET S |-> 0]
  <2>1. ASSUME NEW s \in SUBSET S, Cardinality(s) <= 0 PROVE g[s] = Added(g, w, s)
    <3>1. s = {}  BY <1>s, <2>1, FS_EmptySet
    <3> QED  BY <3>1 DEF Added
  <2> HIDE DEF g
  <2> QED  BY <2>1
<1>2. ASSUME NEW m \in Nat, Good(m) PROVE Good(m + 1)
  <2>1. PICK g : \A s \in SUBSET S : Cardinality(s) <= m => g[s] = Added(g, w, s)
    BY <1>2
  <2> DEFINE h == [s \in SUBSET S |-> Added(g, w, s)]
  <2>2. \A s \in SUBSET S : Cardinality(s) <= m => h[s] = g[s]  BY <2>1
  <2>3. ASSUME NEW s \in SUBSET S, Cardinality(s) <= m + 1 PROVE h[s] = Added(h, w, s)
    <3>1. CASE s = {}  BY <3>1 DEF Added
    <3>2. CASE s # {}
      <4> DEFINE t == s \ {Pick(s)}
      <4>1. t \in SUBSET S /\ Cardinality(t) <= m  BY <1>s, <2>3, <3>2, PickLess
      <4>2. h[t] = g[t]  BY <2>2, <4>1
      <4>3. h[s] = Added(g, w, s)  OBVIOUS
      <4> HIDE DEF h
      <4> QED  BY <4>2, <4>3, <3>2 DEF Added
    <3> QED  BY <3>1, <3>2
  <2> HIDE DEF h
  <2> QED  BY <2>3
<1> HIDE DEF Good
<1>3. T = {}
  <2> SUFFICES ASSUME T # {} PROVE FALSE
    OBVIOUS
  <2>1. PICK x \in T : \A y \in T : x <= y  BY LeastNat
  <2>2. x # 0  BY <1>1, <2>1
  <2>3. x - 1 \in Nat /\ x - 1 \notin T  BY <2>1, <2>2
  <2>4. Good((x - 1) + 1)  BY <1>2, <2>3
  <2> QED  BY <2>1, <2>4
<1>4. Good(n)  BY <1>3
<1> QED  BY <1>4 DEF Good

(* so finite sets have one.                                                  *)
LEMMA SumsExist == ASSUME NEW S, IsFiniteSet(S), NEW w PROVE \E g : Sums(g, w, S)
<1>1. Cardinality(S) \in Nat /\ \A s \in SUBSET S : Cardinality(s) <= Cardinality(S)
  BY FS_Subset, FS_CardinalityType
<1>2. PICK g : \A s \in SUBSET S : Cardinality(s) <= Cardinality(S) => g[s] = Added(g, w, s)
  BY <1>1, SumsUpTo
<1> DEFINE h == [s \in SUBSET S |-> g[s]]
<1>3. ASSUME NEW s \in SUBSET S PROVE h[s] = Added(h, w, s)
  <2>1. h[s] = Added(g, w, s)  BY <1>1, <1>2
  <2>2. s # {} => s \ {Pick(s)} \in SUBSET S  OBVIOUS
  <2>3. s # {} => h[s \ {Pick(s)}] = g[s \ {Pick(s)}]  BY <2>2
  <2> HIDE DEF h
  <2> QED  BY <2>1, <2>3 DEF Added
<1>4. h = [s \in SUBSET S |-> h[s]]  OBVIOUS
<1> HIDE DEF h
<1>5. h = [s \in SUBSET S |-> Added(h, w, s)]  BY <1>3, <1>4
<1> QED  BY <1>5 DEF Sums

(* Any member may be the one taken away.                                     *)
LEMMA SumsTake ==
  ASSUME NEW S, IsFiniteSet(S), NEW w, \A x \in S : w[x] \in Nat, NEW g, Sums(g, w, S)
  PROVE  \A s \in SUBSET S : g[s] \in Nat /\ \A x \in s : g[s] = w[x] + g[s \ {x}]
<1> DEFINE Fine(s) == g[s] \in Nat /\ \A x \in s : g[s] = w[x] + g[s \ {x}]
           T == {Cardinality(s) : s \in {t \in SUBSET S : ~Fine(t)}}
<1>s. \A s \in SUBSET S : IsFiniteSet(s) /\ Cardinality(s) \in Nat
  BY FS_Subset, FS_CardinalityType
<1>g. \A s \in SUBSET S : g[s] = Added(g, w, s)  BY DEF Sums
<1> HIDE DEF Fine
<1>1. SUFFICES ASSUME T # {} PROVE FALSE
  <2>1. \A s \in SUBSET S : Fine(s)  BY <1>1
  <2> QED  BY <2>1 DEF Fine
<1>2. T \subseteq Nat  BY <1>s
<1>3. PICK n \in T : \A m \in T : n <= m  BY <1>1, <1>2, LeastNat
<1>4. PICK s \in SUBSET S : ~Fine(s) /\ Cardinality(s) = n  BY <1>3
<1>5. ASSUME NEW t \in SUBSET S, Cardinality(t) < n PROVE Fine(t)
  <2>1. ~Fine(t) => Cardinality(t) \in T  OBVIOUS
  <2> HIDE DEF T
  <2> QED  BY <2>1, <1>2, <1>3, <1>5, <1>s
<1>6. s # {}
  <2>1. s = {} => g[s] = 0  BY <1>g DEF Added
  <2> QED  BY <1>4, <2>1 DEF Fine
<1> DEFINE y == Pick(s)
<1>7. y \in s /\ g[s] = w[y] + g[s \ {y}]  BY <1>6, <1>g, PickLess, <1>s DEF Added
<1> HIDE DEF y
<1>8. \A x \in s : s \ {x} \in SUBSET S /\ Cardinality(s \ {x}) < n
  BY <1>s, <1>4, FS_RemoveElement
<1>9. \A x \in s : Fine(s \ {x})  BY <1>5, <1>8
<1>10. g[s] \in Nat
  <2>1. w[y] \in Nat /\ g[s \ {y}] \in Nat  BY <1>7, <1>9 DEF Fine
  <2> QED  BY <1>7, <2>1
<1>11. ASSUME NEW x \in s, x # y PROVE g[s] = w[x] + g[s \ {x}]
  <2> DEFINE r == (s \ {x}) \ {y}
  <2>1. g[s \ {y}] = w[x] + g[(s \ {y}) \ {x}]  BY <1>7, <1>9, <1>11 DEF Fine
  <2>2. g[s \ {x}] = w[y] + g[r]  BY <1>7, <1>9, <1>11 DEF Fine
  <2>3. (s \ {y}) \ {x} = r  OBVIOUS
  <2>4. r \in SUBSET S  OBVIOUS
  <2>5. Cardinality(r) < n
    <3>1. y \in s \ {x}  BY <1>7, <1>11
    <3>2. Cardinality(r) = Cardinality(s \ {x}) - 1  BY <3>1, <1>s, <1>8, FS_RemoveElement
    <3> QED  BY <3>2, <1>8, <1>s, <1>2
  <2>6. g[r] \in Nat  BY <1>5, <2>4, <2>5 DEF Fine
  <2> HIDE DEF r
  <2>7. w[x] \in Nat /\ w[y] \in Nat  BY <1>7
  <2>8. g[s] = w[y] + (w[x] + g[r])  BY <1>7, <2>1, <2>3
  <2>9. \A a, b, c \in Nat : a + (b + c) = b + (a + c)  OBVIOUS
  <2>10. g[s] = w[x] + (w[y] + g[r])  BY <2>6, <2>7, <2>8, <2>9
  <2> QED  BY <2>2, <2>10
<1> QED  BY <1>4, <1>7, <1>10, <1>11 DEF Fine

(* What a sum is of a set does not depend on the set around it.              *)
LEMMA SumsSame ==
  ASSUME NEW S, IsFiniteSet(S), NEW w, NEW g, Sums(g, w, S),
         NEW R, R \subseteq S, NEW v, \A x \in R : v[x] = w[x], NEW h, Sums(h, v, R)
  PROVE  \A s \in SUBSET R : h[s] = g[s]
<1> DEFINE T == {Cardinality(s) : s \in {t \in SUBSET R : h[t] # g[t]}}
<1>s. \A s \in SUBSET S : IsFiniteSet(s) /\ Cardinality(s) \in Nat
  BY FS_Subset, FS_CardinalityType
<1>1. SUFFICES ASSUME T # {} PROVE FALSE
  BY <1>1
<1>2. T \subseteq Nat  BY <1>s
<1>3. PICK n \in T : \A m \in T : n <= m  BY <1>1, <1>2, LeastNat
<1>4. PICK s \in SUBSET R : h[s] # g[s] /\ Cardinality(s) = n  BY <1>3
<1>5. \A t \in SUBSET R : Cardinality(t) < n => h[t] = g[t]  BY <1>2, <1>3, <1>s
<1>6. g[s] = Added(g, w, s) /\ h[s] = Added(h, v, s)  BY DEF Sums
<1>7. CASE s = {}  BY <1>4, <1>6, <1>7 DEF Added
<1>8. CASE s # {}
  <2> DEFINE t == s \ {Pick(s)}
  <2>1. t \in SUBSET R /\ Cardinality(t) < n /\ Pick(s) \in R  BY <1>4, <1>8, <1>s, PickLess
  <2>2. h[t] = g[t]  BY <2>1, <1>5
  <2> QED  BY <1>4, <1>6, <1>8, <2>1, <2>2 DEF Added
<1> QED  BY <1>7, <1>8

(* The bytes of candidates are such a sum.                                   *)
LEMMA BytesSums ==
  ASSUME NEW cs, IsFiniteSet(cs)
  PROVE  \E g : Sums(g, [c \in cs |-> c.size], cs) /\ Bytes(cs) = g[cs]
<1> DEFINE w == [c \in cs |-> c.size]
           G == CHOOSE g : g = [s \in SUBSET cs |->
                   IF s = {} THEN 0
                   ELSE LET x == CHOOSE x \in s : TRUE IN x.size + g[s \ {x}]]
<1>1. \A g : [s \in SUBSET cs |-> IF s = {} THEN 0
                   ELSE LET x == CHOOSE x \in s : TRUE IN x.size + g[s \ {x}]]
             = [s \in SUBSET cs |-> Added(g, w, s)]
  <2>1. \A s \in SUBSET cs : s # {} => Pick(s) \in s  BY DEF Pick
  <2> QED  BY <2>1 DEF Added, Pick
<1>2. PICK g : Sums(g, w, cs)  BY SumsExist
<1>3. g = [s \in SUBSET cs |-> IF s = {} THEN 0
                   ELSE LET x == CHOOSE x \in s : TRUE IN x.size + g[s \ {x}]]
  BY <1>1, <1>2 DEF Sums
<1>4. G = [s \in SUBSET cs |-> IF s = {} THEN 0
                   ELSE LET x == CHOOSE x \in s : TRUE IN x.size + G[s \ {x}]]
  BY <1>3
<1> HIDE DEF G
<1>5. Sums(G, w, cs)  BY <1>1, <1>4 DEF Sums
<1>6. Bytes(cs) = G[cs]  BY DEF Bytes, MapThenSumSet, MapThenFoldSet, G
<1> QED  BY <1>5, <1>6

(* Bytes takes any one away.                                                 *)
LEMMA BytesTake ==
  ASSUME NEW cs, IsFiniteSet(cs), \A c \in cs : c.size \in Nat
  PROVE  Bytes(cs) \in Nat /\ \A c \in cs : Bytes(cs) = c.size + Bytes(cs \ {c})
<1> DEFINE w == [c \in cs |-> c.size]
<1>1. PICK g : Sums(g, w, cs) /\ Bytes(cs) = g[cs]  BY BytesSums
<1>w. \A c \in cs : w[c] = c.size /\ w[c] \in Nat  OBVIOUS
<1> HIDE DEF w
<1>2. g[cs] \in Nat /\ \A c \in cs : g[cs] = w[c] + g[cs \ {c}]
  <2>1. Sums(g, w, cs)  BY <1>1
  <2>f. IsFiniteSet(cs)  OBVIOUS
  <2>w. \A x \in cs : w[x] \in Nat  BY <1>w
  <2>2. \A s \in SUBSET cs : g[s] \in Nat /\ \A x \in s : g[s] = w[x] + g[s \ {x}]
    BY ONLY <2>1, <2>f, <2>w, SumsTake
  <2> QED  BY <2>2
<1>3. ASSUME NEW c \in cs PROVE Bytes(cs \ {c}) = g[cs \ {c}]
  <2> DEFINE ds == cs \ {c}
             v == [d \in ds |-> d.size]
  <2>1. IsFiniteSet(ds) /\ ds \subseteq cs  BY FS_Subset
  <2> HIDE DEF ds
  <2>2. PICK h : Sums(h, v, ds) /\ Bytes(ds) = h[ds]  BY <2>1, BytesSums
  <2>3. \A d \in ds : v[d] = w[d]  BY <2>1, <1>w
  <2> HIDE DEF v
  <2>4. \A s \in SUBSET ds : h[s] = g[s]  BY <1>1, <2>1, <2>2, <2>3, SumsSame
  <2> QED  BY <2>2, <2>4 DEF ds
<1> QED  BY <1>1, <1>2, <1>3, <1>w

(* and is no less of more.                                                   *)
LEMMA BytesMore ==
  ASSUME NEW cs, IsFiniteSet(cs), \A c \in cs : c.size \in Nat, NEW R, R \subseteq cs
  PROVE  Bytes(R) <= Bytes(cs)
<1> DEFINE Bad == {t \in SUBSET cs : R \subseteq t /\ ~(Bytes(R) <= Bytes(t))}
           T == {Cardinality(t) : t \in Bad}
<1>s. \A s \in SUBSET cs : IsFiniteSet(s) /\ Cardinality(s) \in Nat /\ Bytes(s) \in Nat
  BY FS_Subset, FS_CardinalityType, BytesTake
<1>1. SUFFICES ASSUME T # {} PROVE FALSE
  <2>1. Bad = {}  BY <1>1
  <2> QED  BY <2>1
<1>2. T \subseteq Nat  BY <1>s
<1>3. PICK n \in T : \A m \in T : n <= m  BY <1>1, <1>2, LeastNat
<1>4. PICK s \in Bad : Cardinality(s) = n  BY <1>3
<1>5. PICK x \in s : x \notin R
  <2>1. s # R  BY <1>4, <1>s
  <2> QED  BY <1>4, <2>1
<1> DEFINE t == s \ {x}
<1>6. t \in SUBSET cs /\ R \subseteq t /\ Cardinality(t) = n - 1
  BY <1>4, <1>5, <1>s, FS_RemoveElement
<1>7. Bytes(s) = x.size + Bytes(t) /\ x.size \in Nat  BY <1>4, <1>s, BytesTake
<1>8. ~(Bytes(R) <= Bytes(t))  BY <1>4, <1>7, <1>6, <1>s
<1>9. n - 1 \in T
  <2>1. t \in Bad  BY <1>6, <1>8
  <2> HIDE DEF Bad, t
  <2> QED  BY <1>6, <2>1
<1> HIDE DEF T
<1> QED  BY <1>2, <1>3, <1>9

(* What the blobs of ks hold.                                                *)
BlobBytes(ks) == MapThenSumSet(BlobSize, ks)

(* The bytes of blobs are one too,                                           *)
LEMMA BlobsSum ==
  ASSUME NEW ks, IsFiniteSet(ks)
  PROVE  \E g : Sums(g, [k \in ks |-> BlobSize(k)], ks) /\ BlobBytes(ks) = g[ks]
<1> DEFINE w == [k \in ks |-> BlobSize(k)]
           G == CHOOSE g : g = [s \in SUBSET ks |->
                   IF s = {} THEN 0
                   ELSE LET x == CHOOSE x \in s : TRUE IN BlobSize(x) + g[s \ {x}]]
<1>1. \A g : [s \in SUBSET ks |-> IF s = {} THEN 0
                   ELSE LET x == CHOOSE x \in s : TRUE IN BlobSize(x) + g[s \ {x}]]
             = [s \in SUBSET ks |-> Added(g, w, s)]
  <2>1. \A s \in SUBSET ks : s # {} => Pick(s) \in s  BY DEF Pick
  <2> QED  BY <2>1 DEF Added, Pick
<1>2. PICK g : Sums(g, w, ks)  BY SumsExist
<1>3. g = [s \in SUBSET ks |-> IF s = {} THEN 0
                   ELSE LET x == CHOOSE x \in s : TRUE IN BlobSize(x) + g[s \ {x}]]
  BY <1>1, <1>2 DEF Sums
<1>4. G = [s \in SUBSET ks |-> IF s = {} THEN 0
                   ELSE LET x == CHOOSE x \in s : TRUE IN BlobSize(x) + G[s \ {x}]]
  BY <1>3
<1> HIDE DEF G
<1>5. Sums(G, w, ks)  BY <1>1, <1>4 DEF Sums
<1>6. BlobBytes(ks) = G[ks]  BY DEF BlobBytes, MapThenSumSet, MapThenFoldSet, G
<1> QED  BY <1>5, <1>6

(* and take any one away.                                                    *)
LEMMA BlobsTake ==
  ASSUME NEW ks, IsFiniteSet(ks), \A k \in ks : BlobSize(k) \in Nat
  PROVE  /\ BlobBytes(ks) \in Nat /\ \A k \in ks : BlobBytes(ks) = BlobSize(k) + BlobBytes(ks \ {k})
         /\ ks = {} => BlobBytes(ks) = 0
<1> DEFINE w == [k \in ks |-> BlobSize(k)]
<1>1. PICK g : Sums(g, w, ks) /\ BlobBytes(ks) = g[ks]  BY BlobsSum
<1>w. \A k \in ks : w[k] = BlobSize(k) /\ w[k] \in Nat  OBVIOUS
<1> HIDE DEF w
<1>2. g[ks] \in Nat /\ \A k \in ks : g[ks] = w[k] + g[ks \ {k}]
  <2>1. \A s \in SUBSET ks : g[s] \in Nat /\ \A x \in s : g[s] = w[x] + g[s \ {x}]
    BY <1>1, <1>w, SumsTake
  <2> QED  BY <2>1
<1>3. ASSUME NEW k \in ks PROVE BlobBytes(ks \ {k}) = g[ks \ {k}]
  <2> DEFINE ds == ks \ {k}
             v == [d \in ds |-> BlobSize(d)]
  <2>1. IsFiniteSet(ds) /\ ds \subseteq ks  BY FS_Subset
  <2> HIDE DEF ds
  <2>2. PICK h : Sums(h, v, ds) /\ BlobBytes(ds) = h[ds]  BY <2>1, BlobsSum
  <2>3. \A d \in ds : v[d] = w[d]  BY <2>1, <1>w
  <2> HIDE DEF v
  <2>4. \A s \in SUBSET ds : h[s] = g[s]  BY <1>1, <2>1, <2>2, <2>3, SumsSame
  <2> QED  BY <2>2, <2>4 DEF ds
<1>4. g[ks] = Added(g, w, ks)  BY <1>1 DEF Sums
<1> QED  BY <1>1, <1>2, <1>3, <1>4, <1>w DEF Added

(* What stands of a key where the blobs are b and the manifests m, and that  *)
(* candidates account for it.                                                *)
Held(b, k) == IF b[k] \in Contents THEN SizeOf[b[k]] ELSE 1

Beside(m, k) == IF k \in m THEN ManifestSize ELSE 0

Weighs(b, m, k) == (IF b[k] # Absent THEN Held(b, k) ELSE 0) + Beside(m, k)

Covers(R, K, b, m) ==
  \A k \in K : Weighs(b, m, k) > 0 => \E c \in R : c.key = k /\ Weighs(b, m, k) <= c.size

Weight(k) == Weighs(blob, manifest, k)

Blobs(K) == {k \in K : blob[k] # Absent}

Stands(K) == BlobBytes(Blobs(K)) + ManifestSize * Cardinality(manifest \cap K)

(* No blob is empty.                                                         *)
LEMMA BlobSizes == ASSUME NEW k PROVE BlobSize(k) \in Nat \ {0}
  BY SizesAssumption DEF BlobSize

(* A key more is its weight more.                                            *)
LEMMA StandsTake ==
  ASSUME NEW K, IsFiniteSet(K), NEW k \in K
  PROVE  Stands(K) \in Nat /\ Stands(K \ {k}) \in Nat /\ Stands(K) = Weight(k) + Stands(K \ {k})
<1> DEFINE L == K \ {k}
           n == Cardinality(manifest \cap L)
<1>1. IsFiniteSet(L) /\ L \subseteq K /\ k \notin L /\ K = L \cup {k}  BY FS_Subset
<1>2. IsFiniteSet(Blobs(K)) /\ IsFiniteSet(Blobs(L))  BY <1>1, FS_Subset DEF Blobs
<1>3. IsFiniteSet(manifest \cap K) /\ IsFiniteSet(manifest \cap L)  BY <1>1, FS_Subset
<1>4. n \in Nat /\ Cardinality(manifest \cap K) \in Nat  BY <1>3, FS_CardinalityType
<1>5. BlobBytes(Blobs(K)) \in Nat /\ BlobBytes(Blobs(L)) \in Nat  BY <1>2, BlobSizes, BlobsTake
<1>6. BlobBytes(Blobs(K)) = (IF blob[k] # Absent THEN BlobSize(k) ELSE 0) + BlobBytes(Blobs(L))
  <2>1. CASE blob[k] # Absent
    <3>1. k \in Blobs(K) /\ Blobs(L) = Blobs(K) \ {k}  BY <2>1, <1>1 DEF Blobs
    <3>2. \A x \in Blobs(K) : BlobSize(x) \in Nat  BY BlobSizes
    <3>3. BlobBytes(Blobs(K)) = BlobSize(k) + BlobBytes(Blobs(K) \ {k})
      BY <3>1, <3>2, <1>2, BlobsTake
    <3> QED  BY <2>1, <3>1, <3>3
  <2>2. CASE blob[k] = Absent
    <3>1. Blobs(L) = Blobs(K)  BY <2>2, <1>1 DEF Blobs
    <3> QED  BY <2>2, <3>1, <1>5
  <2> QED  BY <2>1, <2>2
<1>7. Cardinality(manifest \cap K) = (IF k \in manifest THEN 1 ELSE 0) + n
  <2>1. CASE k \in manifest
    <3>1. manifest \cap K = (manifest \cap L) \cup {k} /\ k \notin manifest \cap L
      BY <2>1, <1>1
    <3>2. Cardinality((manifest \cap L) \cup {k}) = n + 1  BY <3>1, <1>3, FS_AddElement
    <3> QED  BY <2>1, <3>1, <3>2, <1>4
  <2>2. CASE k \notin manifest
    <3>1. manifest \cap K = manifest \cap L  BY <2>2, <1>1
    <3> QED  BY <2>2, <3>1, <1>4
  <2> QED  BY <2>1, <2>2
<1>8. ManifestSize \in Nat /\ BlobSize(k) \in Nat  BY SizesAssumption, BlobSizes
<1>9. ManifestSize * Cardinality(manifest \cap K)
        = (IF k \in manifest THEN ManifestSize ELSE 0) + ManifestSize * n
  <2>1. \A a, b \in Nat : a * (1 + b) = a + a * b /\ a * (0 + b) = 0 + a * b /\ a * b \in Nat
    OBVIOUS
  <2> HIDE DEF n
  <2> QED  BY <1>4, <1>7, <1>8, <2>1
<1>10. ManifestSize * n \in Nat
  <2>1. \A a, b \in Nat : a * b \in Nat  OBVIOUS
  <2> HIDE DEF n
  <2> QED  BY <1>4, <1>8, <2>1
<1>11. /\ Stands(K) = BlobBytes(Blobs(K)) + ManifestSize * Cardinality(manifest \cap K)
       /\ Stands(L) = BlobBytes(Blobs(L)) + ManifestSize * n
  BY DEF Stands
<1> HIDE DEF n, L
<1>12. Stands(L) \in Nat  BY <1>5, <1>10, <1>11
<1>13. Stands(K) = Weight(k) + Stands(L)
  <2> DEFINE a == IF blob[k] # Absent THEN BlobSize(k) ELSE 0
             b == IF k \in manifest THEN ManifestSize ELSE 0
             x == BlobBytes(Blobs(L))
             y == ManifestSize * n
  <2>1. a \in Nat /\ b \in Nat /\ x \in Nat /\ y \in Nat  BY <1>5, <1>8, <1>10
  <2>2. Stands(K) = (a + x) + (b + y) /\ Stands(L) = x + y  BY <1>6, <1>9, <1>11
  <2>3. Weight(k) = a + b  BY DEF Weight, Weighs, Held, Beside, BlobSize
  <2> HIDE DEF a, b, x, y
  <2> QED  BY <2>1, <2>2, <2>3
<1>14. Weight(k) \in Nat  BY <1>8 DEF Weight, Weighs, Held, Beside, BlobSize
<1> QED  BY <1>12, <1>13, <1>14 DEF L

(* Where there are no keys, nothing stands.                                  *)
LEMMA StandsNone == Stands({}) = 0
<1>1. Blobs({}) = {} /\ manifest \cap {} = {}  BY DEF Blobs
<1>2. BlobBytes({}) = 0  BY FS_EmptySet, BlobsTake
<1>3. Cardinality({}) = 0  BY FS_EmptySet
<1>4. \A a \in Nat : a * 0 = 0  OBVIOUS
<1>5. ManifestSize * 0 = 0  BY <1>4, SizesAssumption
<1> QED  BY <1>1, <1>2, <1>3, <1>5 DEF Stands

(* What candidates account for fits their bytes.                             *)
LEMMA Covered ==
  ASSUME NEW K, IsFiniteSet(K), NEW R, IsFiniteSet(R), \A c \in R : c.size \in Nat,
         Covers(R, K, blob, manifest)
  PROVE  Stands(K) <= Bytes(R)
<1> DEFINE Accounted(L) == \A P \in SUBSET R : Covers(P, L, blob, manifest) => Stands(L) <= Bytes(P)
           T == {Cardinality(L) : L \in {M \in SUBSET K : ~Accounted(M)}}
<1>s. \A L \in SUBSET K : IsFiniteSet(L) /\ Cardinality(L) \in Nat
  BY FS_Subset, FS_CardinalityType
<1>r. \A P \in SUBSET R : /\ IsFiniteSet(P) /\ Bytes(P) \in Nat
                          /\ \A c \in P : Bytes(P) = c.size + Bytes(P \ {c})
  BY FS_Subset, BytesTake
<1> HIDE DEF Accounted
<1>1. SUFFICES ASSUME T # {} PROVE FALSE
  <2>1. Accounted(K)  BY <1>1
  <2> QED  BY <2>1 DEF Accounted
<1>2. T \subseteq Nat  BY <1>s
<1>3. PICK n \in T : \A m \in T : n <= m  BY <1>1, <1>2, LeastNat
<1>4. PICK L \in SUBSET K : ~Accounted(L) /\ Cardinality(L) = n  BY <1>3
<1>5. PICK P \in SUBSET R : Covers(P, L, blob, manifest) /\ ~(Stands(L) <= Bytes(P))
  BY <1>4 DEF Accounted
<1>6. L # {}
  <2>1. Bytes(P) \in Nat /\ ~(Stands(L) <= Bytes(P))  BY <1>5, <1>r
  <2>2. \A x \in Nat : 0 <= x  OBVIOUS
  <2> QED  BY <2>1, <2>2, StandsNone
<1>7. PICK k : k \in L  BY <1>6
<1> DEFINE M == L \ {k}
<1>8. M \in SUBSET K /\ Cardinality(M) = n - 1  BY <1>4, <1>7, <1>s, FS_RemoveElement
<1>9. Accounted(M)
  <2>1. ~Accounted(M) => Cardinality(M) \in T  BY <1>8
  <2> HIDE DEF T, M
  <2> QED  BY <2>1, <1>2, <1>3, <1>8
<1>10. Stands(M) \in Nat /\ Stands(L) = Weight(k) + Stands(M)  BY <1>4, <1>7, <1>s, StandsTake
<1>11. Weight(k) \in Nat  BY BlobSizes, SizesAssumption DEF Weight, Weighs, Held, Beside, BlobSize
<1>12. CASE Weight(k) = 0
  <2>1. Covers(P, M, blob, manifest)  BY <1>5 DEF Covers, Weight
  <2>2. Stands(M) <= Bytes(P)  BY <2>1, <1>9 DEF Accounted
  <2> QED  BY <2>2, <1>5, <1>10, <1>12
<1>13. CASE Weight(k) > 0
  <2>1. PICK c \in P : c.key = k /\ Weight(k) <= c.size  BY <1>5, <1>7, <1>13 DEF Covers, Weight
  <2> DEFINE Q == P \ {c}
  <2>2. Q \in SUBSET R  OBVIOUS
  <2>3. Covers(Q, M, blob, manifest)  BY <1>5, <2>1 DEF Covers, Weight
  <2>4. Stands(M) <= Bytes(Q)  BY <2>2, <2>3, <1>9 DEF Accounted
  <2>5. Bytes(P) = c.size + Bytes(Q) /\ Bytes(Q) \in Nat /\ c.size \in Nat  BY <1>r, <2>2
  <2> HIDE DEF Q, M
  <2> QED  BY <2>1, <2>4, <2>5, <1>5, <1>10, <1>11
<1> QED  BY <1>11, <1>12, <1>13

(* A sequence of all of a finite set leaves none out.                        *)
LEMMA SeqsAll ==
  ASSUME NEW S, IsFiniteSet(S), NEW f \in SetToSeqs(S), NEW c \in S
  PROVE  \E i \in DOMAIN f : f[i] = c
<1> DEFINE n == Cardinality(S)
           D == 1 .. n
<1>1. n \in Nat  BY FS_CardinalityType
<1>2. f \in [D -> S] /\ \A i, j \in D : i # j => f[i] # f[j]  BY DEF SetToSeqs
<1>3. SUFFICES ASSUME \A i \in D : f[i] # c PROVE FALSE
  BY <1>2
<1>4. IsFiniteSet(D) /\ Cardinality(D) = n
  <2>1. 1 \in Int /\ n \in Int /\ (1 > n => n = 0)  BY <1>1
  <2>2. IsFiniteSet(D) /\ Cardinality(D) = IF 1 > n THEN 0 ELSE n - 1 + 1  BY <2>1, FS_Interval
  <2> HIDE DEF D, n
  <2> QED  BY <2>1, <2>2
<1>5. IsFiniteSet(S \ {c}) /\ Cardinality(S \ {c}) = n - 1  BY FS_RemoveElement
<1>6. f \in [D -> S \ {c}]  BY <1>2, <1>3
<1>7. Cardinality(S \ {c}) < Cardinality(D)  BY <1>1, <1>4, <1>5
<1>8. \E x, y \in D : x # y /\ f[x] = f[y]
  <2> HIDE DEF D, n
  <2> QED  BY <1>4, <1>5, <1>6, <1>7, FS_PigeonHole
<1> QED  BY <1>2, <1>8

(* Every victim stands in the sequence.                                      *)
LEMMA VictimsAll ==
  ASSUME NEW found, IsFiniteSet(found), NEW policy, NEW victims \in Victims(found, policy),
         NEW c \in AgeVictims(found, policy) \cup SizeVictims(found, policy)
  PROVE  \E i \in DOMAIN victims : victims[i] = c
<1> DEFINE old == AgeVictims(found, policy)
           big == SizeVictims(found, policy)
<1>1. old \subseteq found /\ big \subseteq found  BY DEF AgeVictims, SizeVictims, Eligible
<1>2. PICK a \in SetToSeqs(old), b \in SetToSeqs(big) : victims = a \o b  BY DEF Victims
<1>3. IsFiniteSet(old) /\ IsFiniteSet(big)  BY <1>1, FS_Subset
<1>4. Cardinality(old) \in Nat /\ Cardinality(big) \in Nat  BY <1>3, FS_CardinalityType
<1>5. a \in [1..Cardinality(old) -> old] /\ b \in [1..Cardinality(big) -> big]
  BY <1>2 DEF SetToSeqs
<1>6. c \in old => \E i \in DOMAIN a : a[i] = c  BY <1>2, <1>3, SeqsAll
<1>7. c \in big => \E i \in DOMAIN b : b[i] = c  BY <1>2, <1>3, SeqsAll
<1> HIDE DEF old, big
<1>8. a \in Seq(old) /\ b \in Seq(big)  BY <1>4, <1>5
<1>9. a \in Seq(old \cup big) /\ b \in Seq(old \cup big)  BY <1>8
<1>10. /\ Len(a) \in Nat /\ Len(b) \in Nat /\ DOMAIN a = 1 .. Len(a) /\ DOMAIN b = 1 .. Len(b)
       /\ DOMAIN victims = 1 .. Len(a) + Len(b)
       /\ \A i \in 1 .. Len(a) : victims[i] = a[i]
       /\ \A i \in 1 .. Len(b) : victims[Len(a) + i] = b[i]
  BY <1>2, <1>9
<1>11. CASE c \in old
  <2>1. PICK i \in DOMAIN a : a[i] = c  BY <1>6, <1>11
  <2> QED  BY <2>1, <1>10
<1>12. CASE c \in big
  <2>1. PICK i \in DOMAIN b : b[i] = c  BY <1>7, <1>12
  <2>2. Len(a) + i \in DOMAIN victims  BY <2>1, <1>10
  <2> QED  BY <2>1, <2>2, <1>10
<1> QED  BY <1>11, <1>12 DEF old, big

(* What a listing finds: candidates of keys, one each.                       *)
Counted(found) ==
  \A c \in found : c.key \in Keys /\ c.size \in Nat /\ c.last \in Nat

OneEach(found) == \A c, d \in found : c.key = d.key => c = d

(* The order of the size pass is one.                                        *)
LEMMA BeforeOrders ==
  ASSUME NEW found, Counted(found)
  PROVE  /\ \A c \in found : ~Before(c, c)
         /\ \A c, d, e \in found : Before(c, d) /\ Before(d, e) => Before(c, e)
<1>1. \A c \in found : c.last \in Nat /\ RankOf[c.key] \in Int
  BY RanksAssumption DEF Counted
<1>2. ASSUME NEW c \in found PROVE ~Before(c, c)
  BY <1>1 DEF Before
<1>3. ASSUME NEW c \in found, NEW d \in found, NEW e \in found, Before(c, d), Before(d, e)
      PROVE  Before(c, e)
  BY <1>1, <1>3 DEF Before
<1> QED  BY <1>2, <1>3

(* The low water mark is a number.                                           *)
LEMMA TargetInt ==
  ASSUME NEW policy \in Policies
  PROVE  Target(policy) \in Int
<1>1. policy.max \in Int /\ policy.low[1] \in Nat /\ policy.low[2] \in Nat \ {0}
  BY PoliciesAssumption
<1>2. policy.max * policy.low[1] \in Int  BY <1>1
<1>3. \A a \in Int, b \in Nat \ {0} : a \div b \in Int  OBVIOUS
<1> QED  BY <1>1, <1>2, <1>3 DEF Target

(* The size pass reaches its target, or takes all that it may.               *)
LEMMA PlanFits ==
  ASSUME NEW found, IsFiniteSet(found), Counted(found), OneEach(found),
         NEW policy \in Policies, policy.max >= 0
  PROVE  Bytes(found \ (AgeVictims(found, policy) \cup SizeVictims(found, policy)))
           <= Goal(found, policy)
<1> DEFINE old == AgeVictims(found, policy)
           big == SizeVictims(found, policy)
           E == Eligible(found, policy)
           earlier(c) == {d \in E : Before(d, c)}
           R == found \ (old \cup big)
           spared == {c \in found : Exempt(c, policy)}
<1>1. Target(policy) \in Int  BY TargetInt
<1>2. policy.max \in Int /\ ~(policy.max < 0)  BY PoliciesAssumption
<1>b. \A s \in SUBSET found : Bytes(s) \in Nat /\ \A t \in SUBSET s : Bytes(t) <= Bytes(s)
  <2> TAKE s \in SUBSET found
  <2>1. IsFiniteSet(s) /\ \A c \in s : c.size \in Nat  BY FS_Subset DEF Counted
  <2> QED  BY <2>1, BytesTake, BytesMore
<1>3. Goal(found, policy) = IF Bytes(spared) > Target(policy) THEN Bytes(spared) ELSE Target(policy)
  BY <1>2 DEF Goal
<1>4. spared \in SUBSET found /\ R \in SUBSET found  OBVIOUS
<1>5. Bytes(spared) \in Nat /\ Bytes(R) \in Nat  BY <1>b, <1>4
<1>6. E \subseteq found  BY DEF Eligible
<1>7. big = {c \in E : Bytes(found \ (old \cup earlier(c))) > Target(policy)}
  BY <1>2 DEF SizeVictims, Left
<1>8. CASE E \subseteq big
  <2>1. R \subseteq spared
    <3> SUFFICES ASSUME NEW c \in R PROVE Exempt(c, policy)
      OBVIOUS
    <3>1. c \in found /\ c \notin old /\ c \notin E  BY <1>8
    <3>2. c.key \notin {d.key : d \in old}
      <4>1. \A d \in old : d \in found  BY DEF AgeVictims
      <4> QED  BY <3>1, <4>1 DEF OneEach
    <3> QED  BY <3>1, <3>2 DEF Eligible
  <2>2. Bytes(R) <= Bytes(spared)  BY <2>1, <1>b, <1>4
  <2> HIDE DEF R, spared
  <2> QED  BY <2>2, <1>1, <1>3, <1>5 DEF R
<1>9. CASE ~(E \subseteq big)
  <2> DEFINE T == {Cardinality(earlier(c)) : c \in E \ big}
  <2>f. \A c \in E : IsFiniteSet(earlier(c)) /\ Cardinality(earlier(c)) \in Nat
    BY <1>6, FS_Subset, FS_CardinalityType
  <2>1. T \subseteq Nat /\ T # {}  BY <2>f, <1>9
  <2>2. PICK n \in T : \A m \in T : n <= m  BY <2>1, LeastNat
  <2>3. PICK c \in E \ big : Cardinality(earlier(c)) = n  BY <2>2
  <2>4. ASSUME NEW d \in earlier(c), d \notin big PROVE FALSE
    <3>1. d \in E /\ Before(d, c)  OBVIOUS
    <3>2. earlier(d) \subseteq earlier(c) \ {d}
      BY <1>6, <2>3, <3>1, BeforeOrders
    <3>3. IsFiniteSet(earlier(c) \ {d}) /\ Cardinality(earlier(c) \ {d}) = n - 1
      BY <2>3, <2>4, <2>f, FS_RemoveElement
    <3>4. Cardinality(earlier(d)) <= n - 1  BY <3>2, <3>3, FS_Subset
    <3>5. Cardinality(earlier(d)) \in T  BY <3>1, <2>4
    <3>6. Cardinality(earlier(d)) \in Nat /\ n \in Nat  BY <2>f, <3>1, <2>1, <2>2
    <3> HIDE DEF T, earlier
    <3> QED  BY <3>4, <3>5, <3>6, <2>2
  <2> DEFINE L == found \ (old \cup earlier(c))
  <2>5. R \subseteq L /\ L \in SUBSET found  BY <2>4
  <2>6. ~(Bytes(L) > Target(policy))  BY <2>3, <1>7
  <2>7. Bytes(R) <= Bytes(L) /\ Bytes(L) \in Nat  BY <2>5, <1>b
  <2> HIDE DEF R, L, spared
  <2> QED  BY <2>6, <2>7, <1>1, <1>3, <1>5 DEF R
<1> QED  BY <1>8, <1>9

(* What has been listed accounts for what stands of it, no key twice.        *)
Lists(F, todo, b, m) ==
  /\ Counted(F) /\ OneEach(F)
  /\ \A k \in Keys : b[k] # Absent /\ <<k, "blob">> \notin todo =>
       \E c \in F : c.key = k /\ Held(b, k) + Beside(m, k) <= c.size
  /\ \A k \in m : b[k] = Absent /\ <<k, "manifest">> \notin todo =>
       \E c \in F : c.key = k /\ ManifestSize <= c.size
  /\ \A c \in F : <<c.key, IF b[c.key] # Absent THEN "blob" ELSE "manifest">> \notin todo

Listing(o, b, m) ==
  /\ o.pc = "list" => Lists(o.found, o.todo, b, m)
  /\ o.pc = "kind" => /\ Lists(o.found \cup {o.cand}, o.todo, b, m)
                      /\ \A c \in o.found : c.key # o.cand.key

(* What is no longer to be removed fits the goal.                            *)
Others(victims) == {k \in Keys : \A i \in DOMAIN victims : victims[i] # k}

Fits(R, goal) ==
  IsFiniteSet(R) /\ (\A c \in R : c.size \in Nat) /\ goal \in Int /\ Bytes(R) <= goal

Remaining(o, b, m) ==
  o.pc \in {"remove"} \cup Removing /\ o.goal >= 0 =>
    \E R : Fits(R, o.goal) /\ Covers(R, Others(o.victims), b, m)

Emptied(o, b) ==
  o.pc = "unmanifest" => Head(o.victims) \in Keys /\ b[Head(o.victims)] = Absent

Swept(o, b, m) == Listing(o, b, m) /\ Remaining(o, b, m) /\ Emptied(o, b)

(* Nobody puts a blob or a manifest, or takes a blob.                        *)
Shrink(b, m, c, n) ==
  /\ \A k \in Keys : (c[k] = Absent <=> b[k] = Absent) /\ Held(c, k) <= Held(b, k)
  /\ n \subseteq m /\ m \subseteq Keys

(* What is weighed are natural numbers.                                      *)
LEMMA SizesNat ==
  \A b, m, k : Held(b, k) \in Nat \ {0} /\ Beside(m, k) \in Nat /\ Weighs(b, m, k) \in Nat
  BY SizesAssumption DEF Held, Beside, Weighs

(* What weighs no more is accounted for still.                               *)
LEMMA CoversOn ==
  ASSUME NEW R, \A c \in R : c.size \in Nat, NEW K, NEW b, NEW m, Covers(R, K, b, m),
         NEW L, NEW c, NEW n,
         \A k \in L : Weighs(c, n, k) > 0 => k \in K /\ Weighs(c, n, k) <= Weighs(b, m, k)
  PROVE  Covers(R, L, c, n)
<1> SUFFICES ASSUME NEW k \in L, Weighs(c, n, k) > 0
             PROVE  \E x \in R : x.key = k /\ Weighs(c, n, k) <= x.size
  BY DEF Covers
<1>1. k \in K /\ Weighs(c, n, k) <= Weighs(b, m, k)  OBVIOUS
<1>2. Weighs(b, m, k) \in Nat /\ Weighs(c, n, k) \in Nat  BY SizesNat
<1>3. Weighs(b, m, k) > 0  BY <1>1, <1>2
<1>4. PICK x \in R : x.key = k /\ Weighs(b, m, k) <= x.size  BY <1>1, <1>3 DEF Covers
<1>5. x.size \in Nat  OBVIOUS
<1> QED  BY <1>1, <1>2, <1>4, <1>5

(* A process that goes on as it was.                                         *)
LEMMA SweptOn ==
  ASSUME NEW b, NEW m, NEW c, NEW n, Shrink(b, m, c, n), NEW o, Swept(o, b, m)
  PROVE  Swept(o, c, n)
<1>0. \A k \in Keys : (c[k] = Absent <=> b[k] = Absent) /\ Held(c, k) <= Held(b, k)
  BY DEF Shrink
<1>m. n \subseteq m /\ m \subseteq Keys  BY DEF Shrink
<1>1. \A k \in Keys : /\ Beside(n, k) <= Beside(m, k)
                      /\ Held(c, k) + Beside(n, k) <= Held(b, k) + Beside(m, k)
                      /\ Weighs(c, n, k) <= Weighs(b, m, k)
  <2> TAKE k \in Keys
  <2>1. Beside(n, k) <= Beside(m, k)  BY <1>m, SizesAssumption DEF Beside
  <2>2. Held(c, k) \in Nat /\ Held(b, k) \in Nat /\ Beside(n, k) \in Nat /\ Beside(m, k) \in Nat
    BY SizesNat
  <2>3. Weighs(c, n, k) <= Weighs(b, m, k)  BY <1>0, <2>1, <2>2 DEF Weighs
  <2> QED  BY <1>0, <2>1, <2>2, <2>3
<1>2. ASSUME NEW F, NEW todo, Lists(F, todo, b, m) PROVE Lists(F, todo, c, n)
  <2>1. Counted(F) /\ OneEach(F)  BY <1>2 DEF Lists
  <2>2. ASSUME NEW k \in Keys, c[k] # Absent, <<k, "blob">> \notin todo
        PROVE  \E x \in F : x.key = k /\ Held(c, k) + Beside(n, k) <= x.size
    <3>1. PICK x \in F : x.key = k /\ Held(b, k) + Beside(m, k) <= x.size
      BY <1>0, <1>2, <2>2 DEF Lists
    <3>2. x.size \in Nat  BY <2>1 DEF Counted
    <3>3. /\ Held(c, k) \in Nat /\ Held(b, k) \in Nat /\ Beside(n, k) \in Nat /\ Beside(m, k) \in Nat
      BY SizesNat
    <3> QED  BY <1>1, <3>1, <3>2, <3>3
  <2>3. ASSUME NEW k \in n, c[k] = Absent, <<k, "manifest">> \notin todo
        PROVE  \E x \in F : x.key = k /\ ManifestSize <= x.size
    BY <1>0, <1>2, <1>m, <2>3 DEF Lists
  <2>4. ASSUME NEW x \in F
        PROVE  <<x.key, IF c[x.key] # Absent THEN "blob" ELSE "manifest">> \notin todo
    <3>1. x.key \in Keys  BY <2>1 DEF Counted
    <3> QED  BY <1>0, <1>2, <3>1 DEF Lists
  <2> QED  BY <2>1, <2>2, <2>3, <2>4 DEF Lists
<1>3. Listing(o, c, n)  BY <1>2 DEF Swept, Listing
<1>4. Remaining(o, c, n)
  <2> SUFFICES ASSUME o.pc \in {"remove"} \cup Removing, o.goal >= 0
               PROVE  \E R : Fits(R, o.goal) /\ Covers(R, Others(o.victims), c, n)
    BY DEF Remaining
  <2>1. PICK R : Fits(R, o.goal) /\ Covers(R, Others(o.victims), b, m)
    BY DEF Swept, Remaining
  <2>2. \A k \in Others(o.victims) : k \in Keys  BY DEF Others
  <2>3. Covers(R, Others(o.victims), c, n)  BY <1>1, <2>1, <2>2, CoversOn DEF Fits
  <2> QED  BY <2>1, <2>3
<1>5. Emptied(o, c)  BY <1>0 DEF Swept, Emptied
<1> QED  BY <1>3, <1>4, <1>5 DEF Swept

(* What the sums need of the types, and what holds of every sweep that has   *)
(* been alone so far.                                                        *)
DiskTyped == stamp \in [Entries -> Nat] /\ now \in Nat /\ manifest \subseteq Described

CalmInv == DiskTyped /\ calm \subseteq Procs /\ \A p \in calm : Swept(op[p], blob, manifest)

(* A process that neither lists nor removes, or that removes what it was     *)
(* told, has nothing to account for.                                         *)
LEMMA NotSweeping ==
  ASSUME NEW o, NEW b, NEW m,
         \/ o.pc \notin {"list", "kind", "remove"} \cup Removing
         \/ o.pc = "remove" /\ o.goal = -1
  PROVE  Swept(o, b, m)
  BY DEF Swept, Listing, Remaining, Emptied, Removing

(* A stamp set.                                                              *)
LEMMA Stamps ==
  ASSUME stamp \in [Entries -> Nat], NEW x, NEW n \in Nat, stamp' = [stamp EXCEPT ![x] = n]
  PROVE  stamp' \in [Entries -> Nat]
  OBVIOUS

(* A manifest taken, or a blob damaged.                                      *)
LEMMA ShrinkSame ==
  ASSUME IInv, CalmInv, NEW c, NEW n, n \subseteq manifest,
         \/ c = blob
         \/ \E k \in Keys : blob[k] # Absent /\ c = [blob EXCEPT ![k] = Rotten]
  PROVE  Shrink(blob, manifest, c, n)
<1>1. manifest \subseteq Keys  BY OffersAssumption DEF CalmInv, DiskTyped
<1>2. CASE c = blob
  <2>1. \A k \in Keys : Held(blob, k) \in Nat  BY SizesNat
  <2> QED  BY <1>1, <1>2, <2>1 DEF Shrink
<1>3. ASSUME NEW k \in Keys, blob[k] # Absent, c = [blob EXCEPT ![k] = Rotten]
      PROVE  Shrink(blob, manifest, c, n)
  <2>1. c[k] = Rotten /\ \A l \in Keys \ {k} : c[l] = blob[l]
    BY <1>3 DEF IInv, Typed
  <2>2. Held(c, k) = 1  BY <2>1, MarkersAssumption DEF Held
  <2>3. \A l \in Keys : Held(blob, l) \in Nat \ {0}  BY SizesNat
  <2>4. \A l \in Keys \ {k} : Held(c, l) = Held(blob, l)  BY <2>1 DEF Held
  <2>5. \A l \in Keys : Held(c, l) <= Held(blob, l)  BY <2>2, <2>3, <2>4
  <2> QED  BY <1>1, <1>3, <2>1, <2>5, MarkersAssumption DEF Shrink
<1> QED  BY <1>2, <1>3

(* A step beside which nothing grows.                                        *)
LEMMA CalmStep ==
  ASSUME IInv, CalmInv, NEW p \in Procs, NEW r, Shape(r), Become(p, r),
         Shrink(blob, manifest, blob', manifest'), DiskTyped', calm' \subseteq calm \cup {p},
         p \in calm' => Swept(r, blob', manifest')
  PROVE  CalmInv'
<1>1. op'[p] = r /\ \A q \in Procs \ {p} : op'[q] = op[q]
  BY OwnStep DEF IInv
<1>2. calm' \subseteq Procs  BY DEF CalmInv
<1>3. ASSUME NEW q \in calm' PROVE Swept(op'[q], blob', manifest')
  <2>1. CASE q = p  BY <1>1, <1>3, <2>1
  <2>2. CASE q # p
    <3>1. q \in calm /\ q \in Procs /\ op'[q] = op[q]  BY <1>1, <1>2, <2>2
    <3>2. Swept(op[q], blob, manifest)  BY <3>1 DEF CalmInv
    <3>3. Swept(op[q], blob', manifest')  BY <3>2, SweptOn
    <3> QED  BY <3>1, <3>3
  <2> QED  BY <2>1, <2>2
<1> QED  BY <1>2, <1>3 DEF CalmInv

(* A step that leaves blobs and manifests as they are.                       *)
LEMMA CalmQuiet ==
  ASSUME IInv, CalmInv, NEW p \in Procs, NEW r, Shape(r), Become(p, r),
         UNCHANGED <<blob, manifest, now>>, stamp' \in [Entries -> Nat],
         calm' \subseteq calm \cup {p}, p \in calm' => Swept(r, blob, manifest)
  PROVE  CalmInv'
<1>1. Shrink(blob, manifest, blob', manifest')  BY ShrinkSame
<1>2. DiskTyped'  BY DEF CalmInv, DiskTyped
<1> QED  BY <1>1, <1>2, CalmStep

(* A step that ends the calm of all.                                         *)
LEMMA CalmOver ==
  ASSUME DiskTyped', calm' = {}
  PROVE  CalmInv'
  BY DEF CalmInv

(* One lemma per kind of step: a put,                                        *)
LEMMA CalmPut ==
  ASSUME IInv, CalmInv, NEW p \in Procs, Put(p)
  PROVE  CalmInv'
<1>1. CASE \E o \in Offers : o[1] = p /\ Stage(p, o[2], o[3])
  <2>1. PICK k \in Keys, b \in Contents : Stage(p, k, b)  BY <1>1, OffersAssumption
  <2> DEFINE r == [pc |-> "staged", key |-> k, val |-> b]
  <2>2. Shape(r) /\ Become(p, r)  BY <2>1 DEF Stage, Shape, PutShape
  <2>3. Swept(r, blob, manifest)  BY NotSweeping DEF Removing
  <2>4. UNCHANGED <<blob, manifest, now, stamp, calm>>  BY <2>1 DEF Stage, disk, history
  <2> QED  BY <2>2, <2>3, <2>4, CalmQuiet DEF CalmInv, DiskTyped
<1>2. ASSUME Become(p, Idle), UNCHANGED <<blob, manifest, now, stamp, calm>> PROVE CalmInv'
  <2>1. Shape(Idle) /\ Swept(Idle, blob, manifest)
    BY NotSweeping DEF Shape, Idle, Removing
  <2> QED  BY <1>2, <2>1, CalmQuiet DEF CalmInv, DiskTyped
<1>3. CASE Abandon(p) \/ PutFails(p)
  BY <1>2, <1>3 DEF Abandon, PutFails, disk, history
<1>4. CASE BeginCommit(p)
  <2> DEFINE r == [pc |-> "decide", key |-> op[p].key, val |-> op[p].val]
  <2>1. Shape(r) /\ Become(p, r)
    BY <1>4, PutPhase DEF BeginCommit, At, IInv, Placing
  <2>2. Swept(r, blob, manifest)  BY NotSweeping DEF Removing
  <2>3. UNCHANGED <<blob, manifest, now, stamp, calm>>  BY <1>4 DEF BeginCommit, disk, history
  <2> QED  BY <2>1, <2>2, <2>3, CalmQuiet DEF CalmInv, DiskTyped
<1>5. CASE Decide(p)
  <2> DEFINE k == op[p].key
  <2>1. now \in Nat /\ stamp \in [Entries -> Nat] /\ UNCHANGED now
    BY <1>5 DEF CalmInv, DiskTyped, Decide
  <2>2. CASE Unlock(p) /\ Become(p, Idle) /\ UNCHANGED <<disk, history>>
    BY <1>2, <2>1, <2>2 DEF disk, history
  <2>3. CASE Accept(p, op[p].val) /\ UNCHANGED <<disk, owed, spare, calm>>
    BY <1>2, <2>1, <2>3 DEF disk, Accept
  <2>4. CASE Stamped(k, "blob") /\ calm' = {} /\ UNCHANGED <<meta, manifest, owed, spare>>
    <3>1. DiskTyped'  BY <2>1, <2>4, Stamps DEF Stamped, DiskTyped, CalmInv
    <3> QED  BY <2>4, <3>1, CalmOver
  <2>5. CASE GoTo(p, "place") /\ UNCHANGED <<disk, holder, history>>
    <3> DEFINE r == [pc |-> "place", key |-> op[p].key, val |-> op[p].val]
    <3>1. Shape(r) /\ Become(p, r)
      BY <1>5, <2>5, PutPhase DEF Decide, At, IInv, Placing
    <3>2. Swept(r, blob, manifest)  BY NotSweeping DEF Removing
    <3> QED  BY <2>1, <2>5, <3>1, <3>2, CalmQuiet DEF disk, history
  <2> QED  BY <1>5, <2>2, <2>3, <2>4, <2>5 DEF Decide
<1>6. CASE PlaceBlob(p)
  <2>1. DiskTyped'  BY <1>6, Stamps DEF PlaceBlob, Stamped, DiskTyped, CalmInv
  <2> QED  BY <1>6, <2>1, CalmOver DEF PlaceBlob
<1>7. CASE PlaceSidecar(p)
  BY <1>2, <1>7 DEF PlaceSidecar, Accept
<1>8. CASE \E k \in Described : BeginManifest(p, k)
  <2>1. PICK k \in Described : BeginManifest(p, k)  BY <1>8
  <2> DEFINE r == [pc |-> "manifest", key |-> k]
  <2>2. Shape(r) /\ Become(p, r)  BY <2>1 DEF Shape, ManifestShape, BeginManifest
  <2>3. Swept(r, blob, manifest)  BY NotSweeping DEF Removing
  <2>4. UNCHANGED <<blob, manifest, now, stamp, calm>>
    BY <2>1 DEF BeginManifest, disk, history
  <2> QED  BY <2>2, <2>3, <2>4, CalmQuiet DEF CalmInv, DiskTyped
<1>9. CASE WriteManifest(p)
  <2>1. op[p].key \in Described
    BY <1>9, Phases DEF WriteManifest, At, IInv, Typed, ManifestShape
  <2>2. DiskTyped'  BY <1>9, <2>1, Stamps DEF WriteManifest, Stamped, DiskTyped, CalmInv
  <2> QED  BY <1>9, <2>2, CalmOver DEF WriteManifest
<1> QED  BY <1>1, <1>3, <1>4, <1>5, <1>6, <1>7, <1>8, <1>9 DEF Put

(* a read,                                                                   *)
LEMMA CalmGet ==
  ASSUME IInv, CalmInv, NEW p \in Procs, Get(p)
  PROVE  CalmInv'
<1>0. now \in Nat /\ stamp \in [Entries -> Nat]  BY DEF CalmInv, DiskTyped
<1>1. ASSUME NEW k \in Keys, ReadSidecar(p, k) PROVE CalmInv'
  <2> DEFINE r == IF Serves(k) THEN [pc |-> "open", key |-> k, hash |-> meta[k]]
                               ELSE [pc |-> "read", key |-> k, got |-> Absent]
  <2>1. Shape(r) /\ Become(p, r)
    BY <1>1 DEF Shape, OpenShape, ReadShape, ReadSidecar, Serves
  <2>2. Swept(r, blob, manifest)
    <3>1. r.pc \notin {"list", "kind", "remove"} \cup Removing  BY DEF Removing
    <3> HIDE DEF r
    <3> QED  BY <3>1, NotSweeping
  <2> QED  BY <1>0, <1>1, <2>1, <2>2, CalmQuiet DEF ReadSidecar, disk
<1>2. CASE OpenBlob(p)
  <2> DEFINE k == op[p].key
             r == IF blob[k] = Absent
                  THEN [pc |-> "read", key |-> k, got |-> Absent]
                  ELSE [pc |-> "stream", key |-> k, hash |-> op[p].hash, got |-> blob[k]]
  <2>1. OpenShape(op[p]) /\ k \in Keys /\ op[p].hash \in Contents
    BY <1>2, Phases DEF IInv, Typed, OpenShape, OpenBlob, At
  <2>2. blob[k] \in States  BY <2>1 DEF IInv, Typed
  <2>3. Shape(r) /\ Become(p, r)
    BY <1>2, <2>1, <2>2 DEF Shape, StreamShape, ReadShape, OpenBlob, States
  <2>4. Swept(r, blob, manifest)
    <3>1. r.pc \notin {"list", "kind", "remove"} \cup Removing  BY DEF Removing
    <3> HIDE DEF r
    <3> QED  BY <3>1, NotSweeping
  <2>5. stamp' \in [Entries -> Nat]  BY <1>0, <1>2, Stamps DEF OpenBlob, Stamped
  <2> QED  BY <1>2, <2>3, <2>4, <2>5, CalmQuiet DEF OpenBlob, history
<1>3. CASE Stream(p)
  <2> DEFINE got == IF Verified(op[p].hash, op[p].got) THEN op[p].got ELSE Absent
             r == [pc |-> "read", key |-> op[p].key, got |-> got]
  <2>1. StreamShape(op[p])  BY <1>3, Phases DEF IInv, Typed, Stream, At
  <2>2. Shape(r) /\ Become(p, r)
    BY <1>3, <2>1 DEF Shape, StreamShape, ReadShape, Stream, Verified
  <2>3. Swept(r, blob, manifest)  BY NotSweeping DEF Removing
  <2> QED  BY <1>0, <1>3, <2>2, <2>3, CalmQuiet DEF Stream, disk, history
<1>4. CASE EndRead(p)
  <2>1. Shape(Idle) /\ Swept(Idle, blob, manifest)
    BY NotSweeping DEF Shape, Idle, Removing
  <2> QED  BY <1>0, <1>4, <2>1, CalmQuiet DEF EndRead, disk
<1> QED  BY <1>1, <1>2, <1>3, <1>4 DEF Get

(* a removal, by delete or by a sweep,                                       *)
LEMMA CalmRemoval ==
  ASSUME IInv, CalmInv, NEW p \in Procs, Removal(p)
  PROVE  CalmInv'
<1> DEFINE k == Head(op[p].victims)
           go(pc) == [pc |-> pc, victims |-> op[p].victims, goal |-> op[p].goal]
<1>0. /\ now \in Nat /\ stamp \in [Entries -> Nat] /\ manifest \subseteq Described
      /\ p \in calm => Swept(op[p], blob, manifest)
  BY DEF CalmInv, DiskTyped
<1>1. ASSUME op[p].pc \in {"remove"} \cup Removing, op[p].victims # <<>>
      PROVE  RemoveShape(op[p]) /\ op[p].victims \in Seq(Keys) /\ k \in Keys
  BY <1>1, Phases DEF IInv, Typed, RemoveShape
<1>2. ASSUME NEW pc \in {"unserve", "unlink"}, op[p].pc \in {"remove"} \cup Removing,
             p \in calm
      PROVE  Swept(go(pc), blob, manifest)
  BY <1>0, <1>2 DEF Swept, Listing, Remaining, Emptied, Removing
<1>3. CASE BeginRemove(p)
  <2>1. op[p].pc = "remove" /\ op[p].victims # <<>>  BY <1>3 DEF BeginRemove, At
  <2>2. Shape(go("unserve")) /\ Become(p, go("unserve"))
    BY <1>3, <2>1, RemovePhase DEF BeginRemove, IInv, Removing
  <2> QED  BY <1>0, <1>2, <1>3, <2>1, <2>2, CalmQuiet DEF BeginRemove, disk
<1>4. CASE RemoveSidecar(p)
  <2>1. op[p].pc = "unserve" /\ op[p].victims # <<>>
    BY <1>4, Phases DEF RemoveSidecar, At, IInv, Typed, RemoveShape, Removing
  <2>2. Shape(go("unlink")) /\ Become(p, go("unlink"))
    BY <1>4, <2>1, RemovePhase DEF RemoveSidecar, IInv, Removing
  <2>3. op[p].pc \in {"remove"} \cup Removing  BY <2>1 DEF Removing
  <2> QED  BY <1>0, <1>2, <1>4, <2>2, <2>3, CalmQuiet DEF RemoveSidecar, history
<1>5. CASE RemoveBlob(p)
  <2>1. op[p].pc = "unlink" /\ op[p].victims # <<>>
    BY <1>5, Phases DEF RemoveBlob, At, IInv, Typed, RemoveShape, Removing
  <2>2. Shape(go("unmanifest")) /\ Become(p, go("unmanifest"))
    BY <1>5, <2>1, RemovePhase DEF RemoveBlob, IInv, Removing
  <2>3. k \in Keys  BY <1>1, <2>1 DEF Removing
  <2>4. op'[p] = go("unmanifest")  BY <2>2, OwnStep DEF IInv
  <2>5. DiskTyped'  BY <1>0, <1>5, Stamps DEF RemoveBlob, DiskTyped
  <2>6. blob'[k] = Absent /\ \A l \in Keys \ {k} : blob'[l] = blob[l]
    BY <1>5, <2>3 DEF RemoveBlob, IInv, Typed
  <2>7. manifest' = manifest  BY <1>5 DEF RemoveBlob
  <2>8. ASSUME p \in calm PROVE Swept(go("unmanifest"), blob', manifest')
    <3> DEFINE o == go("unmanifest")
    <3>1. Emptied(o, blob')  BY <2>3, <2>6 DEF Emptied
    <3>2. Listing(o, blob', manifest')  BY DEF Listing
    <3>3. Remaining(o, blob', manifest')
      <4> SUFFICES ASSUME op[p].goal >= 0
                   PROVE  \E R : Fits(R, op[p].goal) /\ Covers(R, Others(op[p].victims), blob', manifest')
        BY DEF Remaining
      <4>1. PICK R : Fits(R, op[p].goal) /\ Covers(R, Others(op[p].victims), blob, manifest)
        BY <1>0, <2>1, <2>8 DEF Swept, Remaining, Removing
      <4>2. ASSUME NEW l \in Others(op[p].victims)
            PROVE  Weighs(blob', manifest', l) = Weighs(blob, manifest, l)
        <5>1. op[p].victims \in Seq(Keys)  BY <1>1, <2>1 DEF Removing
        <5>2. 1 \in DOMAIN op[p].victims /\ op[p].victims[1] = k  BY <2>1, <5>1
        <5>3. l \in Keys \ {k}  BY <5>2 DEF Others
        <5> QED  BY <2>6, <2>7, <5>3 DEF Weighs, Held, Beside
      <4>3. \A l \in Others(op[p].victims) : Weighs(blob, manifest, l) \in Nat  BY SizesNat
      <4>4. Covers(R, Others(op[p].victims), blob', manifest')
        BY <4>1, <4>2 DEF Covers
      <4> QED  BY <4>1, <4>4
    <3> QED  BY <3>1, <3>2, <3>3 DEF Swept
  <2>9. calm' \subseteq {p} /\ calm' \subseteq calm  BY <1>5 DEF RemoveBlob
  <2> HIDE DEF go
  <2> QED  BY <2>4, <2>5, <2>8, <2>9 DEF CalmInv
<1>6. CASE RemoveManifest(p)
  <2> DEFINE rest == Tail(op[p].victims)
             r == [pc |-> "remove", victims |-> rest, goal |-> op[p].goal]
  <2>1. op[p].pc = "unmanifest" /\ op[p].victims # <<>>
    BY <1>6, Phases DEF RemoveManifest, At, IInv, Typed, RemoveShape, Removing
  <2>2. op[p].victims \in Seq(Keys) /\ k \in Keys  BY <1>1, <2>1 DEF Removing
  <2>3. rest \in Seq(Keys)  BY <2>1, <2>2
  <2>4. Shape(r) /\ Become(p, r)  BY <1>6, <2>3 DEF Shape, RemoveShape, RemoveManifest, Removing
  <2>5. /\ manifest' = manifest \ {k} /\ UNCHANGED <<blob, now, calm>>
        /\ stamp' \in [Entries -> Nat]
    BY <1>0, <1>6, Stamps DEF RemoveManifest, ManifestRemoved, history
  <2>6. DiskTyped'  BY <1>0, <2>5 DEF DiskTyped
  <2>7. Shrink(blob, manifest, blob', manifest')  BY <2>5, ShrinkSame
  <2>8. ASSUME p \in calm PROVE Swept(r, blob', manifest')
    <3>1. blob[k] = Absent  BY <1>0, <2>1, <2>8 DEF Swept, Emptied
    <3>2. Weighs(blob', manifest', k) = 0  BY <2>5, <3>1 DEF Weighs, Beside
    <3>3. Remaining(r, blob', manifest')
      <4> SUFFICES ASSUME op[p].goal >= 0
                   PROVE  \E R : Fits(R, op[p].goal) /\ Covers(R, Others(rest), blob', manifest')
        BY DEF Remaining
      <4>1. PICK R : Fits(R, op[p].goal) /\ Covers(R, Others(op[p].victims), blob, manifest)
        BY <1>0, <2>1, <2>8 DEF Swept, Remaining, Removing
      <4>2. ASSUME NEW l \in Others(rest), l # k PROVE l \in Others(op[p].victims)
        <5>1. ASSUME NEW i \in DOMAIN op[p].victims, op[p].victims[i] = l PROVE FALSE
          <6>1. i # 1  BY <2>2, <4>2, <5>1
          <6>2. i - 1 \in DOMAIN rest /\ rest[i - 1] = op[p].victims[i]
            BY <2>1, <2>2, <6>1
          <6> QED  BY <4>2, <5>1, <6>2 DEF Others
        <5> QED  BY <4>2, <5>1 DEF Others
      <4>3. ASSUME NEW l \in Others(rest), Weighs(blob', manifest', l) > 0
            PROVE  /\ l \in Others(op[p].victims)
                   /\ Weighs(blob', manifest', l) <= Weighs(blob, manifest, l)
        <5>1. l # k  BY <3>2, <4>3
        <5>2. Weighs(blob', manifest', l) = Weighs(blob, manifest, l)
          BY <2>5, <5>1 DEF Weighs, Held, Beside
        <5>3. Weighs(blob, manifest, l) \in Nat  BY SizesNat
        <5> QED  BY <4>2, <4>3, <5>1, <5>2, <5>3
      <4>4. Covers(R, Others(rest), blob', manifest')  BY <4>1, <4>3, CoversOn DEF Fits
      <4> QED  BY <4>1, <4>4
    <3>4. Listing(r, blob', manifest') /\ Emptied(r, blob')  BY DEF Listing, Emptied
    <3> QED  BY <3>3, <3>4 DEF Swept
  <2> HIDE DEF r
  <2> QED  BY <2>4, <2>5, <2>6, <2>7, <2>8, CalmStep
<1>7. CASE RemovalFails(p)
  <2>1. DiskTyped'  BY <1>0, <1>7 DEF RemovalFails, disk, DiskTyped
  <2> QED  BY <1>7, <2>1, CalmOver DEF RemovalFails
<1>8. CASE EndRemove(p)
  <2>1. Shape(Idle) /\ Swept(Idle, blob, manifest)
    BY NotSweeping DEF Shape, Idle, Removing
  <2> QED  BY <1>0, <1>8, <2>1, CalmQuiet DEF EndRemove, disk
<1> QED  BY <1>3, <1>4, <1>5, <1>6, <1>7, <1>8 DEF Removal

(* time, kills, deletes asked for, manifests read and damage;                *)
LEMMA CalmAround ==
  ASSUME IInv, CalmInv,
         \/ Tick
         \/ \E p \in Procs : Kill(p)
         \/ \E p \in Procs, k \in Keys : Delete(p, k)
         \/ \E k \in Keys : GetManifest(k) \/ Damage(k)
         \/ UNCHANGED vars
  PROVE  CalmInv'
<1>0. /\ now \in Nat /\ stamp \in [Entries -> Nat] /\ manifest \subseteq Described
      /\ calm \subseteq Procs /\ \A p \in calm : Swept(op[p], blob, manifest)
  BY DEF CalmInv, DiskTyped
<1>1. ASSUME UNCHANGED <<op, manifest, calm>>, now' \in Nat, stamp' \in [Entries -> Nat],
             Shrink(blob, manifest, blob', manifest')
      PROVE  CalmInv'
  <2>1. DiskTyped'  BY <1>0, <1>1 DEF DiskTyped
  <2>2. ASSUME NEW p \in calm' PROVE Swept(op'[p], blob', manifest')
    <3>1. Swept(op[p], blob, manifest) /\ op'[p] = op[p]  BY <1>0, <1>1, <2>2
    <3>2. Swept(op[p], blob', manifest')  BY <1>1, <3>1, SweptOn
    <3> QED  BY <3>1, <3>2
  <2> QED  BY <1>0, <1>1, <2>1, <2>2 DEF CalmInv
<1>2. Shrink(blob, manifest, blob, manifest)  BY ShrinkSame
<1>3. CASE Tick \/ UNCHANGED vars
  <2>1. UNCHANGED <<op, manifest, blob, stamp, calm>> /\ now' \in Nat
    BY <1>0, <1>3 DEF Tick, vars, disk, history
  <2> QED  BY <1>0, <1>1, <1>2, <2>1
<1>4. ASSUME NEW k \in Keys, GetManifest(k) PROVE CalmInv'
  <2>1. UNCHANGED <<op, manifest, blob, now, calm>> /\ stamp' \in [Entries -> Nat]
    BY <1>0, <1>4, Stamps DEF GetManifest, Stamped, history
  <2> QED  BY <1>0, <1>1, <1>2, <2>1
<1>5. ASSUME NEW k \in Keys, Damage(k) PROVE CalmInv'
  <2>1. /\ UNCHANGED <<op, manifest, now, stamp, calm>>
        /\ blob' = blob \/ (blob[k] # Absent /\ blob' = [blob EXCEPT ![k] = Rotten])
    BY <1>5 DEF Damage
  <2>2. Shrink(blob, manifest, blob', manifest')  BY <2>1, ShrinkSame
  <2> QED  BY <1>0, <1>1, <2>1, <2>2
<1>6. ASSUME NEW p \in Procs, Kill(p) PROVE CalmInv'
  <2>1. Shape(Idle) /\ Swept(Idle, blob, manifest)
    BY NotSweeping DEF Shape, Idle, Removing
  <2> QED  BY <1>0, <1>6, <2>1, CalmQuiet DEF Kill, disk
<1>7. ASSUME NEW p \in Procs, NEW k \in Keys, Delete(p, k) PROVE CalmInv'
  <2> DEFINE r == [pc |-> "remove", victims |-> <<k>>, goal |-> -1]
  <2>1. Shape(r) /\ Become(p, r)  BY <1>7 DEF Shape, RemoveShape, Delete, Removing
  <2>2. Swept(r, blob, manifest)  BY NotSweeping
  <2> QED  BY <1>0, <1>7, <2>1, <2>2, CalmQuiet DEF Delete, disk, history
<1> QED  BY <1>3, <1>4, <1>5, <1>6, <1>7

(* A candidate more, of a key not met before: it accounts for its key.       *)
LEMMA ListsMore ==
  ASSUME IInv, CalmInv, NEW F, NEW todo, Lists(F, todo, blob, manifest),
         NEW k \in Keys, NEW f \in {"blob", "manifest"}, <<k, f>> \in todo,
         NEW c, c.key = k, c.last \in Nat,
         \/ f = "blob" /\ blob[k] # Absent /\ c.size = Sized(k)
         \/ f = "manifest" /\ blob[k] = Absent /\ c.size = ManifestSize
  PROVE  /\ Lists(F \cup {c}, todo \ {<<k, f>>}, blob, manifest)
         /\ \A d \in F : d.key # k
<1> DEFINE G == F \cup {c}
           rest == todo \ {<<k, f>>}
<1>1. /\ Counted(F) /\ OneEach(F)
      /\ \A d \in F : <<d.key, IF blob[d.key] # Absent THEN "blob" ELSE "manifest">> \notin todo
  BY DEF Lists
<1>2. f = IF blob[k] # Absent THEN "blob" ELSE "manifest"  OBVIOUS
<1>3. \A d \in F : d.key # k  BY <1>1, <1>2
<1>4. Sized(k) = Held(blob, k) + Beside(manifest, k)  BY DEF Sized, BlobSize, Held, Beside
<1>5. Held(blob, k) \in Nat /\ Beside(manifest, k) \in Nat /\ ManifestSize \in Nat
  BY SizesNat, SizesAssumption
<1>6. c.size \in Nat  BY <1>4, <1>5
<1>7. Counted(G) /\ OneEach(G)  BY <1>1, <1>3, <1>6 DEF Counted, OneEach
<1>8. ASSUME NEW l \in Keys, blob[l] # Absent, <<l, "blob">> \notin rest
      PROVE  \E d \in G : d.key = l /\ Held(blob, l) + Beside(manifest, l) <= d.size
  <2>1. CASE <<l, "blob">> = <<k, f>>
    <3>1. l = k /\ c.size = Held(blob, l) + Beside(manifest, l)  BY <1>4, <1>8, <2>1
    <3> QED  BY <1>5, <3>1
  <2>2. CASE <<l, "blob">> # <<k, f>>
    BY <1>8, <2>2 DEF Lists
  <2> QED  BY <2>1, <2>2
<1>9. ASSUME NEW l \in manifest, blob[l] = Absent, <<l, "manifest">> \notin rest
      PROVE  \E d \in G : d.key = l /\ ManifestSize <= d.size
  <2>1. CASE <<l, "manifest">> = <<k, f>>
    <3>1. l = k /\ c.size = ManifestSize  BY <1>9, <2>1
    <3> QED  BY <1>5, <3>1
  <2>2. CASE <<l, "manifest">> # <<k, f>>
    BY <1>9, <2>2 DEF Lists
  <2> QED  BY <2>1, <2>2
<1>10. \A d \in G : <<d.key, IF blob[d.key] # Absent THEN "blob" ELSE "manifest">> \notin rest
  BY <1>1, <1>2
<1> QED  BY <1>3, <1>7, <1>8, <1>9, <1>10 DEF Lists

(* An entry that is gone, or a manifest beside a blob, is no candidate.      *)
LEMMA ListsRest ==
  ASSUME NEW F, NEW todo, Lists(F, todo, blob, manifest), NEW k, NEW f,
         f = "blob" => blob[k] = Absent,
         f = "manifest" => k \notin manifest \/ blob[k] # Absent
  PROVE  Lists(F, todo \ {<<k, f>>}, blob, manifest)
<1> DEFINE rest == todo \ {<<k, f>>}
<1>1. \A l : /\ blob[l] # Absent /\ <<l, "blob">> \notin rest => <<l, "blob">> \notin todo
             /\ l \in manifest /\ blob[l] = Absent /\ <<l, "manifest">> \notin rest
                  => <<l, "manifest">> \notin todo
  OBVIOUS
<1> QED  BY <1>1 DEF Lists

(* The kind of a candidate is told later, and changes nothing of it that     *)
(* counts.                                                                   *)
LEMMA ListsKind ==
  ASSUME NEW F, NEW c, NEW d, NEW todo, Lists(F \cup {c}, todo, blob, manifest),
         \A e \in F : e.key # c.key,
         d.key = c.key, d.size = c.size, d.last = c.last
  PROVE  Lists(F \cup {d}, todo, blob, manifest)
<1>1. Counted(F \cup {d}) /\ OneEach(F \cup {d})  BY DEF Lists, Counted, OneEach
<1>2. \A e \in F \cup {c} : \E g \in F \cup {d} : g.key = e.key /\ g.size = e.size  OBVIOUS
<1>3. ASSUME NEW k \in Keys, blob[k] # Absent, <<k, "blob">> \notin todo
      PROVE  \E g \in F \cup {d} : g.key = k /\ Held(blob, k) + Beside(manifest, k) <= g.size
  <2>1. PICK e \in F \cup {c} : e.key = k /\ Held(blob, k) + Beside(manifest, k) <= e.size
    BY <1>3 DEF Lists
  <2>2. PICK g \in F \cup {d} : g.key = e.key /\ g.size = e.size  BY <1>2
  <2> QED  BY <2>1, <2>2
<1>4. ASSUME NEW k \in manifest, blob[k] = Absent, <<k, "manifest">> \notin todo
      PROVE  \E g \in F \cup {d} : g.key = k /\ ManifestSize <= g.size
  <2>1. PICK e \in F \cup {c} : e.key = k /\ ManifestSize <= e.size  BY <1>4 DEF Lists
  <2>2. PICK g \in F \cup {d} : g.key = e.key /\ g.size = e.size  BY <1>2
  <2> QED  BY <2>1, <2>2
<1>5. \A e \in F \cup {d} : <<e.key, IF blob[e.key] # Absent THEN "blob" ELSE "manifest">> \notin todo
  BY DEF Lists
<1> QED  BY <1>1, <1>3, <1>4, <1>5 DEF Lists

(* the listing of an entry,                                                  *)
LEMMA CalmList ==
  ASSUME IInv, CalmInv, NEW p \in Procs, NEW k \in Keys, NEW f \in {"blob", "manifest"}, List(p, k, f)
  PROVE  CalmInv'
<1> DEFINE todo == op[p].todo \ {<<k, f>>}
           sized == Candidate(k, Sized(k), stamp[<<k, f>>], "unknown")
           alone == Candidate(k, ManifestSize, stamp[<<k, f>>], "manifest")
           rest == [pc |-> "list", todo |-> todo, found |-> op[p].found]
           kind == [pc |-> "kind", todo |-> todo, found |-> op[p].found, cand |-> sized]
           more == [pc |-> "list", todo |-> todo, found |-> op[p].found \cup {alone}]
<1>0. /\ now \in Nat /\ stamp \in [Entries -> Nat] /\ manifest \subseteq Described
      /\ p \in calm => Swept(op[p], blob, manifest)
  BY DEF CalmInv, DiskTyped
<1>1. /\ ListShape(op[p]) /\ op[p].pc = "list" /\ <<k, f>> \in op[p].todo
      /\ UNCHANGED <<blob, manifest, now, stamp, calm>>
  BY Phases DEF IInv, Typed, List, At, disk, history
<1>2. [op[p] EXCEPT !.todo = @ \ {<<k, f>>}] = rest
  BY <1>1 DEF ListShape
<1>3. [rest EXCEPT !.found = @ \cup {alone}] = more
  OBVIOUS
<1>4. \/ f = "blob" /\ blob[k] # Absent /\ Become(p, kind)
      \/ f = "manifest" /\ k \in manifest /\ blob[k] = Absent /\ Become(p, more)
      \/ /\ f = "blob" => blob[k] = Absent
         /\ f = "manifest" => k \notin manifest \/ blob[k] # Absent
         /\ Become(p, rest)
  BY <1>2, <1>3 DEF List
<1>5. IsFiniteSet(op[p].found) /\ \A c \in op[p].found : c.key \in Keys  BY <1>1 DEF ListShape
<1>6. p \in calm => Lists(op[p].found, op[p].todo, blob, manifest)
  BY <1>0, <1>1 DEF Swept, Listing
<1>7. CASE f = "blob" /\ blob[k] # Absent /\ Become(p, kind)
  <2>1. Shape(kind)  BY <1>5 DEF Shape, KindShape, Candidate
  <2>2. sized.key = k /\ sized.size = Sized(k) /\ sized.last = stamp[<<k, f>>]  BY DEF Candidate
  <2>3. stamp[<<k, f>>] \in Nat  BY <1>0, <1>7 DEF Entries
  <2> HIDE DEF sized, todo
  <2>4. ASSUME p \in calm PROVE Swept(kind, blob, manifest)
    <3>1. /\ sized.key = k /\ sized.last \in Nat
          /\ f = "blob" /\ blob[k] # Absent /\ sized.size = Sized(k)
          /\ <<k, f>> \in op[p].todo /\ Lists(op[p].found, op[p].todo, blob, manifest)
      BY <1>1, <1>6, <1>7, <2>2, <2>3, <2>4
    <3>2. /\ Lists(op[p].found \cup {sized}, op[p].todo \ {<<k, f>>}, blob, manifest)
          /\ \A d \in op[p].found : d.key # k
      BY <3>1, ListsMore
    <3> QED  BY <2>2, <3>2 DEF todo, Swept, Listing, Remaining, Emptied, Removing
  <2> HIDE DEF kind
  <2> QED  BY <1>0, <1>1, <1>7, <2>1, <2>4, CalmQuiet
<1>8. CASE f = "manifest" /\ k \in manifest /\ blob[k] = Absent /\ Become(p, more)
  <2>1. IsFiniteSet(op[p].found \cup {alone})  BY <1>5, FS_AddElement
  <2>2. Shape(more)  BY <1>5, <2>1 DEF Shape, ListShape, Candidate
  <2>3. alone.key = k /\ alone.size = ManifestSize /\ alone.last = stamp[<<k, f>>]
    BY DEF Candidate
  <2>4. stamp[<<k, f>>] \in Nat  BY <1>0, <1>8 DEF Entries
  <2> HIDE DEF alone, todo
  <2>5. ASSUME p \in calm PROVE Swept(more, blob, manifest)
    <3>1. /\ alone.key = k /\ alone.last \in Nat
          /\ f = "manifest" /\ blob[k] = Absent /\ alone.size = ManifestSize
          /\ <<k, f>> \in op[p].todo /\ Lists(op[p].found, op[p].todo, blob, manifest)
      BY <1>1, <1>6, <1>8, <2>3, <2>4, <2>5
    <3>2. Lists(op[p].found \cup {alone}, op[p].todo \ {<<k, f>>}, blob, manifest)
      BY <3>1, ListsMore
    <3> QED  BY <3>2 DEF todo, Swept, Listing, Remaining, Emptied, Removing
  <2> HIDE DEF more
  <2> QED  BY <1>0, <1>1, <1>8, <2>2, <2>5, CalmQuiet
<1>9. CASE /\ f = "blob" => blob[k] = Absent
           /\ f = "manifest" => k \notin manifest \/ blob[k] # Absent
           /\ Become(p, rest)
  <2>1. Shape(rest)  BY <1>5 DEF Shape, ListShape
  <2>2. ASSUME p \in calm PROVE Swept(rest, blob, manifest)
    <3>1. Lists(op[p].found, todo, blob, manifest)  BY <1>6, <1>9, <2>2, ListsRest
    <3> HIDE DEF todo
    <3> QED  BY <3>1 DEF Swept, Listing, Remaining, Emptied, Removing
  <2> HIDE DEF rest
  <2> QED  BY <1>0, <1>1, <1>9, <2>1, <2>2, CalmQuiet
<1> QED  BY <1>4, <1>7, <1>8, <1>9

(* the kind of a candidate,                                                  *)
LEMMA CalmListKind ==
  ASSUME IInv, CalmInv, NEW p \in Procs, ListKind(p)
  PROVE  CalmInv'
<1> DEFINE cand == [op[p].cand EXCEPT !.kind = Kind(op[p].cand.key)]
           r == [pc |-> "list", todo |-> op[p].todo, found |-> op[p].found \cup {cand}]
<1>0. /\ now \in Nat /\ stamp \in [Entries -> Nat]
      /\ p \in calm => Swept(op[p], blob, manifest)
  BY DEF CalmInv, DiskTyped
<1>1. /\ KindShape(op[p]) /\ op[p].pc = "kind" /\ Become(p, r)
      /\ UNCHANGED <<blob, manifest, now, stamp, calm>>
  BY Phases DEF IInv, Typed, ListKind, At, disk, history
<1>2. /\ cand.key = op[p].cand.key /\ cand.size = op[p].cand.size /\ cand.last = op[p].cand.last
      /\ op[p].cand.key \in Keys
  BY <1>1 DEF KindShape, Candidate
<1> HIDE DEF cand
<1>3. Shape(r)  BY <1>1, <1>2, FS_AddElement DEF Shape, ListShape, KindShape
<1>4. ASSUME p \in calm PROVE Swept(r, blob, manifest)
  <2>1. /\ Lists(op[p].found \cup {op[p].cand}, op[p].todo, blob, manifest)
        /\ \A c \in op[p].found : c.key # op[p].cand.key
    BY <1>0, <1>1, <1>4 DEF Swept, Listing
  <2>2. Lists(op[p].found \cup {cand}, op[p].todo, blob, manifest)
    BY <1>2, <2>1, ListsKind
  <2> QED  BY <2>2 DEF Swept, Listing, Remaining, Emptied, Removing
<1> HIDE DEF r
<1> QED  BY <1>0, <1>1, <1>3, <1>4, CalmQuiet

(* a sweep begun.                                                            *)
LEMMA CalmBegin ==
  ASSUME IInv, CalmInv, NEW p \in Procs, BeginSweep(p)
  PROVE  CalmInv'
<1> DEFINE r == [pc |-> "list", todo |-> Entries, found |-> {}]
<1>1. Shape(r) /\ Become(p, r)
  BY FS_EmptySet DEF Shape, ListShape, BeginSweep
<1>2. manifest \subseteq Described  BY DEF CalmInv, DiskTyped
<1>3. Lists({}, Entries, blob, manifest)
  BY <1>2 DEF Lists, Counted, OneEach, Entries
<1>4. Swept(r, blob, manifest)
  BY <1>3 DEF Swept, Listing, Remaining, Emptied, Removing
<1>5. UNCHANGED <<blob, manifest, now, stamp>> /\ calm' = calm \cup {p}
  BY DEF BeginSweep, disk
<1> HIDE DEF r
<1> QED  BY <1>1, <1>4, <1>5, CalmQuiet DEF CalmInv, DiskTyped

(* The plan leaves what fits its goal.                                       *)
LEMMA CalmPlan ==
  ASSUME IInv, CalmInv, NEW p \in Procs, NEW policy \in Policies, Plan(p, policy)
  PROVE  CalmInv'
<1> DEFINE found == op[p].found
           done == policy.dry \/ (policy.budget /\ Bytes(found) <= policy.max)
           goal == Goal(found, policy)
<1>0. /\ now \in Nat /\ stamp \in [Entries -> Nat] /\ manifest \subseteq Described
      /\ p \in calm => Swept(op[p], blob, manifest)
  BY DEF CalmInv, DiskTyped
<1>1. ListShape(op[p]) /\ op[p].pc = "list" /\ op[p].todo = {}
  BY Phases DEF IInv, Typed, Plan, At
<1>2. /\ UNCHANGED <<blob, manifest, now, stamp>> /\ calm' \subseteq calm
  BY DEF Plan
<1>3. CASE done
  <2>1. Become(p, Idle)  BY <1>3 DEF Plan
  <2>2. Shape(Idle) /\ Swept(Idle, blob, manifest)
    BY NotSweeping DEF Shape, Idle, Removing
  <2> QED  BY <1>0, <1>2, <2>1, <2>2, CalmQuiet
<1>4. CASE ~done
  <2>1. PICK victims \in Victims(found, policy) :
          Become(p, [pc |-> "remove", victims |-> [i \in DOMAIN victims |-> victims[i].key],
                     goal |-> Goal(found, policy)])
    BY <1>4 DEF Plan
  <2> DEFINE keys == [i \in DOMAIN victims |-> victims[i].key]
             r == [pc |-> "remove", victims |-> keys, goal |-> goal]
             taken == AgeVictims(found, policy) \cup SizeVictims(found, policy)
             R == found \ taken
  <2>2. IsFiniteSet(found) /\ \A c \in found : c.key \in Keys  BY <1>1 DEF ListShape
  <2>3. victims \in Seq(found)  BY <2>2, VictimsFound
  <2>4. keys \in Seq(Keys)  BY <2>2, <2>3
  <2>5. Shape(r)  BY <2>4 DEF Shape, RemoveShape, Removing
  <2>6. ASSUME p \in calm, goal >= 0
        PROVE  Fits(R, goal) /\ Covers(R, Others(keys), blob, manifest)
    <3>1. Lists(found, {}, blob, manifest)  BY <1>0, <1>1, <2>6 DEF Swept, Listing
    <3>2. Counted(found) /\ OneEach(found)  BY <3>1 DEF Lists
    <3>3. policy.max >= 0  BY <2>6, PoliciesAssumption DEF Goal
    <3>4. Bytes(R) <= goal  BY <2>2, <3>2, <3>3, PlanFits
    <3>5. IsFiniteSet(R) /\ \A c \in R : c.size \in Nat  BY <2>2, <3>2, FS_Subset DEF Counted
    <3>6. policy.max \in Int /\ ~(policy.max < 0)  BY <3>3, PoliciesAssumption
    <3>7. goal \in Int
      <4> DEFINE spared == {c \in found : Exempt(c, policy)}
      <4>1. IsFiniteSet(spared) /\ \A c \in spared : c.size \in Nat
        BY <2>2, <3>2, FS_Subset DEF Counted
      <4>2. Bytes(spared) \in Nat  BY <4>1, BytesTake
      <4>3. Target(policy) \in Int  BY TargetInt
      <4> HIDE DEF spared
      <4>4. goal = IF Bytes(spared) > Target(policy) THEN Bytes(spared) ELSE Target(policy)
        BY <3>3, <3>6 DEF Goal, spared
      <4> QED  BY <4>2, <4>3, <4>4
    <3>8. ASSUME NEW k \in Others(keys), Weighs(blob, manifest, k) > 0
          PROVE  \E c \in R : c.key = k /\ Weighs(blob, manifest, k) <= c.size
      <4>1. k \in Keys  BY DEF Others
      <4>2. \E c \in found : c.key = k /\ Weighs(blob, manifest, k) <= c.size
        <5>1. CASE blob[k] # Absent
          <6>1. Weighs(blob, manifest, k) = Held(blob, k) + Beside(manifest, k)
            BY <5>1 DEF Weighs
          <6> QED  BY <3>1, <4>1, <5>1, <6>1 DEF Lists
        <5>2. CASE blob[k] = Absent
          <6>1. Weighs(blob, manifest, k) = Beside(manifest, k)
            <7>1. Beside(manifest, k) \in Nat  BY SizesNat
            <7> QED  BY <5>2, <7>1 DEF Weighs
          <6>2. k \in manifest /\ Weighs(blob, manifest, k) = ManifestSize
            BY <3>8, <6>1 DEF Beside
          <6> QED  BY <3>1, <5>2, <6>2 DEF Lists
        <5> QED  BY <5>1, <5>2
      <4>3. PICK c \in found : c.key = k /\ Weighs(blob, manifest, k) <= c.size  BY <4>2
      <4>4. c \notin taken
        <5> SUFFICES ASSUME c \in taken PROVE FALSE  OBVIOUS
        <5>1. PICK i \in DOMAIN victims : victims[i] = c  BY <2>2, VictimsAll
        <5>2. i \in DOMAIN keys /\ keys[i] = k  BY <4>3, <5>1
        <5> QED  BY <3>8, <5>2 DEF Others
      <4> QED  BY <4>3, <4>4
    <3> QED  BY <3>4, <3>5, <3>7, <3>8 DEF Fits, Covers
  <2> HIDE DEF keys, R, goal
  <2>7. ASSUME p \in calm PROVE Swept(r, blob, manifest)
    BY <2>6, <2>7 DEF Swept, Listing, Remaining, Emptied
  <2>8. Become(p, r)  BY <2>1 DEF keys, goal
  <2> HIDE DEF r
  <2> QED  BY <1>0, <1>2, <2>5, <2>7, <2>8, CalmQuiet
<1> QED  BY <1>3, <1>4

LEMMA CalmInit == Init => CalmInv
  BY DEF Init, CalmInv, DiskTyped

(* The sums hold in every state.                                             *)
LEMMA CalmNext ==
  ASSUME IInv, CalmInv, [Next]_vars
  PROVE  CalmInv'
<1>1. \A p \in Procs : Put(p) \/ Get(p) \/ Removal(p) => CalmInv'
  BY CalmPut, CalmGet, CalmRemoval
<1>2. \A p \in Procs : Sweep(p) => CalmInv'
  BY CalmBegin, CalmList, CalmListKind, CalmPlan DEF Sweep
<1>3. Putters \cup Getters \cup Deleters \cup Sweepers \subseteq Procs  BY DEF Procs
<1> QED  BY <1>1, <1>2, <1>3, CalmAround DEF Next

(* A sweep beside which nobody wrote, or took a blob, leaves no more on disk *)
(* than its target, or than what it may not take (enumerate, plan_eviction,  *)
(* apply_eviction).                                                          *)
THEOREM SweepReachesTargetCorrect == Spec => []SweepReachesTarget
<1>1. IInv /\ CalmInv => SweepReachesTarget
  <2> SUFFICES ASSUME IInv, CalmInv, NEW p \in calm, op[p].pc = "remove",
                      op[p].victims = <<>>, op[p].goal >= 0
               PROVE  OnDisk <= op[p].goal
    BY DEF SweepReachesTarget, At
  <2>1. PICK R : Fits(R, op[p].goal) /\ Covers(R, Others(op[p].victims), blob, manifest)
    BY DEF CalmInv, Swept, Remaining
  <2>2. Others(op[p].victims) = Keys  BY DEF Others
  <2>3. IsFiniteSet(R) /\ (\A c \in R : c.size \in Nat) /\ Bytes(R) <= op[p].goal
    BY <2>1 DEF Fits
  <2>4. Stands(Keys) <= Bytes(R)  BY <2>1, <2>2, <2>3, KeysAssumption, Covered
  <2>5. manifest \cap Keys = manifest  BY OffersAssumption DEF CalmInv, DiskTyped
  <2>6. Stands(Keys) = OnDisk  BY <2>5 DEF Stands, OnDisk, BlobBytes, Blobs
  <2>7. Stands(Keys) \in Nat /\ Bytes(R) \in Nat
    <3>1. Bytes(R) \in Nat  BY <2>3, BytesTake
    <3>2. CASE Keys = {}  BY <3>1, <3>2, StandsNone
    <3>3. ASSUME NEW k \in Keys PROVE Stands(Keys) \in Nat
      BY KeysAssumption, StandsTake
    <3> QED  BY <3>1, <3>2, <3>3
  <2>8. op[p].goal \in Int  BY <2>1 DEF Fits
  <2> QED  BY <2>3, <2>4, <2>6, <2>7, <2>8
<1>2. Init => IInv /\ CalmInv  BY StoreInit, CalmInit
<1>3. IInv /\ CalmInv /\ [Next]_vars => IInv' /\ CalmInv'
  BY StoreNext, CalmNext
<1> QED  BY <1>1, <1>2, <1>3, PTL DEF Spec
=============================================================================
