--------------------------- MODULE ArtifactStore ---------------------------
(***************************************************************************)
(* The artifact store on disk (cook-cache/src/backend.rs) as the processes *)
(* that share it see it: builds and a server put, read and delete, `cook   *)
(* cache gc` and the end-of-run budget check sweep (cook-cli/src/          *)
(* cache_gc.rs, cache_budget.rs, cook-contracts/src/evict/mod.rs).  A key  *)
(* holds a blob, the sidecar a reader goes by, and perhaps a determinant   *)
(* manifest.  Every step below is one file operation, or several that the  *)
(* shard's lock makes one to everybody who takes it; readers and listings  *)
(* take none.  A process may be killed at any step; the kernel then drops  *)
(* its lock.                                                               *)
(***************************************************************************)
EXTENDS Integers, Sequences, FiniteSets, SequencesExt, FiniteSetsExt, Functions

CONSTANTS
  Putters, Getters, Deleters, Sweepers, \* the processes, by what they do (they may do all)
  Keys,
  Contents,      \* what a put may bring; a hash names one of them
  Offers,        \* <<putter, key, content>> the puts there are
  Described,     \* keys manifests are written for
  Absent, Rotten,\* no file; a file damaged since it was written
  ShardOf,       \* key -> its shard directory, which holds the lock
  KindOf,        \* key -> "file", "route" (exempt kinds) or "observation"
  RankOf,        \* key -> its place in the order of keys
  SizeOf,        \* content -> bytes
  ManifestSize,
  Policies,      \* the policies sweeps are run with
  MaxEvents      \* ticks and damages of a behaviour, together (bound)

ASSUME KeysAssumption == IsFiniteSet(Keys)
ASSUME SizesAssumption == ManifestSize \in Nat /\ \A b \in Contents : SizeOf[b] \in Nat \ {0}
ASSUME RanksAssumption ==
  /\ \A k \in Keys : RankOf[k] \in Int
  /\ \A k, l \in Keys : RankOf[k] = RankOf[l] => k = l
ASSUME PoliciesAssumption ==
  \A policy \in Policies :
    /\ policy.max \in Int /\ policy.older \in Int
    /\ policy.low[1] \in Nat /\ policy.low[2] \in Nat \ {0}
ASSUME MarkersAssumption ==
  /\ Absent # Rotten /\ {Absent, Rotten} \cap Contents = {}
  /\ Absent \notin Putters \cup Getters \cup Deleters \cup Sweepers
ASSUME OffersAssumption ==
  /\ Offers \subseteq Putters \X Keys \X Contents /\ Described \subseteq Keys
  /\ ShardOf \in [Keys -> Range(ShardOf)]

NoMan == Absent  \* who holds a lock nobody holds
None == Absent

VARIABLES
  blob, meta,    \* key -> content (its hash), Rotten or Absent
  manifest,      \* the keys with a manifest
  stamp,         \* <<key, "blob" or "manifest">> -> mtime, in coarse time
  holder,        \* shard -> process
  op,            \* process -> the operation it is in
  now, damage,
  standing,      \* key -> the content an accepted put left there (history)
  owed,          \* reader -> what it must not miss (history)
  spare,         \* sweep -> routes it must not take (history)
  calm           \* sweeps beside which nobody wrote or took a blob (history)

disk == <<blob, meta, manifest, stamp>>
history == <<standing, owed, spare, calm>>
vars == <<disk, holder, op, now, damage, history>>

Procs == Putters \cup Getters \cup Deleters \cup Sweepers
Entries == (Keys \X {"blob"}) \cup (Described \X {"manifest"})
At(p, pc) == op[p].pc = pc
Idle == [pc |-> "idle"]
Become(p, r) == op' = [op EXCEPT ![p] = r]
GoTo(p, pc) == op' = [op EXCEPT ![p].pc = pc]

Init ==
  /\ blob = [k \in Keys |-> Absent] /\ meta = [k \in Keys |-> Absent]
  /\ manifest = {}
  /\ stamp = [f \in Entries |-> 0]
  /\ holder = [s \in Range(ShardOf) |-> NoMan]
  /\ op = [p \in Procs |-> Idle]
  /\ now = 1 /\ damage = 0
  /\ standing = [k \in Keys |-> None] /\ owed = [p \in Procs |-> None]
  /\ spare = [p \in Procs |-> {}] /\ calm = {}

(* touch_on_read, and the mtime a rename brings along.                     *)
Stamped(k, f) == stamp' = [stamp EXCEPT ![<<k, f>>] = now]

(* What a removal or a damage ends: nothing is owed of the key any more.   *)
Forget(k) ==
  /\ standing' = [standing EXCEPT ![k] = None]
  /\ owed' = [q \in Procs |-> IF ~At(q, "idle") /\ "key" \in DOMAIN op[q] /\ op[q].key = k
                              THEN None ELSE owed[q]]
  /\ spare' = [q \in Procs |-> spare[q] \ {k}]

----------------------------------------------------------------------------
(* The lock.  Variant: nobody waits.                                       *)
LockFree(k) == TRUE

Lock(k) == holder[ShardOf[k]] = NoMan

TakeLock(p, k) == Lock(k) /\ holder' = [holder EXCEPT ![ShardOf[k]] = p]
Unlock(p) == holder' = [s \in DOMAIN holder |-> IF holder[s] = p THEN NoMan ELSE holder[s]]

(* serving_meta: a sidecar that is missing or cannot be read serves nothing.*)
Serves(k) == meta[k] \in Contents

----------------------------------------------------------------------------
(* A put: stage into a temp of its own, lock, decide, move into place.  A  *)
(* body that fails its cap or its claimed hash only drops the temp.        *)
Stage(p, k, b) ==
  /\ At(p, "idle")
  /\ Become(p, [pc |-> "staged", key |-> k, val |-> b])
  /\ UNCHANGED <<disk, holder, now, damage, history>>

Abandon(p) ==
  /\ At(p, "staged") /\ Become(p, Idle)
  /\ UNCHANGED <<disk, holder, now, damage, history>>

BeginCommit(p) ==
  /\ At(p, "staged") /\ TakeLock(p, op[p].key)
  /\ GoTo(p, "decide")
  /\ UNCHANGED <<disk, now, damage, history>>

(* What is accepted stands, unless it rotted before the put was done.      *)
Accept(p, there) ==
  /\ standing' = [standing EXCEPT ![op[p].key] = IF there = Rotten THEN None ELSE op[p].val]
  /\ Unlock(p) /\ Become(p, Idle)

(* The prior artifact and what the put makes of it.  Variants: a blob is   *)
(* trusted to be what its sidecar says; a prior of other bytes is replaced.*)
Prior(k) == IF blob[k] = Absent \/ ~Serves(k) THEN Absent ELSE meta[k]

IntactAlways(k) == TRUE

Intact(k) == blob[k] = meta[k]

RefusesNever(p, k) == FALSE

Refuses(p, k) == Prior(k) \notin {Absent, op[p].val}

Decide(p) ==
  LET k == op[p].key
  IN  /\ At(p, "decide")
      /\ \/ /\ Refuses(p, k)
            /\ Unlock(p) /\ Become(p, Idle)
            /\ UNCHANGED <<disk, history>>
         \/ /\ Prior(k) = op[p].val /\ Intact(k)
            /\ Accept(p, op[p].val)
            /\ UNCHANGED <<disk, owed, spare, calm>>
         \/ /\ Prior(k) = op[p].val /\ ~Intact(k)
            /\ blob' = [blob EXCEPT ![k] = op[p].val] /\ Stamped(k, "blob")
            /\ Accept(p, op[p].val) /\ calm' = {}
            /\ UNCHANGED <<meta, manifest, owed, spare>>
         \/ /\ ~Refuses(p, k) /\ Prior(k) # op[p].val
            /\ GoTo(p, "place")
            /\ UNCHANGED <<disk, holder, history>>
      /\ UNCHANGED <<now, damage>>

(* Blob, then the sidecar readers go by.                                   *)
PlaceBlob(p) ==
  LET k == op[p].key
  IN  /\ At(p, "place")
      /\ blob' = [blob EXCEPT ![k] = op[p].val] /\ Stamped(k, "blob")
      /\ GoTo(p, "sidecar")
      /\ calm' = {}
      /\ UNCHANGED <<meta, manifest, holder, now, damage, standing, owed, spare>>

PlaceSidecar(p) ==
  /\ At(p, "sidecar")
  /\ meta' = [meta EXCEPT ![op[p].key] = op[p].val]
  /\ Accept(p, blob[op[p].key])
  /\ UNCHANGED <<blob, manifest, stamp, now, damage, owed, spare, calm>>

(* A rename or a write fails: the put is an error, what it did stays.      *)
PutFails(p) ==
  /\ op[p].pc \in {"decide", "place", "sidecar"}
  /\ Unlock(p) /\ Become(p, Idle)
  /\ UNCHANGED <<disk, now, damage, history>>

(* write_manifest: the last writer wins.                                   *)
BeginManifest(p, k) ==
  /\ At(p, "idle") /\ TakeLock(p, k)
  /\ Become(p, [pc |-> "manifest", key |-> k])
  /\ UNCHANGED <<disk, now, damage, history>>

WriteManifest(p) ==
  LET k == op[p].key
  IN  /\ At(p, "manifest")
      /\ manifest' = manifest \cup {k} /\ Stamped(k, "manifest")
      /\ Unlock(p) /\ Become(p, Idle)
      /\ calm' = {}
      /\ UNCHANGED <<blob, meta, now, damage, standing, owed, spare>>

GetManifest(k) ==
  /\ k \in manifest /\ Stamped(k, "manifest")
  /\ UNCHANGED <<blob, meta, manifest, holder, op, now, damage, history>>

----------------------------------------------------------------------------
(* A read: the sidecar, then the blob, hashed as it is streamed.           *)
ReadSidecar(p, k) ==
  /\ At(p, "idle")
  /\ Become(p, IF Serves(k) THEN [pc |-> "open", key |-> k, hash |-> meta[k]]
                            ELSE [pc |-> "read", key |-> k, got |-> Absent])
  /\ owed' = [owed EXCEPT ![p] = standing[k]]
  /\ UNCHANGED <<disk, holder, now, damage, standing, spare, calm>>

(* open_raw opens and touches: the open file keeps what it opened, a       *)
(* rename over the name does not change it.                                *)
OpenBlob(p) ==
  LET k == op[p].key
  IN  /\ At(p, "open")
      /\ IF blob[k] = Absent
         THEN /\ Become(p, [pc |-> "read", key |-> k, got |-> Absent])
              /\ UNCHANGED stamp
         ELSE /\ Become(p, [pc |-> "stream", key |-> k, hash |-> op[p].hash, got |-> blob[k]])
              /\ Stamped(k, "blob")
      /\ UNCHANGED <<blob, meta, manifest, holder, now, damage, history>>

(* VerifyingReader at the end of the stream.  Variant: no hash is taken.   *)
VerifiedAlways(hash, bytes) == TRUE

Verified(hash, bytes) == hash = bytes

Stream(p) ==
  /\ At(p, "stream")
  /\ Become(p, [pc |-> "read", key |-> op[p].key,
                got |-> IF Verified(op[p].hash, op[p].got) THEN op[p].got ELSE Absent])
  /\ UNCHANGED <<disk, holder, now, damage, history>>

(* The caller takes its answer.                                            *)
EndRead(p) ==
  /\ At(p, "read") /\ Become(p, Idle)
  /\ owed' = [owed EXCEPT ![p] = None]
  /\ UNCHANGED <<disk, holder, now, damage, standing, spare, calm>>

----------------------------------------------------------------------------
(* Removal, by delete or by apply_eviction: per key, under its lock, the   *)
(* sidecar, the blob, the manifest.                                        *)
Delete(p, k) ==
  /\ At(p, "idle")
  /\ Become(p, [pc |-> "remove", victims |-> <<k>>, goal |-> -1])
  /\ UNCHANGED <<disk, holder, now, damage, history>>

BeginRemove(p) ==
  LET k == Head(op[p].victims)
  IN  /\ At(p, "remove") /\ op[p].victims # <<>>
      /\ TakeLock(p, k)
      /\ GoTo(p, "unserve")
      /\ Forget(k)
      /\ UNCHANGED <<disk, now, damage, calm>>

RemoveSidecar(p) ==
  /\ At(p, "unserve")
  /\ meta' = [meta EXCEPT ![Head(op[p].victims)] = Absent]
  /\ GoTo(p, "unlink")
  /\ UNCHANGED <<blob, manifest, stamp, holder, now, damage, history>>

RemoveBlob(p) ==
  /\ At(p, "unlink")
  /\ blob' = [blob EXCEPT ![Head(op[p].victims)] = Absent]
  /\ stamp' = [stamp EXCEPT ![<<Head(op[p].victims), "blob">>] = 0]
  /\ GoTo(p, "unmanifest")
  /\ calm' = calm \cap {p}
  /\ UNCHANGED <<meta, manifest, holder, now, damage, standing, owed, spare>>

(* Variant: the manifest is left behind.                                   *)
ManifestKept(k) == manifest

ManifestRemoved(k) == manifest \ {k}

RemoveManifest(p) ==
  LET k == Head(op[p].victims)
  IN  /\ At(p, "unmanifest")
      /\ manifest' = ManifestRemoved(k)
      /\ stamp' = [stamp EXCEPT ![<<k, "manifest">>] = 0]
      /\ Unlock(p)
      /\ Become(p, [pc |-> "remove", victims |-> Tail(op[p].victims), goal |-> op[p].goal])
      /\ UNCHANGED <<blob, meta, now, damage, history>>

(* A removal the file system refuses is passed over.                       *)
RemovalFails(p) ==
  LET next == [unserve |-> "unlink", unlink |-> "unmanifest"]
  IN  /\ op[p].pc \in DOMAIN next
      /\ GoTo(p, next[op[p].pc])
      /\ calm' = {}
      /\ UNCHANGED <<disk, holder, now, damage, standing, owed, spare>>

EndRemove(p) ==
  /\ At(p, "remove") /\ op[p].victims = <<>>
  /\ Become(p, Idle)
  /\ calm' = calm \ {p} /\ spare' = [spare EXCEPT ![p] = {}]
  /\ UNCHANGED <<disk, holder, now, damage, standing, owed>>

----------------------------------------------------------------------------
(* A sweep lists the directory without a lock, entry by entry, in no order.*)
Routes == {k \in Keys : KindOf[k] = "route" /\ standing[k] # None}

BeginSweep(p) ==
  /\ At(p, "idle")
  /\ Become(p, [pc |-> "list", todo |-> Entries, found |-> {}])
  /\ calm' = calm \cup {p} /\ spare' = [spare EXCEPT ![p] = Routes]
  /\ UNCHANGED <<disk, holder, now, damage, standing, owed>>

Candidate(k, size, at, kind) == [key |-> k, size |-> size, last |-> at, kind |-> kind]

BlobSize(k) == IF blob[k] \in Contents THEN SizeOf[blob[k]] ELSE 1

(* A manifest beside a blob is sized with it, and is no entry of its own.  *)
(* Variant: it is not.                                                     *)
SizedAlone(k) == BlobSize(k)

Sized(k) == BlobSize(k) + (IF k \in manifest THEN ManifestSize ELSE 0)

List(p, k, f) ==
  /\ At(p, "list") /\ <<k, f>> \in op[p].todo
  /\ LET rest == [op[p] EXCEPT !.todo = @ \ {<<k, f>>}]
         sized == Candidate(k, Sized(k), stamp[<<k, f>>], "unknown")
         alone == Candidate(k, ManifestSize, stamp[<<k, f>>], "manifest")
     IN  Become(p, CASE f = "blob" /\ blob[k] # Absent ->
                          [pc |-> "kind", todo |-> rest.todo, found |-> rest.found,
                           cand |-> sized]
                     [] f = "manifest" /\ k \in manifest /\ blob[k] = Absent ->
                          [rest EXCEPT !.found = @ \cup {alone}]
                     [] OTHER -> rest)
  /\ UNCHANGED <<disk, holder, now, damage, history>>

(* The kind is the sidecar's; a blob without one is of no kind.  Variant:  *)
(* the sidecar is not looked at.                                           *)
KindUnknown(k) == "file"

Kind(k) == IF Serves(k) THEN KindOf[k] ELSE "file"

ListKind(p) ==
  /\ At(p, "kind")
  /\ Become(p, [pc |-> "list", todo |-> op[p].todo,
                found |-> op[p].found \cup
                  {[op[p].cand EXCEPT !.kind = Kind(op[p].cand.key)]}])
  /\ UNCHANGED <<disk, holder, now, damage, history>>


(* plan_eviction: whatever is older than the cutoff, then the least        *)
(* recently used of what is eligible, one by one, until the rest fits.     *)
Bytes(cs) == MapThenSumSet(LAMBDA c : c.size, cs)

AgeVictims(found, policy) ==
  {c \in found : policy.older >= 0 /\ c.last # 0 /\ c.last < now - policy.older}

(* Variant: no kind is exempt.                                             *)
ExemptNever(c, policy) == FALSE

Exempt(c, policy) == policy.honour /\ c.kind = "route"

Target(policy) == (policy.max * policy.low[1]) \div policy.low[2]

Before(c, d) ==
  LET first(x) == IF x.kind = "observation" THEN 0 ELSE 1
  IN  \/ first(c) < first(d)
      \/ first(c) = first(d) /\ c.last < d.last
      \/ first(c) = first(d) /\ c.last = d.last /\ RankOf[c.key] < RankOf[d.key]

Eligible(found, policy) ==
  {c \in found : /\ c.key \notin {d.key : d \in AgeVictims(found, policy)}
                 /\ ~Exempt(c, policy)}

(* The total the loop tests before it takes a victim.  Variant: it counts  *)
(* that victim as gone.                                                    *)
LeftAfter(found, policy, taken, next) ==
  Bytes(found \ (AgeVictims(found, policy) \cup taken \cup {next}))

Left(found, policy, taken, next) == Bytes(found \ (AgeVictims(found, policy) \cup taken))

SizeVictims(found, policy) ==
  IF policy.max < 0 THEN {}
  ELSE LET eligible == Eligible(found, policy)
           earlier(c) == {d \in eligible : Before(d, c)}
       IN  {c \in eligible : Left(found, policy, earlier(c), c) > Target(policy)}

(* Each part is sorted: a sequence of it in which nobody precedes an       *)
(* earlier one.                                                            *)
Victims(found, policy) ==
  LET lru(c, d) == \/ c.last < d.last
                   \/ c.last = d.last /\ RankOf[c.key] < RankOf[d.key]
      sorted(cs, less(_, _)) ==
        {f \in SetToSeqs(cs) : \A i, j \in DOMAIN f : i < j => ~less(f[j], f[i])}
  IN  {a \o b : a \in sorted(AgeVictims(found, policy), lru),
                b \in sorted(SizeVictims(found, policy), Before)}

(* What the sweep may leave: its target, or what it may not touch.         *)
Goal(found, policy) ==
  LET spared == Bytes({c \in found : Exempt(c, policy)})
  IN  IF policy.max < 0 THEN -1
      ELSE IF spared > Target(policy) THEN spared ELSE Target(policy)

(* The end-of-run check asks for a sweep only over its budget; a dry run   *)
(* only reports.  A sweep also drops temps nobody has written to for an    *)
(* hour: a put whose temp that was fails in its rename (PutFails), and     *)
(* nothing else ever looks at them.                                        *)
Plan(p, policy) ==
  LET found == op[p].found
      done == policy.dry \/ (policy.budget /\ Bytes(found) <= policy.max)
  IN  /\ At(p, "list") /\ op[p].todo = {}
      /\ IF done THEN Become(p, Idle)
         ELSE \E victims \in Victims(found, policy) :
                Become(p, [pc |-> "remove", victims |-> [i \in DOMAIN victims |-> victims[i].key],
                           goal |-> Goal(found, policy)])
      /\ calm' = IF done THEN calm \ {p} ELSE calm
      /\ spare' = [spare EXCEPT ![p] = IF done \/ policy.older >= 0 \/ ~policy.honour
                                       THEN {} ELSE @]
      /\ UNCHANGED <<blob, meta, manifest, stamp, holder, now, damage, standing, owed>>

----------------------------------------------------------------------------
(* Around the processes: time, kills, and damage to what lies on disk.     *)
Tick ==
  /\ now - 1 + damage < MaxEvents /\ now' = now + 1
  /\ UNCHANGED <<disk, holder, op, damage, history>>

Kill(p) ==
  /\ ~At(p, "idle")
  /\ Unlock(p) /\ Become(p, Idle)
  /\ owed' = [owed EXCEPT ![p] = None]
  /\ spare' = [spare EXCEPT ![p] = {}] /\ calm' = calm \ {p}
  /\ UNCHANGED <<disk, now, damage, standing>>

Damage(k) ==
  /\ now - 1 + damage < MaxEvents /\ damage' = damage + 1
  /\ \/ blob[k] # Absent /\ blob' = [blob EXCEPT ![k] = Rotten] /\ UNCHANGED meta
     \/ meta[k] # Absent /\ meta' = [meta EXCEPT ![k] = Rotten] /\ UNCHANGED blob
  /\ Forget(k)
  /\ UNCHANGED <<manifest, stamp, holder, op, now, calm>>

Put(p) ==
  \/ \E o \in Offers : o[1] = p /\ Stage(p, o[2], o[3])
  \/ Abandon(p) \/ BeginCommit(p) \/ Decide(p)
  \/ PlaceBlob(p) \/ PlaceSidecar(p) \/ PutFails(p)
  \/ \E k \in Described : BeginManifest(p, k)
  \/ WriteManifest(p)

Get(p) ==
  \/ \E k \in Keys : ReadSidecar(p, k)
  \/ OpenBlob(p) \/ Stream(p) \/ EndRead(p)

Removal(p) ==
  \/ BeginRemove(p) \/ RemoveSidecar(p) \/ RemoveBlob(p) \/ RemoveManifest(p)
  \/ RemovalFails(p) \/ EndRemove(p)

Sweep(p) ==
  \/ BeginSweep(p)
  \/ \E k \in Keys, f \in {"blob", "manifest"} : List(p, k, f)
  \/ ListKind(p)
  \/ \E policy \in Policies : Plan(p, policy)

Next ==
  \/ \E p \in Putters : Put(p)
  \/ \E p \in Getters : Get(p)
  \/ \E p \in Deleters, k \in Keys : Delete(p, k)
  \/ \E p \in Sweepers : Sweep(p)
  \/ \E p \in Deleters \cup Sweepers : Removal(p)
  \/ \E p \in Procs : Kill(p)
  \/ \E k \in Keys : GetManifest(k) \/ Damage(k)
  \/ Tick

Spec == Init /\ [][Next]_vars

----------------------------------------------------------------------------
(* Every read ends with bytes some put stored whole under its key's hash,  *)
(* and with no miss and no other bytes when an accepted put stood there    *)
(* for as long as it read: neither a writer between its two renames, nor a *)
(* healed blob, nor a sweep that was late shows through (open_raw,         *)
(* commit_locked, apply_eviction).                                         *)
AcceptedIsServed ==
  \A p \in Procs : At(p, "read") =>
    /\ op[p].got # Rotten
    /\ owed[p] # None => op[p].got = owed[p]

(* Until it is removed or damaged a key keeps the bytes of the first put   *)
(* it accepted, whoever else puts: two putters cannot both decide that the *)
(* key is free (lock_shard, commit_locked, the 409 of CS-0055).            *)
OneValuePerKey ==
  [][\A k \in Keys : standing[k] # None /\ standing'[k] # None => standing'[k] = standing[k]]_vars

(* A sweep by size of a project's own store takes no artifact of an exempt *)
(* kind that stood there before the sweep began: those are the only routes *)
(* to what else the store holds (SIZE_SWEEP_EXEMPT_KINDS).                 *)
RoutesSurvive ==
  \A p \in Procs : At(p, "remove") =>
    \A i \in DOMAIN op[p].victims : op[p].victims[i] \notin spare[p]

(* A sweep beside which nobody wrote, or took a blob, leaves the store     *)
(* within its target, or with nothing but what it may not take: the sizes  *)
(* it listed are the files its removals delete (enumerate, plan_eviction,  *)
(* apply_eviction).  A blob taken while it lists is excepted: its manifest *)
(* may have been passed over as standing beside the blob, and the blob     *)
(* missed as gone.                                                         *)
OnDisk ==
  MapThenSumSet(BlobSize, {k \in Keys : blob[k] # Absent}) + ManifestSize * Cardinality(manifest)

SweepReachesTarget ==
  \A p \in calm : At(p, "remove") /\ op[p].victims = <<>> /\ op[p].goal >= 0
                   => OnDisk <= op[p].goal
=============================================================================
