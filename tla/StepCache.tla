----------------------------- MODULE StepCache -----------------------------
(***************************************************************************)
(* One cached unit, in several checkouts that share one store.  It either  *)
(* produces outputs or, as a test does, only observes.  A run of a         *)
(* checkout judges the local record (cook-cache check.rs), repairs drifted *)
(* outputs, fetches by key, or runs the command; it records what ran, and  *)
(* publishes it put by put (cook-engine executor.rs).  Between runs files  *)
(* are edited, outputs damaged, the declaration changed; a run may be      *)
(* killed at any step, and the store may refuse a put or evict a blob.     *)
(*                                                                         *)
(* Contents stand for their hashes.  A unit is deterministic: what it      *)
(* writes is a function of its determinants and of the files it reads, so  *)
(* an output is written down as that function.  det folds the command and  *)
(* seal hashes, which are only ever compared for equality; the env part is *)
(* also in the name of the record and stays the same here.                 *)
(***************************************************************************)
EXTENDS Naturals, Sequences, SequencesExt, FiniteSets

CONSTANTS
  Checkout,    \* working trees, each with its own recipe index
  Publishers,  \* the checkouts whose runs publish (publish_enabled)
  Declared,    \* the declared inputs of the unit
  Extra,       \* files it may read besides: headers, or Lua modules
  Outputs,     \* its declared outputs, literal paths, in order
  Contents,    \* what a file may hold
  Holds,       \* Holds[p]: what the file p may hold
  Mentions,    \* Mentions[p][v]: the extra files that p, holding v, makes it read
  Dets,        \* the declarations of the unit
  Units,       \* its kinds: [sharing, finds, effect]
  Breaks,      \* the contents on which a unit that observes fails
  Absent,      \* no such file
  Junk,        \* what a damaged or half-written output holds
  Disturbances,\* what may happen to a checkout or to the store
  MaxEvents    \* bound on how often it happens, all together

Source == Declared \cup Extra
Depfile == "depfile"

(* The slots beside the outputs under which something is stored. *)
Reserved == {"paths", "sets", "modules", "log", "manifest"}

(* A unit without outputs is one that observes; its slots are told apart.    *)
ASSUME OutputsAssumption ==
  /\ Outputs \in Seq(ToSet(Outputs)) /\ Outputs # <<>>
  /\ ToSet(Outputs) \cap ({Depfile} \cup Reserved) = {}
ASSUME PublishersAssumption == Publishers \subseteq Checkout
ASSUME HoldsAssumption == Holds \in [Source -> SUBSET Contents]
ASSUME MentionsAssumption == Mentions \in [Source -> [Contents -> SUBSET Extra]]
(* A unit that observes writes no depfile either: only compilations do.       *)
ASSUME UnitsAssumption ==
  /\ Units \subseteq [sharing : {"shared", "local", "pinned"},
                      finds : {"nothing", "depfile", "modules"},
                      effect : {"produces", "observes"}]
  /\ \A u \in Units : u.effect = "observes" => u.finds # "depfile"
ASSUME BreaksAssumption == Breaks \subseteq Contents
ASSUME DisturbancesAssumption ==
  Disturbances \subseteq {"edit", "damage", "kill", "refuse", "evict"}
ASSUME MaxEventsAssumption == MaxEvents \in Nat
ASSUME AbsentAssumption == Absent \notin Contents

VARIABLES
  unit,        \* the kind of the unit, fixed
  det,         \* det[c]: the declaration in checkout c
  files,       \* files[c]: its source files
  outs,        \* outs[c]: the unit's outputs there
  index,       \* index[c]: the record of the unit in memory, or NoEntry
  disk,        \* disk[c]: the same in the saved recipe index
  stage,       \* stage[c]: where the run is
  left,        \* left[c]: the puts still to make
  blobs,       \* the store: <<key, slot>> -> bytes
  events       \* how many disturbances there have been

world == <<unit, det, files>>
run == <<outs, index, disk, stage, left>>
vars == <<world, run, blobs, events>>

NoEntry == [none |-> TRUE]

----------------------------------------------------------------------------
(* What the unit reads and writes. *)

(* The extra files reached from the declared ones, given what each holds. *)
Found(f) ==
  {h \in Extra :
     \A S \in SUBSET Extra :
       (\A p \in Declared \cup S : f[p] # Absent => Mentions[p][f[p]] \subseteq S)
         => h \in S}

Reads(f) == IF unit.finds = "nothing" THEN Declared ELSE Declared \cup Found(f)
Observes == unit.effect = "observes"

(* A command fails when it misses a file, and a test on what breaks it.      *)
Passing(f, P) == \A p \in P : f[p] # Absent /\ (Observes => f[p] \notin Breaks)
Runnable(f) == Passing(f, Reads(f))
On(f, P) == [p \in P |-> f[p]]

HasDepfile == unit.finds = "depfile"
Made == IF Observes THEN <<>> ELSE Outputs
Tracked == ToSet(Made) \cup (IF HasDepfile THEN {Depfile} ELSE {})

(* A depfile names the files that were read; any other output depends on all *)
(* that went in.                                                             *)
Product(o, d, saw) ==
  IF o = Depfile THEN [names |-> DOMAIN saw \ Declared]
  ELSE [of |-> o, det |-> d, saw |-> saw]

ASSUME JunkAssumption ==
  \A o \in ToSet(Outputs), d \in Dets, P \in SUBSET Source :
    \A saw \in [P -> Contents] : Product(o, d, saw) # Junk

Built(d, f) == [o \in Tracked |-> Product(o, d, On(f, Reads(f)))]

----------------------------------------------------------------------------
(* Keys.  cloud_key folds the determinants and the content hashes of the     *)
(* inputs, sorted by hash: a bag of contents, without the paths.             *)

BagOf(f) == [v \in Contents |-> Cardinality({p \in DOMAIN f : f[p] = v})]
CloudKey(d, f) == [det |-> d, bag |-> BagOf(f)]

With(f, x, y) == [z \in DOMAIN f \cup {x} |-> IF z = x THEN y ELSE f[z]]

Sources(e) ==
  [p \in DOMAIN e.inputs \cup DOMAIN e.modules |->
     IF p \in DOMAIN e.inputs THEN e.inputs[p] ELSE e.modules[p]]

(* entry_cloud_key; the modules are folded in on this side only. *)
EntryKey(e) == CloudKey(e.det, Sources(e))

DeclaredKey(c) == CloudKey(det[c], On(files[c], Declared))
Stored(k, slot) == <<k, slot>> \in DOMAIN blobs

----------------------------------------------------------------------------
(* needs_rebuild_cook *)

(* Variant: the modules are not judged. *)
SameInputs(c, e) == \A p \in DOMAIN e.inputs : files[c][p] = e.inputs[p]

SameSources(c, e) ==
  /\ \A p \in DOMAIN e.inputs : files[c][p] = e.inputs[p]
  /\ \A p \in DOMAIN e.modules : files[c][p] = e.modules[p]

(* Variant: a unit with a depfile is judged against its declaration too. *)
DeclaredSet(e) == DOMAIN e.inputs = Declared

(* Without a depfile the recorded inputs are compared with the declared     *)
(* ones; with one the record is the set.                                    *)
SameInputSet(e) == HasDepfile \/ DOMAIN e.inputs = Declared

Valid(c, e) ==
  /\ e # NoEntry
  /\ e.det = det[c]
  /\ SameInputSet(e) /\ SameSources(c, e)
  /\ DOMAIN e.outputs = Tracked

Drifted(c, e) == {o \in Tracked : outs[c][o] # e.outputs[o]}

(* try_restore: the key is recomposed from the inputs alone, and bytes that  *)
(* differ from the record are refused.                                       *)
Restorable(e) ==
  {o \in DOMAIN e.outputs :
     /\ Stored(CloudKey(e.det, e.inputs), o)
     /\ blobs[<<CloudKey(e.det, e.inputs), o>>] = e.outputs[o]}

AfterRestore(c) ==
  LET e == index[c]
  IN IF Valid(c, e) /\ unit.sharing # "local"
     THEN [o \in Tracked |-> IF o \in Drifted(c, e) \cap Restorable(e)
                             THEN e.outputs[o] ELSE outs[c][o]]
     ELSE outs[c]

LocallyServed(c) == Valid(c, index[c]) /\ AfterRestore(c) = index[c].outputs

----------------------------------------------------------------------------
(* fetch_by_key *)

(* read_discovered_input_sets, read_module_input_sets, path_set_candidates.  *)
RecordedSets(c) ==
  LET k == DeclaredKey(c)
      slot == IF HasDepfile THEN "sets" ELSE "modules"
  IN IF Stored(k, slot) THEN blobs[<<k, slot>>]
     ELSE IF HasDepfile /\ Stored(k, "paths") THEN <<blobs[<<k, "paths">>]>>
     ELSE <<>>

Candidates(c) ==
  IF unit.finds = "nothing" THEN <<{}>>
  ELSE IF HasDepfile \/ {} \in ToSet(RecordedSets(c)) THEN RecordedSets(c)
  ELSE Append(RecordedSets(c), {})

(* Variant: the files of the candidate set are left out of the key. *)
BareKey(c, D) == DeclaredKey(c)

CandidateKey(c, D) == CloudKey(det[c], On(files[c], Declared \cup D))

(* hash_input_paths of the candidate's files, then restore_list: a unit with *)
(* a depfile needs the manifest, any other is restored as declared.          *)
Usable(c, D) ==
  /\ \A p \in D : files[c][p] # Absent
  /\ HasDepfile => Stored(CandidateKey(c, D), "manifest")

(* Variant: one restored output makes the candidate a hit. *)
ServesInPart(c, D) == Usable(c, D) /\ \E o \in Tracked : Stored(CandidateKey(c, D), o)

(* restore_all: a hit when every output is there.                            *)
Serves(c, D) == Usable(c, D) /\ \A o \in Tracked : Stored(CandidateKey(c, D), o)

(* The shared tier is asked: the unit shares and its declared inputs exist.  *)
Asked(c) == unit.sharing # "local" /\ \A p \in Declared : files[c][p] # Absent
Offered(c) == IF Asked(c) THEN Candidates(c) ELSE <<>>

(* The candidates are tried in their order, until one serves. *)
Tried(c) ==
  {i \in DOMAIN Offered(c) : \A j \in 1..(i - 1) : ~Serves(c, Offered(c)[j])}

(* The file sets that served: one or none. *)
Won(c) == {Offered(c)[i] : i \in {i \in Tried(c) : Serves(c, Offered(c)[i])}}

(* What the tree holds after the attempts: what a failing candidate restored *)
(* stays.                                                                    *)
Restores(c, i, o) ==
  Usable(c, Offered(c)[i]) /\ Stored(CandidateKey(c, Offered(c)[i]), o)

Fetched(c) ==
  [o \in Tracked |->
     LET from == {i \in Tried(c) : Restores(c, i, o)}
     IN IF from = {} THEN AfterRestore(c)[o]
        ELSE blobs[<<CandidateKey(c, Offered(c)[Max(from)]), o>>]]

----------------------------------------------------------------------------
(* A unit without outputs is served by the observation of a run that passed. *)

(* Both halves: the scalars are in the manifest, the streams in the log.     *)
SharedObservation(k) == Stored(k, "manifest") /\ Stored(k, "log")

(* The file set that serves: the first that describes this tree and was      *)
(* observed.                                                                 *)
Witnessed(c) ==
  {i \in DOMAIN Offered(c) :
     /\ \A p \in Offered(c)[i] : files[c][p] # Absent
     /\ SharedObservation(CandidateKey(c, Offered(c)[i]))}
Observed(c) ==
  {Offered(c)[i] : i \in {i \in Witnessed(c) : \A j \in Witnessed(c) : i <= j}}

Servable(c) == IF Observes THEN Observed(c) # {} ELSE Won(c) # {}

----------------------------------------------------------------------------
(* The record of a run or of a fetch that read, or matched, the files D      *)
(* beside the declared ones.  observed tells whether it carries the scalars  *)
(* of a run, without which it is never backfilled.                           *)
Entry(c, D, written, observed) ==
  [det |-> det[c],
   inputs |-> On(files[c], IF HasDepfile THEN Declared \cup D ELSE Declared),
   modules |-> On(files[c], IF HasDepfile THEN {} ELSE D),
   outputs |-> written, observed |-> observed]

Disturb(kind) == kind \in Disturbances /\ events < MaxEvents /\ events' = events + 1

Init ==
  /\ unit \in Units
  /\ det \in [Checkout -> Dets]
  /\ files \in [Checkout -> {f \in [Source -> Contents] : \A p \in Source : f[p] \in Holds[p]}]
  /\ outs = [c \in Checkout |-> [o \in Tracked |-> Absent]]
  /\ index = [c \in Checkout |-> NoEntry]
  /\ disk = [c \in Checkout |-> NoEntry]
  /\ stage = [c \in Checkout |-> "idle"]
  /\ left = [c \in Checkout |-> <<>>]
  /\ blobs = [x \in {} |-> Absent]
  /\ events = 0

(* The cache check of a run, with its local and its shared hit ... *)
SkipOrRepair(c) ==
  /\ ~Observes
  /\ stage[c] = "idle" /\ LocallyServed(c)
  /\ outs' = [outs EXCEPT ![c] = AfterRestore(c)]
  /\ stage' = [stage EXCEPT ![c] = "hit"]
  /\ UNCHANGED <<world, index, disk, left, blobs, events>>

FetchHit(c) ==
  /\ ~Observes
  /\ stage[c] = "idle" /\ ~LocallyServed(c)
  /\ outs' = [outs EXCEPT ![c] = Fetched(c)]
  /\ \E D \in Won(c) :
       index' = [index EXCEPT ![c] =
                   Entry(c, D, Fetched(c), Stored(CandidateKey(c, D), "manifest"))]
  /\ stage' = [stage EXCEPT ![c] = "hit"]
  /\ UNCHANGED <<world, disk, left, blobs, events>>

(* ... and its miss, which fails a pinned unit and dispatches any other. *)
Miss(c) ==
  /\ ~Observes
  /\ stage[c] = "idle" /\ ~LocallyServed(c)
  /\ Won(c) = {}
  /\ outs' = [outs EXCEPT ![c] = Fetched(c)]
  /\ stage' = [stage EXCEPT ![c] = IF unit.sharing = "pinned" THEN "refused" ELSE "run"]
  /\ UNCHANGED <<world, index, disk, left, blobs, events>>

(* The same of a unit that observes: its record is the verdict ... *)
VerdictKept(c) ==
  /\ Observes
  /\ stage[c] = "idle" /\ Valid(c, index[c])
  /\ stage' = [stage EXCEPT ![c] = "hit"]
  /\ UNCHANGED <<world, outs, index, disk, left, blobs, events>>

(* ... or another run's observation, recorded with the files it matched ... *)
VerdictFetched(c) ==
  /\ Observes
  /\ stage[c] = "idle" /\ ~Valid(c, index[c])
  /\ \E D \in Observed(c) : index' = [index EXCEPT ![c] = Entry(c, D, outs[c], TRUE)]
  /\ stage' = [stage EXCEPT ![c] = "hit"]
  /\ UNCHANGED <<world, outs, disk, left, blobs, events>>

(* ... and on a miss it is run, a pinned one too.                            *)
VerdictSought(c) ==
  /\ Observes
  /\ stage[c] = "idle" /\ ~Valid(c, index[c]) /\ Observed(c) = {}
  /\ stage' = [stage EXCEPT ![c] = "run"]
  /\ UNCHANGED <<world, outs, index, disk, left, blobs, events>>

(* cook test --rerun: a test is run without being looked up. *)
Rerun(c) ==
  /\ Observes
  /\ stage[c] = "idle"
  /\ stage' = [stage EXCEPT ![c] = "run"]
  /\ UNCHANGED <<world, outs, index, disk, left, blobs, events>>

(* What a command that does not end well may leave: half its first output.   *)
Torn(c) ==
  {outs[c]} \cup {[outs[c] EXCEPT ![o] = Junk] : o \in ToSet(Made) \cap {Head(Outputs)}}

Fail(c) ==
  /\ stage[c] = "run" /\ ~Runnable(files[c])
  /\ \E f \in Torn(c) : outs' = [outs EXCEPT ![c] = f]
  /\ stage' = [stage EXCEPT ![c] = "ended"]
  /\ UNCHANGED <<world, index, disk, left, blobs, events>>

Execute(c) ==
  /\ stage[c] = "run" /\ Runnable(files[c])
  /\ outs' = [outs EXCEPT ![c] = Built(det[c], files[c])]
  /\ stage' = [stage EXCEPT ![c] = "ran"]
  /\ UNCHANGED <<world, index, disk, left, blobs, events>>

Publishes(c) == unit.sharing # "local" /\ c \in Publishers

(* The depfile itself, and the files it named under the declared key.        *)
DepfilePuts == IF HasDepfile THEN <<Depfile, "paths", "sets">> ELSE <<>>

ModulePuts(e) == IF DOMAIN e.modules = {} THEN <<>> ELSE <<"modules">>

(* The presence key of the whole upload comes last but for the manifest.     *)
FinalPuts == <<"log", "manifest">>

(* The puts of upload_completion, in order. *)
Puts(e) == Made \o DepfilePuts \o ModulePuts(e) \o FinalPuts

(* record_completion, and the depfile read back. *)
Record(c) ==
  /\ stage[c] = "ran"
  /\ LET e == Entry(c, Reads(files[c]) \ Declared, outs[c], TRUE)
     IN /\ index' = [index EXCEPT ![c] = e]
        /\ left' = [left EXCEPT ![c] = IF Publishes(c) THEN Puts(e) ELSE <<>>]
  /\ stage' = [stage EXCEPT ![c] = "upload"]
  /\ UNCHANGED <<world, outs, disk, blobs, events>>

----------------------------------------------------------------------------
(* upload_completion *)

(* The extra files the record of c names. *)
Named(c) == (DOMAIN index[c].inputs \cup DOMAIN index[c].modules) \ Declared

PutKey(c, slot) ==
  IF slot \in {"paths", "sets", "modules"} THEN DeclaredKey(c) ELSE EntryKey(index[c])

(* Newest first, without duplicates.  A backfill has no output to log. *)
PutBytes(c, slot) ==
  CASE slot \in {"sets", "modules"} ->
         <<Named(c)>> \o RemoveFirst(RecordedSets(c), Named(c))
    [] slot = "paths" -> Named(c)
    [] slot = "log" -> IF stage[c] = "fill" THEN "elided" ELSE "log"
    [] slot = "manifest" -> "manifest"
    [] OTHER -> outs[c][slot]

(* LocalBackend::commit: a key holds one byte sequence; other bytes are a    *)
(* conflict.  A manifest is overwritten.                                     *)
Accepts(k, slot, bytes) ==
  slot = "manifest" \/ ~Stored(k, slot) \/ blobs[<<k, slot>>] = bytes

Put(c) ==
  /\ stage[c] \in {"upload", "fill"} /\ left[c] # <<>>
  /\ LET slot == Head(left[c])
         k == PutKey(c, slot)
         bytes == PutBytes(c, slot)
         skipped == slot \in Tracked /\ bytes = Absent
     IN IF skipped THEN left' = [left EXCEPT ![c] = Tail(@)] /\ UNCHANGED blobs
        ELSE IF Accepts(k, slot, bytes)
        THEN /\ blobs' = With(blobs, <<k, slot>>, bytes)
             /\ left' = [left EXCEPT ![c] = Tail(@)]
        ELSE left' = [left EXCEPT ![c] = <<>>] /\ UNCHANGED blobs
  /\ UNCHANGED <<world, outs, index, disk, stage, events>>

(* The store is full or away: nothing is put after the failure. *)
PutRefused(c) ==
  /\ Disturb("refuse")
  /\ stage[c] \in {"upload", "fill"} /\ left[c] # <<>>
  /\ left' = [left EXCEPT ![c] = <<>>]
  /\ UNCHANGED <<world, outs, index, disk, stage, blobs>>

(* flush_caches, at the end of the run and before the backfill. *)
Flush(c) ==
  /\ \/ stage[c] \in {"hit", "ended", "refused"}
     \/ stage[c] = "upload" /\ left[c] = <<>>
  /\ disk' = [disk EXCEPT ![c] = index[c]]
  /\ stage' = [stage EXCEPT ![c] = IF @ = "hit" /\ Publishes(c) THEN "backfill" ELSE "idle"]
  /\ UNCHANGED <<world, outs, index, left, blobs, events>>

(* Variant: the record is trusted, as the local check trusts it. *)
LacksLog(c) == index[c].observed /\ ~Stored(EntryKey(index[c]), "log")

(* backfill_shared: publish what was hit, unless the log is there, or a      *)
(* recorded file has changed since.                                          *)
LacksUpload(c) ==
  LET e == index[c]
  IN /\ e.observed
     /\ ~Stored(EntryKey(e), "log")
     /\ SameSources(c, e) /\ Drifted(c, e) = {}

Backfill(c) ==
  /\ stage[c] = "backfill"
  /\ IF LacksUpload(c)
     THEN /\ stage' = [stage EXCEPT ![c] = "fill"]
          /\ left' = [left EXCEPT ![c] = Puts(index[c])]
     ELSE stage' = [stage EXCEPT ![c] = "idle"] /\ UNCHANGED left
  /\ UNCHANGED <<world, outs, index, disk, blobs, events>>

BackfillEnds(c) ==
  /\ stage[c] = "fill" /\ left[c] = <<>>
  /\ stage' = [stage EXCEPT ![c] = "idle"]
  /\ UNCHANGED <<world, outs, index, disk, left, blobs, events>>

----------------------------------------------------------------------------
(* What happens to a checkout and to the store from outside.  Sources are    *)
(* left alone during a run, as the stat memo demands; the outputs of a unit  *)
(* that was hit may be rewritten by a later unit before the backfill.        *)

Edit(c) ==
  /\ Disturb("edit")
  /\ stage[c] = "idle"
  /\ \/ \E p \in Source : \E v \in (Holds[p] \cup {Absent}) \ {files[c][p]} :
          /\ files' = [files EXCEPT ![c][p] = v]
          /\ UNCHANGED det
     \/ \E d \in Dets \ {det[c]} : det' = [det EXCEPT ![c] = d] /\ UNCHANGED files
  /\ UNCHANGED <<unit, run, blobs>>

Damage(c) ==
  /\ Disturb("damage")
  /\ stage[c] \in {"idle", "backfill"}
  /\ \E o \in Tracked : \E v \in {Absent, Junk} \ {outs[c][o]} :
       outs' = [outs EXCEPT ![c][o] = v]
  /\ UNCHANGED <<world, index, disk, stage, left, blobs>>

(* Variant: the records of the killed run survive it. *)
KillAfterSave(c) ==
  /\ Disturb("kill")
  /\ stage[c] # "idle"
  /\ stage' = [stage EXCEPT ![c] = "idle"]
  /\ left' = [left EXCEPT ![c] = <<>>]
  /\ UNCHANGED <<world, outs, index, disk, blobs>>

(* The process is killed: its unsaved records are lost, and a command that   *)
(* was running leaves what it had written.                                   *)
Kill(c) ==
  /\ Disturb("kill")
  /\ stage[c] # "idle"
  /\ stage' = [stage EXCEPT ![c] = "idle"]
  /\ index' = [index EXCEPT ![c] = disk[c]]
  /\ left' = [left EXCEPT ![c] = <<>>]
  /\ \E f \in IF stage[c] = "run" THEN Torn(c) ELSE {outs[c]} :
       outs' = [outs EXCEPT ![c] = f]
  /\ UNCHANGED <<world, disk, blobs>>

(* cook cache gc, in this checkout or another. *)
Evict ==
  /\ Disturb("evict")
  /\ \E x \in DOMAIN blobs : blobs' = [y \in DOMAIN blobs \ {x} |-> blobs[y]]
  /\ UNCHANGED <<world, run>>

Steps(c) ==
  \/ SkipOrRepair(c) \/ FetchHit(c) \/ Miss(c)
  \/ VerdictKept(c) \/ VerdictFetched(c) \/ VerdictSought(c) \/ Rerun(c)
  \/ Fail(c) \/ Execute(c) \/ Record(c)
  \/ Put(c) \/ PutRefused(c)
  \/ Flush(c) \/ Backfill(c) \/ BackfillEnds(c)

Next ==
  \/ \E c \in Checkout : Steps(c) \/ Edit(c) \/ Damage(c) \/ Kill(c)
  \/ Evict

Spec == Init /\ [][Next]_vars

----------------------------------------------------------------------------
(* Properties *)

(* A cache hit, by skip, repair or fetch, leaves the outputs that running    *)
(* the command on the present sources would have left (the fetch comment of  *)
(* check_node_cache: "a fetch hit must be byte-identical to a fresh build"), *)
(* and a test that is not run would have passed.                             *)
HitIsFresh ==
  \A c \in Checkout :
    stage[c] = "hit" =>
      Runnable(files[c]) /\ outs[c] = Built(det[c], files[c])

(* A record pairs outputs with the sources they were really built from, and  *)
(* a verdict with sources that pass, whether it was made by a run or by a    *)
(* fetch, and whatever was killed.                                           *)
HonestRecords ==
  \A c \in Checkout : \A e \in {index[c], disk[c]} \ {NoEntry} :
    /\ Passing(Sources(e), DOMAIN Sources(e))
    /\ \A o \in Tracked : e.outputs[o] = Product(o, e.det, Sources(e))

(* What the store holds under a key was built from sources with that key, so *)
(* that a backfill never publishes what changed after it was recorded.       *)
HonestStore ==
  \A x \in DOMAIN blobs :
    x[2] \in ToSet(Outputs) =>
      /\ blobs[x] # Junk
      /\ CloudKey(blobs[x].det, blobs[x].saw) = x[1]

(* Neither the record nor the store ever tells what did not happen.          *)
Honest == HonestRecords /\ HonestStore

(* A run that recorded, by executing or by fetching, is followed by a skip:  *)
(* the next check finds its own record and nothing to do.                    *)
NextRunSkips ==
  \A c \in Checkout :
    stage[c] \in {"hit", "upload"} =>
      Valid(c, index[c]) /\ Drifted(c, index[c]) = {}

(* Publisher and reader compose the same keys: once every put of a record is *)
(* in the store, any checkout with the same sources is served, with no       *)
(* record of its own.                                                        *)
Complete(c) ==
  /\ \A i \in DOMAIN Puts(index[c]) :
       Stored(PutKey(c, Puts(index[c])[i]), Puts(index[c])[i])
  /\ Named(c) \in ToSet(Candidates(c))

PublishedIsServed ==
  \A c \in Checkout :
    /\ unit.sharing # "local"
    /\ index[c] # NoEntry /\ index[c].det = det[c] /\ SameSources(c, index[c])
    /\ Complete(c)
    => \A d \in Checkout :
         det[d] = det[c] /\ files[d] = files[c] => Servable(d)
============================================================================
