-------------------------- MODULE StepCacheProofs --------------------------
(***************************************************************************)
(* Any number of checkouts, files, outputs and disturbances.  A record and *)
(* what is stored are true up to their key: each output there is that of a *)
(* run that ended well on files with that key.  The key drops paths, so    *)
(* several trees may have it; where one only has it, a hit is fresh, since *)
(* the files a run reads are fixed by what those files hold (SameReads).   *)
(***************************************************************************)
EXTENDS StepCache, FiniteSetTheorems, SequenceTheorems, NaturalsInduction,
        WellFoundedInduction, TLAPS

(* What a working tree may be: a file of Holds, or none. *)
Tree ==
  {f \in [Source -> Contents \cup {Absent}] : \A p \in Source : f[p] \in Holds[p] \cup {Absent}}

(* The sources on which the unit, as d declares it, ends well, and whose key *)
(* is k.  The key drops the paths: exchange what two files hold, and it is   *)
(* the same (check.rs:1197).                                                 *)
RunsOf(d, k) == {g \in Tree : Runnable(g) /\ CloudKey(d, On(g, Reads(g))) = k}

(* There is such a run, and w[o] is for each output what one of them writes. *)
FromRuns(w, d, k) ==
  /\ RunsOf(d, k) # {}
  /\ \A o \in Tracked : \E g \in RunsOf(d, k) : w[o] = Product(o, d, On(g, Reads(g)))

(* Every one of them read just this. *)
Tells(d, k, saw) == \A g \in RunsOf(d, k) : On(g, Reads(g)) = saw

(* The files by which a checkout was served, and what they hold now. *)
Matched(c) == On(files[c], DOMAIN Sources(index[c]))

(* What a hit leaves was made by runs that ended well on sources of the very *)
(* key that the matched files of this checkout have, all of them there and   *)
(* the declared ones among them; and a test that is not run has such a run.  *)
ServedUpToKey ==
  \A c \in Checkout : stage[c] = "hit" =>
    /\ Declared \subseteq DOMAIN Matched(c)
    /\ \A p \in DOMAIN Matched(c) : files[c][p] # Absent
    /\ FromRuns(outs[c], det[c], CloudKey(det[c], Matched(c)))

(* No hit is under a key that other sources have as well. *)
HitsTold ==
  \A c \in Checkout :
    stage[c] = "hit" => Tells(det[c], CloudKey(det[c], Matched(c)), Matched(c))

(* The outputs of a record were made by runs of the record's own key.        *)
RecordsUpToKey ==
  \A c \in Checkout : \A e \in {index[c], disk[c]} \ {NoEntry} :
    FromRuns(e.outputs, e.det, EntryKey(e))

(* No record has a key that other sources have as well. *)
RecordsTold ==
  \A c \in Checkout : \A e \in {index[c], disk[c]} \ {NoEntry} :
    Tells(e.det, EntryKey(e), Sources(e))

(* Where no two files may hold the same, as in the instance of the run, a    *)
(* key always tells what was read (ApartTold).                               *)
ContentsApart ==
  \A p, q \in Source : p # q => Holds[p] \cap Holds[q] = {}

----------------------------------------------------------------------------
(* The files a run reads. *)

(* What is found is closed: the files found mention only files found.        *)
LEMMA FoundClosed ==
  ASSUME NEW f, NEW p \in Declared \cup Found(f), f[p] # Absent, p \in Source,
         Mentions[p][f[p]] \subseteq Extra
  PROVE  Mentions[p][f[p]] \subseteq Found(f)
BY DEF Found

(* It is the least such set.                                                 *)
LEMMA FoundLeast ==
  ASSUME NEW f, NEW S \in SUBSET Extra,
         \A p \in Declared \cup S : f[p] # Absent => Mentions[p][f[p]] \subseteq S
  PROVE  Found(f) \subseteq S
BY DEF Found

LEMMA TreeMentions ==
  ASSUME NEW f \in Tree, NEW p \in Source, f[p] # Absent
  PROVE  f[p] \in Holds[p] /\ f[p] \in Contents /\ Mentions[p][f[p]] \subseteq Extra
BY MentionsAssumption DEF Tree

LEMMA FoundIn == ASSUME NEW f PROVE Found(f) \subseteq Extra
BY DEF Found

(* Two trees that agree on what the first one reads find the same.           *)
LEMMA SameFound ==
  ASSUME NEW f \in Tree, NEW g \in Tree,
         \A p \in Declared \cup Found(f) : g[p] = f[p]
  PROVE  Found(g) = Found(f)
<1>1. \A p \in Declared \cup Found(f) : p \in Source
  BY FoundIn DEF Source
<1>2. Found(g) \subseteq Found(f)
  <2>1. \A p \in Declared \cup Found(f) : g[p] # Absent => Mentions[p][g[p]] \subseteq Found(f)
    BY <1>1, TreeMentions, FoundClosed
  <2> QED BY <2>1, FoundLeast, FoundIn
<1>3. Found(f) \subseteq Found(g)
  <2>1. \A p \in Declared \cup Found(g) : f[p] # Absent => Mentions[p][f[p]] \subseteq Found(g)
    BY <1>1, <1>2, TreeMentions, FoundClosed
  <2> QED BY <2>1, FoundLeast, FoundIn
<1> QED BY <1>2, <1>3

LEMMA ReadsIn == ASSUME NEW f PROVE Declared \subseteq Reads(f) /\ Reads(f) \subseteq Source
BY FoundIn DEF Reads, Source

(* A run on a tree that agrees with another on all that was read there reads *)
(* the same, ends the same and writes the same.                              *)
LEMMA SameReads ==
  ASSUME NEW f \in Tree, NEW g \in Tree, \A p \in Reads(f) : g[p] = f[p]
  PROVE  /\ Reads(g) = Reads(f)
         /\ On(g, Reads(g)) = On(f, Reads(f))
         /\ Runnable(f) => Runnable(g)
<1>1. Reads(g) = Reads(f)
  BY SameFound DEF Reads
<1> QED BY <1>1 DEF On, Runnable, Passing

----------------------------------------------------------------------------
(* Keys. *)

LEMMA KeyParts ==
  ASSUME NEW d, NEW f, NEW e, NEW g, CloudKey(d, f) = CloudKey(e, g)
  PROVE  d = e /\ BagOf(f) = BagOf(g) /\ CloudKey(d, f).det = d
BY DEF CloudKey

(* In a tree whose files hold different things a content counts once, for    *)
(* the file that holds it.                                                   *)
LEMMA CountsOnce ==
  ASSUME ContentsApart, NEW f \in Tree, NEW P \in SUBSET Source,
         \A p \in P : f[p] # Absent, NEW q \in Source, NEW v \in Holds[q]
  PROVE  BagOf(On(f, P))[v] = IF q \in P /\ f[q] = v THEN 1 ELSE 0
<1>1. \A p \in P : f[p] \in Holds[p]
  BY TreeMentions
<1>2. v \in Contents
  BY HoldsAssumption
<1> DEFINE Holders == {p \in DOMAIN On(f, P) : On(f, P)[p] = v}
<1>3. Holders = {p \in P : f[p] = v}
  BY DEF On
<1>4. BagOf(On(f, P))[v] = Cardinality(Holders)
  BY <1>2 DEF BagOf
<1>5. CASE q \in P /\ f[q] = v
  <2>1. Holders = {q}
    BY <1>1, <1>3, <1>5 DEF ContentsApart
  <2> QED BY <2>1, <1>4, <1>5, FS_Singleton
<1>6. CASE ~(q \in P /\ f[q] = v)
  <2>1. Holders = {}
    BY <1>1, <1>3, <1>6 DEF ContentsApart
  <2> QED BY <2>1, <1>4, <1>6, FS_EmptySet
<1> QED BY <1>5, <1>6

(* A key tells which files went into it, and what they held.                 *)
LEMMA KeyTellsFiles ==
  ASSUME ContentsApart, NEW f \in Tree, NEW g \in Tree,
         NEW P \in SUBSET Source, NEW Q \in SUBSET Source,
         \A p \in P : f[p] # Absent, \A p \in Q : g[p] # Absent,
         BagOf(On(f, P)) = BagOf(On(g, Q))
  PROVE  P = Q /\ \A p \in P : g[p] = f[p]
<1>1. \A p \in P : p \in Q /\ g[p] = f[p]
  <2> SUFFICES ASSUME NEW p \in P PROVE p \in Q /\ g[p] = f[p]
    OBVIOUS
  <2>1. p \in Source /\ f[p] \in Holds[p]
    BY TreeMentions
  <2>2. BagOf(On(f, P))[f[p]] = 1
    BY <2>1, CountsOnce
  <2>3. BagOf(On(g, Q))[f[p]] = IF p \in Q /\ g[p] = f[p] THEN 1 ELSE 0
    BY <2>1, CountsOnce
  <2> QED BY <2>2, <2>3
<1>2. \A p \in Q : p \in P
  <2> SUFFICES ASSUME NEW p \in Q PROVE p \in P
    OBVIOUS
  <2>1. p \in Source /\ g[p] \in Holds[p]
    BY TreeMentions
  <2>2. BagOf(On(g, Q))[g[p]] = 1
    BY <2>1, CountsOnce
  <2>3. BagOf(On(f, P))[g[p]] = IF p \in P /\ f[p] = g[p] THEN 1 ELSE 0
    BY <2>1, CountsOnce
  <2> QED BY <2>2, <2>3
<1> QED BY <1>1, <1>2

----------------------------------------------------------------------------
(* What a record, a checkout and the store always are. *)

Stages == {"idle", "hit", "run", "refused", "ended", "ran", "upload", "backfill", "fill"}
Slots == Tracked \cup Reserved

RecordOK(e) ==
  /\ e.det \in Dets
  /\ DOMAIN e.inputs \in SUBSET Source
  /\ DOMAIN e.modules \in SUBSET Extra
  /\ IF HasDepfile THEN Declared \subseteq DOMAIN e.inputs /\ DOMAIN e.modules = {}
     ELSE DOMAIN e.inputs = Declared
  /\ \A p \in DOMAIN Sources(e) : Sources(e)[p] # Absent /\ Sources(e)[p] \in Holds[p]
  /\ e.outputs = [o \in Tracked |-> e.outputs[o]]

(* A record that will be uploaded is that of the outputs that are there: the *)
(* run made them, or the backfill looked.                                    *)
OwnOK(c) ==
  /\ index[c] # NoEntry => RecordOK(index[c])
  /\ disk[c] # NoEntry => RecordOK(disk[c])
  /\ outs[c] = [o \in Tracked |-> outs[c][o]]
  /\ stage[c] \in {"hit", "upload"} => Valid(c, index[c])
  /\ stage[c] \in {"hit", "upload", "backfill", "fill"} => index[c] # NoEntry
  /\ stage[c] \in {"hit", "upload", "fill"} => Drifted(c, index[c]) = {}
  /\ stage[c] = "ran" =>
       Runnable(files[c]) /\ outs[c] = Built(det[c], files[c])

(* The file sets kept under a declared key are of files that may be found.   *)
SetsOK(x) ==
  /\ x[2] \in Slots
  /\ x[2] \in {"sets", "modules"} => blobs[x] \in Seq(SUBSET Extra)
  /\ x[2] = "paths" => blobs[x] \in SUBSET Extra

TypeOK ==
  /\ unit \in Units
  /\ det \in [Checkout -> Dets]
  /\ files \in [Checkout -> Tree]
  /\ outs = [c \in Checkout |-> outs[c]]
  /\ index = [c \in Checkout |-> index[c]]
  /\ disk = [c \in Checkout |-> disk[c]]
  /\ stage \in [Checkout -> Stages]
  /\ left \in [Checkout -> Seq(Slots)]
  /\ \A x \in DOMAIN blobs : SetsOK(x)

Shape == TypeOK /\ \A c \in Checkout : OwnOK(c)

(* What a record says was written was written by runs that ended well on     *)
(* sources of its key.                                                       *)
RecordTrue(e) == FromRuns(e.outputs, e.det, EntryKey(e))

(* An output, a log or a manifest is stored under the key of such a run.     *)
StoredTrue(x) ==
  x[2] \in Tracked \cup {"log", "manifest"} =>
    \E d \in Dets, f \in Tree :
      /\ Runnable(f) /\ x[1] = CloudKey(d, On(f, Reads(f)))
      /\ x[2] \in Tracked => blobs[x] = Product(x[2], d, On(f, Reads(f)))

OwnTrue(c) ==
  /\ index[c] # NoEntry => RecordTrue(index[c])
  /\ disk[c] # NoEntry => RecordTrue(disk[c])

Truth ==
  /\ \A c \in Checkout : OwnTrue(c)
  /\ \A x \in DOMAIN blobs : StoredTrue(x)

----------------------------------------------------------------------------
(* What the invariant says of the properties. *)

LEMMA Kinds ==
  ASSUME unit \in Units
  PROVE  /\ unit.finds \in {"nothing", "depfile", "modules"}
         /\ Observes => ~HasDepfile /\ Tracked = {}
<1>1. Observes => ToSet(Made) = {}
  BY DEF Made, ToSet
<1>2. unit.finds \in {"nothing", "depfile", "modules"}
  BY UnitsAssumption
<1>3. Observes => ~HasDepfile
  BY UnitsAssumption DEF Observes, HasDepfile
<1>4. Observes => Tracked = {}
  BY <1>1, <1>3 DEF Tracked
<1> QED BY <1>2, <1>3, <1>4

LEMMA Produces == ASSUME ~Observes PROVE Tracked # {}
<1>1. Outputs \in Seq(ToSet(Outputs)) /\ Outputs # <<>>
  BY OutputsAssumption
<1>2. Len(Outputs) \in Nat /\ Len(Outputs) # 0 /\ DOMAIN Outputs = 1..Len(Outputs)
  BY <1>1, LenProperties, EmptySeq
<1>3. 1 \in DOMAIN Outputs
  BY <1>2
<1> QED BY <1>3 DEF Tracked, Made, ToSet

(* The outputs have no reserved slot, and none of them is the depfile.       *)
LEMMA SlotsApart ==
  /\ \A o \in Tracked : o \notin Reserved
  /\ \A o \in ToSet(Outputs) : o # Depfile /\ o \notin Reserved
<1>1. \A o \in ToSet(Outputs) : o # Depfile /\ o \notin Reserved
  BY OutputsAssumption
<1>2. Depfile \notin Reserved
  BY DEF Depfile, Reserved
<1>3. ToSet(Made) \subseteq ToSet(Outputs)
  BY DEF Made, ToSet
<1> QED BY <1>1, <1>2, <1>3 DEF Tracked

(* The key of a record of the present sources is that of the files matched.  *)
LEMMA MatchedKey ==
  ASSUME Shape, NEW c \in Checkout, stage[c] = "hit"
  PROVE  /\ index[c] # NoEntry /\ index[c].det = det[c]
         /\ Sources(index[c]) = Matched(c) /\ EntryKey(index[c]) = CloudKey(det[c], Matched(c))
         /\ Declared \subseteq DOMAIN Matched(c) /\ DOMAIN Matched(c) \subseteq Source
         /\ \A p \in DOMAIN Matched(c) : files[c][p] # Absent
         /\ \A o \in Tracked : outs[c][o] = index[c].outputs[o]
         /\ outs[c] = [o \in Tracked |-> outs[c][o]]
<1> DEFINE e == index[c]
<1>1. Valid(c, e) /\ e # NoEntry /\ Drifted(c, e) = {} /\ RecordOK(e)
      /\ outs[c] = [o \in Tracked |-> outs[c][o]]
  BY DEF Shape, OwnOK
<1>2. SameSources(c, e) /\ e.det = det[c]
  BY <1>1 DEF Valid
<1>3. \A p \in DOMAIN Sources(e) : Sources(e)[p] = files[c][p]
  BY <1>2 DEF Sources, SameSources
<1>4. Sources(e) = [p \in DOMAIN Sources(e) |-> Sources(e)[p]]
  BY DEF Sources
<1>5. Sources(e) = Matched(c)
  BY <1>3, <1>4 DEF Matched, On
<1>6. DOMAIN Sources(e) = DOMAIN e.inputs \cup DOMAIN e.modules
  BY DEF Sources
<1>7. Declared \subseteq DOMAIN Sources(e) /\ DOMAIN Sources(e) \subseteq Source
  BY <1>1, <1>6 DEF RecordOK, Source
<1>8. \A p \in DOMAIN Sources(e) : files[c][p] # Absent
  BY <1>1, <1>3 DEF RecordOK
<1>9. \A o \in Tracked : outs[c][o] = e.outputs[o]
  BY <1>1 DEF Drifted
<1> QED BY <1>1, <1>2, <1>5, <1>7, <1>8, <1>9 DEF EntryKey

LEMMA InvIsFresh == Shape /\ Truth => ServedUpToKey /\ (HitsTold => HitIsFresh)
<1> SUFFICES ASSUME Shape, Truth PROVE ServedUpToKey /\ (HitsTold => HitIsFresh)
  OBVIOUS
<1>1. ASSUME NEW c \in Checkout, stage[c] = "hit"
      PROVE  FromRuns(outs[c], det[c], CloudKey(det[c], Matched(c)))
  <2>1. FromRuns(index[c].outputs, index[c].det, EntryKey(index[c]))
    BY <1>1, MatchedKey DEF Truth, OwnTrue, RecordTrue
  <2>2. /\ index[c].det = det[c] /\ EntryKey(index[c]) = CloudKey(det[c], Matched(c))
        /\ \A o \in Tracked : outs[c][o] = index[c].outputs[o]
    BY <1>1, MatchedKey
  <2>3. FromRuns(index[c].outputs, det[c], CloudKey(det[c], Matched(c)))
    BY <2>1, <2>2
  <2> QED BY <2>2, <2>3 DEF FromRuns
<1>2. ServedUpToKey
  BY <1>1, MatchedKey DEF ServedUpToKey
<1>3. ASSUME HitsTold, NEW c \in Checkout, stage[c] = "hit"
      PROVE  Runnable(files[c]) /\ outs[c] = Built(det[c], files[c])
  <2> DEFINE k == CloudKey(det[c], Matched(c))
  <2>1. FromRuns(outs[c], det[c], k) /\ Tells(det[c], k, Matched(c))
    BY <1>1, <1>3 DEF HitsTold
  <2>2. ASSUME NEW g \in RunsOf(det[c], k)
        PROVE  Runnable(files[c]) /\ On(g, Reads(g)) = On(files[c], Reads(files[c]))
    <3>1. g \in Tree /\ Runnable(g) /\ On(g, Reads(g)) = Matched(c)
      BY <2>1, <2>2 DEF RunsOf, Tells
    <3>2. \A p \in Reads(g) : files[c][p] = g[p]
      BY <3>1 DEF Matched, On
    <3>3. files[c] \in Tree
      BY DEF Shape, TypeOK
    <3> QED BY <3>1, <3>2, <3>3, SameReads
  <2> HIDE DEF k
  <2>3. Runnable(files[c])
    BY <2>1, <2>2 DEF FromRuns
  <2>4. \A o \in Tracked : outs[c][o] = Product(o, det[c], On(files[c], Reads(files[c])))
    BY <2>1, <2>2 DEF FromRuns
  <2>5. outs[c] = [o \in Tracked |-> outs[c][o]]
    BY <1>3, MatchedKey
  <2> QED BY <2>3, <2>4, <2>5 DEF Built
<1>4. HitsTold => HitIsFresh
  BY <1>3 DEF HitIsFresh
<1> QED BY <1>2, <1>4

LEMMA InvIsHonest ==
  Shape /\ Truth => RecordsUpToKey /\ HonestStore /\ (RecordsTold => Honest)
<1> SUFFICES ASSUME Shape, Truth
             PROVE  RecordsUpToKey /\ HonestStore /\ (RecordsTold => HonestRecords)
  BY DEF Honest
<1>1. RecordsUpToKey
  BY DEF RecordsUpToKey, Truth, OwnTrue, RecordTrue
<1>2. RecordsTold => HonestRecords
  <2> SUFFICES ASSUME RecordsTold, NEW c \in Checkout, NEW e \in {index[c], disk[c]} \ {NoEntry}
               PROVE  /\ Passing(Sources(e), DOMAIN Sources(e))
                      /\ \A o \in Tracked : e.outputs[o] = Product(o, e.det, Sources(e))
    BY DEF HonestRecords
  <2>1. FromRuns(e.outputs, e.det, EntryKey(e)) /\ Tells(e.det, EntryKey(e), Sources(e))
    BY <1>1 DEF RecordsUpToKey, RecordsTold
  <2>2. PICK g \in RunsOf(e.det, EntryKey(e)) : TRUE
    BY <2>1 DEF FromRuns
  <2>3. Runnable(g) /\ Sources(e) = On(g, Reads(g))
    BY <2>1, <2>2 DEF RunsOf, Tells
  <2>4. DOMAIN Sources(e) = Reads(g) /\ \A p \in Reads(g) : Sources(e)[p] = g[p]
    BY <2>3 DEF On
  <2>5. Passing(Sources(e), DOMAIN Sources(e))
    BY <2>3, <2>4 DEF Runnable, Passing
  <2>6. \A o \in Tracked : e.outputs[o] = Product(o, e.det, Sources(e))
    BY <2>1 DEF FromRuns, Tells
  <2> QED BY <2>5, <2>6
<1>3. HonestStore
  <2> SUFFICES ASSUME NEW x \in DOMAIN blobs, x[2] \in ToSet(Outputs)
               PROVE  blobs[x] # Junk /\ CloudKey(blobs[x].det, blobs[x].saw) = x[1]
    BY DEF HonestStore
  <2>1. x[2] \in Tracked
    BY SlotsApart DEF Shape, TypeOK, SetsOK, Slots
  <2>2. PICK d \in Dets, f \in Tree :
          /\ Runnable(f) /\ x[1] = CloudKey(d, On(f, Reads(f)))
          /\ blobs[x] = Product(x[2], d, On(f, Reads(f)))
    BY <2>1 DEF Truth, StoredTrue
  <2>3. blobs[x] = [of |-> x[2], det |-> d, saw |-> On(f, Reads(f))]
    BY <2>2, SlotsApart DEF Product
  <2>4. On(f, Reads(f)) \in [Reads(f) -> Contents] /\ Reads(f) \in SUBSET Source
    BY <2>2, TreeMentions, ReadsIn DEF On, Runnable, Passing
  <2>5. blobs[x] # Junk
    BY <2>2, <2>4, JunkAssumption
  <2> QED BY <2>2, <2>3, <2>5
<1> QED BY <1>1, <1>2, <1>3

(* A key tells what was read where no two files may hold the same: what the  *)
(* two properties are conditioned on holds throughout such an instance.      *)
LEMMA ApartTells ==
  ASSUME ContentsApart, NEW f \in Tree, NEW P \in SUBSET Source, NEW d,
         \A p \in P : f[p] # Absent
  PROVE  Tells(d, CloudKey(d, On(f, P)), On(f, P))
<1> SUFFICES ASSUME NEW g \in RunsOf(d, CloudKey(d, On(f, P)))
             PROVE  On(g, Reads(g)) = On(f, P)
  BY DEF Tells
<1>1. g \in Tree /\ Runnable(g) /\ CloudKey(d, On(g, Reads(g))) = CloudKey(d, On(f, P))
  BY DEF RunsOf
<1>2. BagOf(On(g, Reads(g))) = BagOf(On(f, P))
  BY <1>1, KeyParts
<1>3. Reads(g) \in SUBSET Source /\ \A p \in Reads(g) : g[p] # Absent
  BY <1>1, ReadsIn DEF Runnable, Passing
<1>4. Reads(g) = P /\ \A p \in Reads(g) : f[p] = g[p]
  BY <1>1, <1>2, <1>3, KeyTellsFiles
<1> QED BY <1>4 DEF On

LEMMA ApartTold == ContentsApart /\ Shape => HitsTold /\ RecordsTold
<1> SUFFICES ASSUME ContentsApart, Shape PROVE HitsTold /\ RecordsTold
  OBVIOUS
<1>1. ASSUME NEW c \in Checkout, stage[c] = "hit"
      PROVE  Tells(det[c], CloudKey(det[c], Matched(c)), Matched(c))
  <2> DEFINE P == DOMAIN Matched(c)
  <2>1. P \in SUBSET Source /\ \A p \in P : files[c][p] # Absent
    BY <1>1, MatchedKey
  <2>2. files[c] \in Tree /\ Matched(c) = On(files[c], P)
    BY DEF Shape, TypeOK, Matched, On
  <2> HIDE DEF P
  <2> QED BY <2>1, <2>2, ApartTells
<1>2. ASSUME NEW c \in Checkout, NEW e \in {index[c], disk[c]} \ {NoEntry}
      PROVE  Tells(e.det, EntryKey(e), Sources(e))
  <2> DEFINE P == DOMAIN Sources(e)
             f == [p \in Source |-> IF p \in P THEN Sources(e)[p] ELSE Absent]
  <2>1. RecordOK(e)
    BY DEF Shape, OwnOK
  <2>2. P \in SUBSET Source
    BY <2>1 DEF RecordOK, Sources, Source
  <2>3. \A p \in P : Sources(e)[p] # Absent /\ Sources(e)[p] \in Holds[p]
    BY <2>1 DEF RecordOK
  <2>4. \A p \in Source : f[p] \in Contents \cup {Absent} /\ f[p] \in Holds[p] \cup {Absent}
    BY <2>3, HoldsAssumption
  <2>5. f \in Tree
    BY <2>4 DEF Tree
  <2>6. Sources(e) = [p \in P |-> Sources(e)[p]]
    BY DEF Sources
  <2>7. Sources(e) = On(f, P) /\ \A p \in P : f[p] # Absent
    BY <2>2, <2>3, <2>6 DEF On
  <2> HIDE DEF P, f
  <2> QED BY <2>2, <2>5, <2>7, ApartTells DEF EntryKey
<1> QED BY <1>1, <1>2 DEF HitsTold, RecordsTold

LEMMA InvSkips == Shape => NextRunSkips
BY DEF Shape, OwnOK, NextRunSkips

(* What is put of a record names every slot a reader will ask for.           *)
LEMMA JoinedElements ==
  ASSUME NEW S, NEW s \in Seq(S), NEW t \in Seq(S)
  PROVE  s \o t \in Seq(S) /\ ToSet(s \o t) = ToSet(s) \cup ToSet(t)
<1>1. s \o t \in Seq(S) /\ ToSet(s \o t) \subseteq ToSet(s) \cup ToSet(t)
  BY ConcatProperties, LenProperties DEF ToSet
<1>2. \A i \in 1..Len(s) : (s \o t)[i] = s[i] /\ i \in 1..Len(s \o t)
  BY ConcatProperties, LenProperties
<1>3. \A i \in 1..Len(t) : (s \o t)[i + Len(s)] = t[i] /\ i + Len(s) \in 1..Len(s \o t)
  BY ConcatProperties, LenProperties
<1>4. DOMAIN s = 1..Len(s) /\ DOMAIN t = 1..Len(t) /\ DOMAIN (s \o t) = 1..Len(s \o t)
  BY <1>1, LenProperties
<1>5. ToSet(s) \subseteq ToSet(s \o t)
  BY <1>2, <1>4 DEF ToSet
<1>6. ToSet(t) \subseteq ToSet(s \o t)
  BY <1>3, <1>4 DEF ToSet
<1> QED BY <1>1, <1>5, <1>6

LEMMA PutsNamed ==
  ASSUME NEW e
  PROVE  Puts(e) \in Seq(Slots) /\ Tracked \cup {"log", "manifest"} \subseteq ToSet(Puts(e))
<1>1. Made \in Seq(Slots)
  <2>1. Outputs \in Seq(ToSet(Outputs))
    BY OutputsAssumption
  <2>2. CASE Observes
    BY <2>2 DEF Made
  <2>3. CASE ~Observes
    <3>1. Made = Outputs /\ ToSet(Outputs) \subseteq Slots
      BY <2>3 DEF Made, Slots, Tracked
    <3>2. Outputs \in Seq(Slots)
      BY <3>1, <2>1, SeqMonotonic
    <3> QED BY <3>1, <3>2
  <2> QED BY <2>2, <2>3
<1>2. DepfilePuts \in Seq(Slots) /\ (HasDepfile => Depfile \in ToSet(DepfilePuts))
  <2>1. CASE HasDepfile
    <3>1. DepfilePuts = <<Depfile, "paths", "sets">> /\ {Depfile, "paths", "sets"} \subseteq Slots
      BY <2>1 DEF DepfilePuts, Slots, Tracked, Reserved
    <3>2. DepfilePuts \in Seq(Slots) /\ DepfilePuts[1] = Depfile /\ 1 \in DOMAIN DepfilePuts
      BY <3>1
    <3> QED BY <3>2 DEF ToSet
  <2>2. CASE ~HasDepfile
    BY <2>2 DEF DepfilePuts
  <2> QED BY <2>1, <2>2
<1>3. ModulePuts(e) \in Seq(Slots)
  <2>1. "modules" \in Slots
    BY DEF Slots, Reserved
  <2>2. <<"modules">> \in Seq(Slots) /\ <<>> \in Seq(Slots)
    BY <2>1
  <2> QED BY <2>2 DEF ModulePuts
<1>4. FinalPuts \in Seq(Slots) /\ {"log", "manifest"} \subseteq ToSet(FinalPuts)
  <2>1. FinalPuts = <<"log", "manifest">> /\ {"log", "manifest"} \subseteq Slots
    BY DEF FinalPuts, Slots, Reserved
  <2>2. /\ FinalPuts \in Seq(Slots) /\ DOMAIN FinalPuts = 1..2
        /\ FinalPuts[1] = "log" /\ FinalPuts[2] = "manifest"
    BY <2>1
  <2> QED BY <2>2 DEF ToSet
<1> DEFINE a == Made \o DepfilePuts
           b == a \o ModulePuts(e)
<1>5. a \in Seq(Slots) /\ ToSet(a) = ToSet(Made) \cup ToSet(DepfilePuts)
  BY <1>1, <1>2, JoinedElements
<1> HIDE DEF a
<1>6. b \in Seq(Slots) /\ ToSet(b) = ToSet(a) \cup ToSet(ModulePuts(e))
  BY <1>5, <1>3, JoinedElements
<1>7. Puts(e) = b \o FinalPuts
  BY DEF Puts, a
<1> HIDE DEF b
<1>8. Puts(e) \in Seq(Slots) /\ ToSet(Puts(e)) = ToSet(b) \cup ToSet(FinalPuts)
  BY <1>6, <1>4, <1>7, JoinedElements
<1> QED BY <1>2, <1>4, <1>5, <1>6, <1>8 DEF Tracked

LEMMA CandidatesOK ==
  ASSUME Shape, NEW c \in Checkout
  PROVE  /\ RecordedSets(c) \in Seq(SUBSET Extra)
         /\ Candidates(c) \in Seq(SUBSET Extra)
         /\ Offered(c) \in Seq(SUBSET Extra)
<1>1. \A x \in DOMAIN blobs : SetsOK(x)
  BY DEF Shape, TypeOK
<1>2. RecordedSets(c) \in Seq(SUBSET Extra)
  <2> DEFINE k == DeclaredKey(c)
             slot == IF HasDepfile THEN "sets" ELSE "modules"
  <2>1. CASE Stored(k, slot)
    <3>1. blobs[<<k, slot>>] \in Seq(SUBSET Extra)
      BY <1>1, <2>1 DEF SetsOK, Stored
    <3> QED BY <3>1, <2>1 DEF RecordedSets
  <2>2. CASE ~Stored(k, slot) /\ HasDepfile /\ Stored(k, "paths")
    <3>1. blobs[<<k, "paths">>] \in SUBSET Extra
      BY <1>1, <2>2 DEF SetsOK, Stored
    <3>2. <<blobs[<<k, "paths">>]>> \in Seq(SUBSET Extra)
      BY <3>1
    <3> QED BY <3>2, <2>2 DEF RecordedSets
  <2>3. CASE ~Stored(k, slot) /\ ~(HasDepfile /\ Stored(k, "paths"))
    <3>1. RecordedSets(c) = <<>>
      BY <2>3 DEF RecordedSets
    <3> QED BY <3>1
  <2> QED BY <2>1, <2>2, <2>3
<1>3. Candidates(c) \in Seq(SUBSET Extra)
  <2>1. <<{}>> \in Seq(SUBSET Extra)
    OBVIOUS
  <2>2. Append(RecordedSets(c), {}) \in Seq(SUBSET Extra)
    BY <1>2, AppendProperties
  <2> QED BY <1>2, <2>1, <2>2 DEF Candidates
<1>4. Offered(c) \in Seq(SUBSET Extra)
  BY <1>3, EmptySeq DEF Offered
<1> QED BY <1>2, <1>3, <1>4

LEMMA LeastIndex ==
  ASSUME NEW I, I \subseteq Nat, I # {}
  PROVE  \E i \in I : \A j \in I : i <= j
<1>1. PICK i \in I : \A j \in I : ~ (<<j, i>> \in OpToRel(<, Nat))
  BY WFMin, NatLessThanWellFounded
<1>2. \A j \in I : ~(j < i)
  BY <1>1 DEF OpToRel
<1> QED BY <1>2

(* A record of the present sources has the key a reader composes for the     *)
(* files it names.                                                           *)
LEMMA RecordKey ==
  ASSUME Shape, NEW c \in Checkout, index[c] # NoEntry, index[c].det = det[c],
         SameSources(c, index[c])
  PROVE  /\ EntryKey(index[c]) = CandidateKey(c, Named(c))
         /\ Named(c) \subseteq Extra
         /\ \A p \in Declared \cup Named(c) : files[c][p] # Absent
<1> DEFINE e == index[c]
<1>1. RecordOK(e)
  BY DEF Shape, OwnOK
<1>2. DOMAIN Sources(e) = DOMAIN e.inputs \cup DOMAIN e.modules
  BY DEF Sources
<1>3. Declared \subseteq DOMAIN Sources(e)
  BY <1>1, <1>2 DEF RecordOK
<1>4. DOMAIN Sources(e) = Declared \cup Named(c)
  BY <1>2, <1>3 DEF Named
<1>5. \A p \in DOMAIN Sources(e) : Sources(e)[p] = files[c][p]
  BY DEF Sources, SameSources
<1>6. Sources(e) = On(files[c], Declared \cup Named(c))
  <2>1. Sources(e) = [p \in DOMAIN Sources(e) |-> Sources(e)[p]]
    BY DEF Sources
  <2> QED BY <2>1, <1>4, <1>5 DEF On
<1>7. Named(c) \subseteq Extra
  BY <1>1 DEF RecordOK, Named, Source
<1>8. \A p \in Declared \cup Named(c) : files[c][p] # Absent
  BY <1>1, <1>4, <1>5 DEF RecordOK
<1> QED BY <1>6, <1>7, <1>8 DEF EntryKey, CandidateKey

LEMMA InvServed == Shape => PublishedIsServed
<1> SUFFICES ASSUME Shape, NEW c \in Checkout, unit.sharing # "local",
                    index[c] # NoEntry, index[c].det = det[c],
                    SameSources(c, index[c]), Complete(c),
                    NEW d \in Checkout, det[d] = det[c], files[d] = files[c]
             PROVE  Servable(d)
  BY DEF PublishedIsServed
<1> DEFINE N == Named(c)
           k == CandidateKey(d, N)
           Offers == Offered(d)
<1>1. /\ EntryKey(index[c]) = k
      /\ \A p \in Declared \cup N : files[d][p] # Absent
  BY RecordKey DEF CandidateKey
<1>2. Candidates(d) = Candidates(c) /\ Offers = Candidates(c)
  <2>1. DeclaredKey(d) = DeclaredKey(c)
    BY DEF DeclaredKey
  <2>2. RecordedSets(d) = RecordedSets(c)
    BY <2>1 DEF RecordedSets
  <2> QED BY <2>2, <1>1 DEF Candidates, Offered, Asked
<1>3. PICK n \in DOMAIN Offers : Offers[n] = N
  BY <1>2 DEF Complete, ToSet
<1>4. \A slot \in Tracked \cup {"log", "manifest"} : Stored(k, slot)
  <2> SUFFICES ASSUME NEW slot \in Tracked \cup {"log", "manifest"} PROVE Stored(k, slot)
    OBVIOUS
  <2>1. PICK i \in DOMAIN Puts(index[c]) : Puts(index[c])[i] = slot
    BY PutsNamed DEF ToSet
  <2>2. slot \notin {"paths", "sets", "modules"}
    <3>1. {"paths", "sets", "modules"} \subseteq Reserved
      BY DEF Reserved
    <3>2. slot \in Tracked => slot \notin {"paths", "sets", "modules"}
      BY <3>1, SlotsApart
    <3> QED BY <3>2
  <2> QED BY <2>1, <2>2, <1>1 DEF Complete, PutKey
<1>5. Usable(d, N) /\ Serves(d, N) /\ SharedObservation(k)
  BY <1>1, <1>4 DEF Usable, Serves, SharedObservation
<1>6. DOMAIN Offers \subseteq Nat /\ DOMAIN Offers = 1..Len(Offers)
  <2>1. Offers \in Seq(SUBSET Extra)
    BY CandidatesOK
  <2> QED BY <2>1, LenProperties
<1> HIDE DEF N, k, Offers
<1>7. CASE Observes
  <2>1. Witnessed(d) # {} /\ Witnessed(d) \subseteq Nat
    BY <1>1, <1>3, <1>5, <1>6 DEF Witnessed, Offers, k
  <2>2. \E i \in Witnessed(d) : \A j \in Witnessed(d) : i <= j
    BY <2>1, LeastIndex
  <2> QED BY <2>2, <1>7 DEF Observed, Servable
<1>8. CASE ~Observes
  <2> DEFINE I == {i \in DOMAIN Offers : Serves(d, Offers[i])}
  <2>1. PICK i \in I : \A j \in I : i <= j
    BY <1>3, <1>5, <1>6, LeastIndex
  <2>2. \A j \in 1..(i - 1) : j \in DOMAIN Offers
    BY <1>6
  <2>3. i \in Tried(d)
    BY <2>1, <2>2, <1>6 DEF Tried, Offers
  <2> QED BY <2>1, <2>3, <1>8 DEF Won, Servable, Offers
<1> QED BY <1>7, <1>8

----------------------------------------------------------------------------
(* How the invariant is shown of the state after a step. *)

LEMMA SameUnit ==
  ASSUME unit' = unit
  PROVE  /\ Tracked' = Tracked /\ Slots' = Slots
         /\ Observes' = Observes /\ HasDepfile' = HasDepfile
BY DEF Slots, Tracked, Made, Observes, HasDepfile

(* The unit never changes, so what is said of a record stays so.             *)
LEMMA RecordNext ==
  ASSUME NEW e, NEW c, unit' = unit
  PROVE  /\ index'[c] = e /\ RecordOK(e) => RecordOK(index[c])'
         /\ disk'[c] = e /\ RecordOK(e) => RecordOK(disk[c])'
         /\ index'[c] = e /\ RecordTrue(e) => RecordTrue(index[c])'
         /\ disk'[c] = e /\ RecordTrue(e) => RecordTrue(disk[c])'
<1>1. \A d, k : RunsOf(d, k)' = RunsOf(d, k)
  BY DEF RunsOf, CloudKey, Runnable, Passing, Reads, Observes
<1>2. RecordTrue(e) => RecordTrue(e)'
  BY <1>1, SameUnit DEF RecordTrue, FromRuns, EntryKey, CloudKey, Sources, Reads
<1>3. RecordOK(e) => RecordOK(e)'
  BY SameUnit DEF RecordOK, Sources
<1> QED BY <1>2, <1>3

LEMMA OwnNext ==
  ASSUME NEW c \in Checkout, unit' = unit,
         NEW i, index'[c] = i, NEW k, disk'[c] = k, NEW w, outs'[c] = w,
         i # NoEntry => RecordOK(i), k # NoEntry => RecordOK(k),
         w = [o \in Tracked |-> w[o]],
         stage'[c] \in {"hit", "upload"} =>
           Valid(c, i) /\ files'[c] = files[c] /\ det'[c] = det[c],
         stage'[c] \in {"hit", "upload", "backfill", "fill"} => i # NoEntry,
         stage'[c] \in {"hit", "upload", "fill"} =>
           \A o \in Tracked : w[o] = i.outputs[o],
         stage'[c] = "ran" =>
           /\ files'[c] = files[c] /\ det'[c] = det[c]
           /\ Runnable(files[c]) /\ w = Built(det[c], files[c])
  PROVE  OwnOK(c)'
<1>1. (index[c] # NoEntry => RecordOK(index[c]))'
  BY RecordNext DEF NoEntry
<1>2. (disk[c] # NoEntry => RecordOK(disk[c]))'
  BY RecordNext DEF NoEntry
<1>3. (outs[c] = [o \in Tracked |-> outs[c][o]])'
  BY SameUnit
<1>4. (stage[c] \in {"hit", "upload"} => Valid(c, index[c]))'
  BY SameUnit DEF Valid, NoEntry, SameInputSet, SameSources
<1>5. (stage[c] \in {"hit", "upload", "backfill", "fill"} => index[c] # NoEntry)'
  BY DEF NoEntry
<1>6. (stage[c] \in {"hit", "upload", "fill"} => Drifted(c, index[c]) = {})'
  BY SameUnit DEF Drifted
<1>7. (stage[c] = "ran" => Runnable(files[c]) /\ outs[c] = Built(det[c], files[c]))'
  BY SameUnit DEF Runnable, Passing, Reads, Built, Observes
<1> QED BY <1>1, <1>2, <1>3, <1>4, <1>5, <1>6, <1>7 DEF OwnOK

LEMMA OwnTrueNext ==
  ASSUME NEW c \in Checkout, unit' = unit,
         NEW i, index'[c] = i, NEW k, disk'[c] = k,
         i # NoEntry => RecordTrue(i), k # NoEntry => RecordTrue(k)
  PROVE  OwnTrue(c)'
<1>1. (index[c] # NoEntry => RecordTrue(index[c]))'
  BY RecordNext DEF NoEntry
<1>2. (disk[c] # NoEntry => RecordTrue(disk[c]))'
  BY RecordNext DEF NoEntry
<1> QED BY <1>1, <1>2 DEF OwnTrue

(* A step leaves the checkouts it does not act in as they are.               *)
Untouched(d) ==
  /\ det'[d] = det[d] /\ files'[d] = files[d] /\ outs'[d] = outs[d]
  /\ index'[d] = index[d] /\ disk'[d] = disk[d] /\ stage'[d] = stage[d]

LEMMA UntouchedOK ==
  ASSUME Shape, NEW d \in Checkout, unit' = unit, Untouched(d)
  PROVE  OwnOK(d)'
<1>1. OwnOK(d)
  BY DEF Shape
<1>2. PICK i, k, w : index[d] = i /\ disk[d] = k /\ outs[d] = w
  OBVIOUS
<1>3. index'[d] = i /\ disk'[d] = k /\ outs'[d] = w
  BY <1>2 DEF Untouched
<1>4. /\ i # NoEntry => RecordOK(i)
      /\ k # NoEntry => RecordOK(k)
      /\ w = [o \in Tracked |-> w[o]]
  BY <1>1, <1>2 DEF OwnOK
<1>5. stage'[d] \in {"hit", "upload"} =>
        Valid(d, i) /\ files'[d] = files[d] /\ det'[d] = det[d]
  BY <1>1, <1>2 DEF OwnOK, Untouched
<1>6. /\ stage'[d] \in {"hit", "upload", "backfill", "fill"} => i # NoEntry
      /\ stage'[d] \in {"hit", "upload", "fill"} =>
           \A o \in Tracked : w[o] = i.outputs[o]
  BY <1>1, <1>2 DEF OwnOK, Untouched, Drifted
<1>7. stage'[d] = "ran" =>
        /\ files'[d] = files[d] /\ det'[d] = det[d]
        /\ Runnable(files[d]) /\ w = Built(det[d], files[d])
  BY <1>1, <1>2 DEF OwnOK, Untouched
<1> QED BY <1>3, <1>4, <1>5, <1>6, <1>7, OwnNext

LEMMA UntouchedTrue ==
  ASSUME NEW d \in Checkout, unit' = unit, Untouched(d), OwnTrue(d)
  PROVE  OwnTrue(d)'
<1>2. PICK i, k : index[d] = i /\ disk[d] = k
  OBVIOUS
<1>3. index'[d] = i /\ disk'[d] = k
  BY <1>2 DEF Untouched
<1>4. /\ i # NoEntry => RecordTrue(i)
      /\ k # NoEntry => RecordTrue(k)
  BY <1>2 DEF OwnTrue
<1> QED BY <1>3, <1>4, OwnTrueNext

(* What is stored stays true while the store does not change.                *)
LEMMA StoreKept ==
  ASSUME unit' = unit, NEW x, blobs'[x] = blobs[x]
  PROVE  StoredTrue(x) => StoredTrue(x)'
BY SameUnit DEF StoredTrue, Runnable, Passing, Reads, Observes

(* What a step of c makes of its run. *)
Becomes(c, i, k, w, st, l) ==
  /\ unit' = unit /\ det' = det /\ files' = files
  /\ index' = [index EXCEPT ![c] = i]
  /\ disk' = [disk EXCEPT ![c] = k]
  /\ outs' = [outs EXCEPT ![c] = w]
  /\ stage' = [stage EXCEPT ![c] = st]
  /\ left' = [left EXCEPT ![c] = l]

LEMMA Same ==
  ASSUME Shape, NEW c \in Checkout
  PROVE  /\ index = [index EXCEPT ![c] = index[c]]
         /\ disk = [disk EXCEPT ![c] = disk[c]]
         /\ outs = [outs EXCEPT ![c] = outs[c]]
         /\ stage = [stage EXCEPT ![c] = stage[c]]
         /\ left = [left EXCEPT ![c] = left[c]]
         /\ stage[c] \in Stages /\ left[c] \in Seq(Slots)
         /\ OwnOK(c)
BY DEF Shape, TypeOK

LEMMA BecomesAt ==
  ASSUME Shape, NEW c \in Checkout, NEW i, NEW k, NEW w, NEW st, NEW l,
         Becomes(c, i, k, w, st, l)
  PROVE  /\ index'[c] = i /\ disk'[c] = k /\ outs'[c] = w
         /\ stage'[c] = st /\ left'[c] = l
         /\ \A d \in Checkout : d # c => Untouched(d)
BY DEF Shape, TypeOK, Becomes, Untouched

LEMMA ShapeKept ==
  ASSUME Shape, NEW c \in Checkout, NEW i, NEW k, NEW w, NEW st \in Stages,
         NEW l \in Seq(Slots), Becomes(c, i, k, w, st, l),
         \A x \in DOMAIN blobs' : SetsOK(x)',
         i # NoEntry => RecordOK(i), k # NoEntry => RecordOK(k),
         w = [o \in Tracked |-> w[o]],
         st \in {"hit", "upload"} => Valid(c, i),
         st \in {"hit", "upload", "backfill", "fill"} => i # NoEntry,
         st \in {"hit", "upload", "fill"} => \A o \in Tracked : w[o] = i.outputs[o],
         st = "ran" => Runnable(files[c]) /\ w = Built(det[c], files[c])
  PROVE  Shape'
<1>1. TypeOK'
  <2>1. Slots' = Slots
    BY SameUnit DEF Becomes
  <2>2. (unit \in Units /\ det \in [Checkout -> Dets] /\ files \in [Checkout -> Tree])'
    BY DEF Shape, TypeOK, Becomes
  <2>3. /\ (outs = [d \in Checkout |-> outs[d]])'
        /\ (index = [d \in Checkout |-> index[d]])'
        /\ (disk = [d \in Checkout |-> disk[d]])'
    BY DEF Shape, TypeOK, Becomes
  <2>4. (stage \in [Checkout -> Stages] /\ left \in [Checkout -> Seq(Slots)])'
    BY <2>1 DEF Shape, TypeOK, Becomes
  <2> QED BY <2>2, <2>3, <2>4 DEF TypeOK
<1>2. unit' = unit /\ det' = det /\ files' = files
  BY DEF Becomes
<1>3. OwnOK(c)'
  BY <1>2, BecomesAt, OwnNext
<1>4. \A d \in Checkout : d # c => OwnOK(d)'
  BY <1>2, BecomesAt, UntouchedOK
<1> QED BY <1>1, <1>3, <1>4 DEF Shape

LEMMA TruthKept ==
  ASSUME Shape, Truth, NEW c \in Checkout, NEW i, NEW k, NEW w, NEW st, NEW l,
         Becomes(c, i, k, w, st, l),
         \A x \in DOMAIN blobs' : StoredTrue(x)',
         i # NoEntry => RecordTrue(i), k # NoEntry => RecordTrue(k)
  PROVE  Truth'
<1>1. unit' = unit /\ det' = det /\ files' = files
  BY DEF Becomes
<1>2. OwnTrue(c)'
  BY <1>1, BecomesAt, OwnTrueNext
<1>3. \A d \in Checkout : d # c => OwnTrue(d)'
  BY <1>1, BecomesAt, UntouchedTrue DEF Truth
<1> QED BY <1>2, <1>3 DEF Truth

LEMMA StoreSame ==
  ASSUME Shape, unit' = unit, blobs' = blobs
  PROVE  /\ \A x \in DOMAIN blobs' : SetsOK(x)'
         /\ Truth => \A x \in DOMAIN blobs' : StoredTrue(x)'
<1>1. \A x \in DOMAIN blobs' : SetsOK(x)'
  BY SameUnit DEF Shape, TypeOK, SetsOK
<1>2. Truth => \A x \in DOMAIN blobs' : StoredTrue(x)'
  BY StoreKept DEF Truth
<1> QED BY <1>1, <1>2

(* What an action has to show. *)
Kept == Shape' /\ (Truth => Truth')

(* A step to a stage that asks nothing of the outputs. *)
LEMMA OutputsStep ==
  ASSUME Shape, NEW c \in Checkout, NEW st \in Stages \ {"hit", "upload", "fill", "ran"},
         NEW w, w = [o \in Tracked |-> w[o]], NEW l \in Seq(Slots),
         NEW i, i \in {index[c], disk[c]},
         NEW k, k \in {index[c], disk[c]},
         st = "backfill" => i # NoEntry,
         Becomes(c, i, k, w, st, l), blobs' = blobs
  PROVE  Kept
<1>1. /\ i # NoEntry => RecordOK(i)
      /\ k # NoEntry => RecordOK(k)
  BY Same DEF OwnOK
<1>2. Truth => (i # NoEntry => RecordTrue(i)) /\ (k # NoEntry => RecordTrue(k))
  BY DEF Truth, OwnTrue
<1>3. unit' = unit
  BY DEF Becomes
<1>4. Shape'
  BY <1>1, <1>3, StoreSame, ShapeKept
<1>5. Truth => Truth'
  BY <1>2, <1>3, StoreSame, TruthKept
<1> QED BY <1>4, <1>5 DEF Kept

----------------------------------------------------------------------------
(* The cache check. *)

(* The outputs w are those of the unit, and no others. *)
Whole(w) == w = [o \in Tracked |-> w[o]]

(* e is a valid record of the present sources, with D beside the declared. *)
Describes(e, c, D, w) ==
  /\ e # NoEntry /\ RecordOK(e) /\ Valid(c, e)
  /\ Sources(e) = On(files[c], Declared \cup D)
  /\ e.outputs = w /\ e.det = det[c]

LEMMA EntryOK ==
  ASSUME Shape, NEW c \in Checkout, NEW D \in SUBSET Extra,
         \A p \in Declared \cup D : files[c][p] # Absent,
         NEW w, Whole(w), NEW b, NEW e, e = Entry(c, D, w, b)
  PROVE  Describes(e, c, D, w)
<1> DEFINE ins == On(files[c], IF HasDepfile THEN Declared \cup D ELSE Declared)
           mods == On(files[c], IF HasDepfile THEN {} ELSE D)
<1>1. /\ e.det = det[c] /\ e.inputs = ins /\ e.modules = mods /\ e.outputs = w
      /\ e # NoEntry
  <2>1. e = [det |-> det[c], inputs |-> ins, modules |-> mods, outputs |-> w, observed |-> b]
    BY DEF Entry
  <2>2. "det" \in DOMAIN e /\ "det" \notin DOMAIN NoEntry
    BY <2>1 DEF NoEntry
  <2> QED BY <2>1, <2>2
<1>2. /\ DOMAIN e.inputs = IF HasDepfile THEN Declared \cup D ELSE Declared
      /\ DOMAIN e.modules = IF HasDepfile THEN {} ELSE D
      /\ \A p \in DOMAIN e.inputs : e.inputs[p] = files[c][p]
      /\ \A p \in DOMAIN e.modules : e.modules[p] = files[c][p]
  BY <1>1 DEF On
<1>3. DOMAIN e.inputs \cup DOMAIN e.modules = Declared \cup D
  BY <1>2
<1>4. Sources(e) = On(files[c], Declared \cup D)
  BY <1>2, <1>3 DEF Sources, On
<1>5. /\ DOMAIN Sources(e) = Declared \cup D
      /\ \A p \in Declared \cup D : Sources(e)[p] # Absent /\ Sources(e)[p] \in Holds[p]
  <2>1. files[c] \in Tree /\ Declared \cup D \subseteq Source
    BY DEF Shape, TypeOK, Source
  <2> QED BY <1>4, <2>1, TreeMentions DEF On
<1>6. det[c] \in Dets
  BY DEF Shape, TypeOK
<1>7. RecordOK(e)
  <2>1. DOMAIN e.inputs \in SUBSET Source /\ DOMAIN e.modules \in SUBSET Extra
    BY <1>2 DEF Source
  <2>2. IF HasDepfile THEN Declared \subseteq DOMAIN e.inputs /\ DOMAIN e.modules = {}
        ELSE DOMAIN e.inputs = Declared
    BY <1>2
  <2>3. e.outputs = [o \in Tracked |-> e.outputs[o]] /\ e.det \in Dets
    BY <1>1, <1>6 DEF Whole
  <2> QED BY <2>1, <2>2, <2>3, <1>5 DEF RecordOK
<1>8. Valid(c, e)
  <2>1. SameInputSet(e)
    BY <1>2 DEF SameInputSet
  <2>2. SameSources(c, e)
    BY <1>2 DEF SameSources
  <2>3. DOMAIN e.outputs = Tracked
    BY <1>1 DEF Whole
  <2> QED BY <1>1, <2>1, <2>2, <2>3 DEF Valid
<1> QED BY <1>1, <1>4, <1>7, <1>8 DEF Describes

(* What is stored under a key was made by a run on sources of that key.      *)
LEMMA StoredFromRun ==
  ASSUME Truth, NEW d, NEW P, NEW f, NEW k, k = CloudKey(d, On(f, P)),
         NEW slot \in Tracked \cup {"log", "manifest"}, Stored(k, slot)
  PROVE  \E g \in RunsOf(d, k) :
           slot \in Tracked => blobs[<<k, slot>>] = Product(slot, d, On(g, Reads(g)))
<1> DEFINE x == <<k, slot>>
<1>1. x \in DOMAIN blobs /\ x[1] = k /\ x[2] = slot
  BY DEF Stored
<1>2. StoredTrue(x)
  BY <1>1 DEF Truth
<1>3. PICK b \in Dets, g \in Tree :
        /\ Runnable(g) /\ k = CloudKey(b, On(g, Reads(g)))
        /\ slot \in Tracked => blobs[x] = Product(slot, b, On(g, Reads(g)))
  BY <1>1, <1>2 DEF StoredTrue
<1>4. b = d
  <2>1. CloudKey(b, On(g, Reads(g))) = CloudKey(d, On(f, P))
    BY <1>3
  <2> QED BY <2>1, KeyParts
<1>5. g \in RunsOf(d, k)
  BY <1>3, <1>4 DEF RunsOf
<1> QED BY <1>3, <1>4, <1>5

(* The record of what was stored under the key a checkout composes is true.  *)
LEMMA FetchedTrue ==
  ASSUME Truth, NEW c \in Checkout, NEW D, NEW e, NEW some \in Tracked \cup {"manifest"},
         e.det = det[c], Sources(e) = On(files[c], Declared \cup D),
         \A o \in Tracked \cup {some} : Stored(CandidateKey(c, D), o),
         \A o \in Tracked : e.outputs[o] = blobs[<<CandidateKey(c, D), o>>]
  PROVE  RecordTrue(e)
<1> DEFINE k == CandidateKey(c, D)
<1>1. k = CloudKey(det[c], On(files[c], Declared \cup D)) /\ EntryKey(e) = k
  BY DEF CandidateKey, EntryKey
<1> HIDE DEF k
<1>2. \A o \in Tracked \cup {some} :
        \E g \in RunsOf(det[c], k) :
          o \in Tracked => blobs[<<k, o>>] = Product(o, det[c], On(g, Reads(g)))
  BY <1>1, StoredFromRun DEF k
<1>3. RunsOf(det[c], k) # {}
  BY <1>2
<1>4. \A o \in Tracked :
        \E g \in RunsOf(det[c], k) : e.outputs[o] = Product(o, det[c], On(g, Reads(g)))
  BY <1>2 DEF k
<1> QED BY <1>1, <1>3, <1>4 DEF RecordTrue, FromRuns

(* The record of files a run of the present sources reads, and of what it    *)
(* wrote, is true.                                                           *)
LEMMA EntryTrue ==
  ASSUME Shape, NEW c \in Checkout, NEW e, Runnable(files[c]), e.det = det[c],
         Sources(e) = On(files[c], Reads(files[c])),
         \A o \in Tracked : e.outputs[o] = Product(o, det[c], On(files[c], Reads(files[c])))
  PROVE  RecordTrue(e)
<1> DEFINE g == files[c]
<1>1. g \in Tree
  BY DEF Shape, TypeOK
<1>2. EntryKey(e) = CloudKey(det[c], On(g, Reads(g)))
  BY DEF EntryKey
<1>3. g \in RunsOf(det[c], EntryKey(e))
  BY <1>1, <1>2 DEF RunsOf
<1> QED BY <1>3 DEF RecordTrue, FromRuns

LEMMA WonFacts ==
  ASSUME Shape, NEW c \in Checkout, NEW D \in Won(c)
  PROVE  /\ D \in SUBSET Extra
         /\ \A p \in Declared \cup D : files[c][p] # Absent
         /\ \A o \in Tracked : Stored(CandidateKey(c, D), o)
         /\ \A o \in Tracked : Fetched(c)[o] = blobs[<<CandidateKey(c, D), o>>]
<1>1. PICK i \in Tried(c) : Serves(c, Offered(c)[i]) /\ D = Offered(c)[i]
  BY DEF Won
<1>2. Offered(c) \in Seq(SUBSET Extra)
  BY CandidatesOK
<1>3. /\ i \in DOMAIN Offered(c) /\ DOMAIN Offered(c) = 1..Len(Offered(c))
      /\ Len(Offered(c)) \in Nat
  BY <1>1, <1>2, LenProperties DEF Tried
<1>4. D \in SUBSET Extra
  BY <1>1, <1>2, <1>3, ElementOfSeq
<1>5. Asked(c)
  <2>1. Offered(c) # <<>>
    BY <1>3
  <2> QED BY <2>1 DEF Offered
<1>6. \A p \in Declared \cup D : files[c][p] # Absent
  BY <1>1, <1>5 DEF Serves, Usable, Asked
<1>7. \A o \in Tracked : Stored(CandidateKey(c, D), o)
  BY <1>1 DEF Serves
<1>8. \A j \in Tried(c) : i >= j
  <2> SUFFICES ASSUME NEW j \in Tried(c) PROVE i >= j
    OBVIOUS
  <2>1. j \in Nat /\ i \in Nat /\ i >= 1
    BY <1>3 DEF Tried
  <2>2. \A n \in 1..(j - 1) : ~Serves(c, Offered(c)[n])
    BY DEF Tried
  <2>3. i \notin 1..(j - 1)
    BY <1>1, <2>2
  <2> QED BY <2>1, <2>3
<1>9. \A o \in Tracked : Fetched(c)[o] = blobs[<<CandidateKey(c, D), o>>]
  <2> SUFFICES ASSUME NEW o \in Tracked
               PROVE  Fetched(c)[o] = blobs[<<CandidateKey(c, D), o>>]
    OBVIOUS
  <2> DEFINE from == {j \in Tried(c) : Restores(c, j, o)}
  <2>1. i \in from
    BY <1>1, <1>7 DEF Serves, Restores
  <2>2. \A j \in from : i >= j /\ j \in Nat
    BY <1>3, <1>8 DEF Tried
  <2>3. Max(from) = i
    BY <2>1, <2>2 DEF Max
  <2>4. Fetched(c)[o] = blobs[<<CandidateKey(c, Offered(c)[Max(from)]), o>>]
    BY <2>1 DEF Fetched
  <2> QED BY <1>1, <2>3, <2>4
<1> QED BY <1>4, <1>6, <1>7, <1>9

LEMMA SkipOrRepairKept ==
  ASSUME Shape, NEW c \in Checkout, SkipOrRepair(c) PROVE Kept
<1> DEFINE i == index[c]
           k == disk[c]
           w == AfterRestore(c)
<1>1. Becomes(c, i, k, w, "hit", left[c]) /\ unit' = unit /\ blobs' = blobs
  BY Same DEF SkipOrRepair, Becomes, world
<1>2. Valid(c, i) /\ w = i.outputs
  BY DEF SkipOrRepair, LocallyServed
<1>3. i # NoEntry /\ RecordOK(i) /\ (k # NoEntry => RecordOK(k))
  BY <1>2, Same DEF OwnOK, Valid
<1>4. w = [o \in Tracked |-> w[o]]
  BY <1>2, <1>3 DEF RecordOK
<1>5. "hit" \in Stages /\ left[c] \in Seq(Slots)
  BY Same DEF Stages
<1>6. Truth => RecordTrue(i) /\ (k # NoEntry => RecordTrue(k))
  BY <1>3 DEF Truth, OwnTrue
<1> HIDE DEF i, k, w
<1>7. Shape'
  BY <1>1, <1>2, <1>3, <1>4, <1>5, StoreSame, ShapeKept
<1>8. Truth => Truth'
  BY <1>1, <1>6, StoreSame, TruthKept
<1> QED BY <1>7, <1>8 DEF Kept

LEMMA FetchHitKept ==
  ASSUME Shape, NEW c \in Checkout, FetchHit(c) PROVE Kept
<1>1. PICK D \in Won(c) :
        index' = [index EXCEPT ![c] =
                    Entry(c, D, Fetched(c), Stored(CandidateKey(c, D), "manifest"))]
  BY DEF FetchHit
<1> DEFINE w == Fetched(c)
           i == Entry(c, D, w, Stored(CandidateKey(c, D), "manifest"))
           k == disk[c]
<1>2. Becomes(c, i, k, w, "hit", left[c]) /\ unit' = unit /\ blobs' = blobs
  BY <1>1, Same DEF FetchHit, Becomes, world
<1>3. /\ D \in SUBSET Extra
      /\ \A p \in Declared \cup D : files[c][p] # Absent
      /\ \A o \in Tracked : Stored(CandidateKey(c, D), o)
      /\ \A o \in Tracked : w[o] = blobs[<<CandidateKey(c, D), o>>]
  BY WonFacts
<1>4. w = [o \in Tracked |-> w[o]]
  BY DEF Fetched
<1>5. /\ i # NoEntry /\ RecordOK(i) /\ Valid(c, i)
      /\ Sources(i) = On(files[c], Declared \cup D)
      /\ i.outputs = w /\ i.det = det[c]
  <2> HIDE DEF w
  <2>1. PICK b : b = Stored(CandidateKey(c, D), "manifest")
    OBVIOUS
  <2>2. i = Entry(c, D, w, b)
    BY <2>1
  <2>3. Whole(w)
    BY <1>4 DEF Whole
  <2> HIDE DEF i
  <2>4. Describes(i, c, D, w)
    BY <1>3, <2>2, <2>3, EntryOK
  <2> QED BY <2>4 DEF Describes
<1>6. k # NoEntry => RecordOK(k)
  BY Same DEF OwnOK
<1>7. "hit" \in Stages /\ left[c] \in Seq(Slots)
  BY Same DEF Stages
<1>8. ~Observes
  BY DEF FetchHit
<1> HIDE DEF i, k, w
<1>9. Truth => RecordTrue(i)
  <2>1. PICK some \in Tracked : TRUE
    BY <1>8, Produces
  <2>2. \A o \in Tracked \cup {some} : Stored(CandidateKey(c, D), o)
    BY <1>3, <2>1
  <2>3. \A o \in Tracked : i.outputs[o] = blobs[<<CandidateKey(c, D), o>>]
    BY <1>3, <1>5
  <2> QED BY <1>5, <2>1, <2>2, <2>3, FetchedTrue
<1>10. Truth => (k # NoEntry => RecordTrue(k))
  BY DEF Truth, OwnTrue, k
<1>11. Shape'
  BY <1>2, <1>4, <1>5, <1>6, <1>7, StoreSame, ShapeKept
<1>12. Truth => Truth'
  BY <1>2, <1>9, <1>10, StoreSame, TruthKept
<1> QED BY <1>11, <1>12 DEF Kept

LEMMA MissKept == ASSUME Shape, NEW c \in Checkout, Miss(c) PROVE Kept
<1> DEFINE st == IF unit.sharing = "pinned" THEN "refused" ELSE "run"
           w == Fetched(c)
<1>1. Becomes(c, index[c], disk[c], w, st, left[c]) /\ blobs' = blobs
  BY Same DEF Miss, Becomes, world
<1>2. st \in Stages \ {"hit", "upload", "fill", "ran"} /\ left[c] \in Seq(Slots)
  BY Same DEF Stages
<1>3. w = [o \in Tracked |-> w[o]]
  BY DEF Fetched
<1>4. st # "backfill"
  OBVIOUS
<1> HIDE DEF st, w
<1> QED BY <1>1, <1>2, <1>3, <1>4, OutputsStep

LEMMA VerdictKeptKept == ASSUME Shape, NEW c \in Checkout, VerdictKept(c) PROVE Kept
<1> DEFINE i == index[c]
           k == disk[c]
           w == outs[c]
<1>1. Becomes(c, i, k, w, "hit", left[c]) /\ unit' = unit /\ blobs' = blobs
  BY Same DEF VerdictKept, Becomes, world
<1>2. Valid(c, i) /\ Tracked = {}
  BY Kinds DEF VerdictKept, Shape, TypeOK
<1>3. i # NoEntry /\ RecordOK(i) /\ (k # NoEntry => RecordOK(k))
      /\ w = [o \in Tracked |-> w[o]]
  BY <1>2, Same DEF OwnOK, Valid
<1>4. "hit" \in Stages /\ left[c] \in Seq(Slots)
  BY Same DEF Stages
<1>5. Truth => RecordTrue(i) /\ (k # NoEntry => RecordTrue(k))
  BY <1>3 DEF Truth, OwnTrue
<1> HIDE DEF i, k, w
<1>6. Shape'
  BY <1>1, <1>2, <1>3, <1>4, StoreSame, ShapeKept
<1>7. Truth => Truth'
  BY <1>1, <1>5, StoreSame, TruthKept
<1> QED BY <1>6, <1>7 DEF Kept

LEMMA VerdictFetchedKept == ASSUME Shape, NEW c \in Checkout, VerdictFetched(c) PROVE Kept
<1>1. PICK D \in Observed(c) : index' = [index EXCEPT ![c] = Entry(c, D, outs[c], TRUE)]
  BY DEF VerdictFetched
<1> DEFINE w == outs[c]
           i == Entry(c, D, w, TRUE)
           k == disk[c]
<1>2. Becomes(c, i, k, w, "hit", left[c]) /\ unit' = unit /\ blobs' = blobs
  BY <1>1, Same DEF VerdictFetched, Becomes, world
<1>3. Tracked = {}
  BY Kinds DEF VerdictFetched, Shape, TypeOK
<1>4. /\ D \in SUBSET Extra
      /\ \A p \in Declared \cup D : files[c][p] # Absent
      /\ Stored(CandidateKey(c, D), "manifest")
  <2>1. PICK n \in DOMAIN Offered(c) :
          /\ D = Offered(c)[n] /\ \A p \in D : files[c][p] # Absent
          /\ Stored(CandidateKey(c, D), "manifest")
    BY DEF Observed, Witnessed, SharedObservation
  <2>2. Offered(c) \in Seq(SUBSET Extra)
    BY CandidatesOK
  <2>3. n \in 1..Len(Offered(c)) /\ Offered(c) # <<>>
    BY <2>2, LenProperties
  <2>4. D \in SUBSET Extra
    BY <2>1, <2>2, <2>3, ElementOfSeq
  <2>5. Asked(c)
    BY <2>3 DEF Offered
  <2> QED BY <2>1, <2>4, <2>5 DEF Asked
<1>5. w = [o \in Tracked |-> w[o]] /\ (k # NoEntry => RecordOK(k))
  BY Same DEF OwnOK
<1>6. /\ i # NoEntry /\ RecordOK(i) /\ Valid(c, i)
      /\ Sources(i) = On(files[c], Declared \cup D)
      /\ i.outputs = w /\ i.det = det[c]
  <2> HIDE DEF w
  <2>1. PICK b : b = TRUE
    OBVIOUS
  <2>2. i = Entry(c, D, w, b)
    BY <2>1
  <2>3. Whole(w)
    BY <1>5 DEF Whole
  <2> HIDE DEF i
  <2>4. Describes(i, c, D, w)
    BY <1>4, <2>2, <2>3, EntryOK
  <2> QED BY <2>4 DEF Describes
<1>7. "hit" \in Stages /\ left[c] \in Seq(Slots)
  BY Same DEF Stages
<1> HIDE DEF i, k, w
<1>8. Truth => RecordTrue(i)
  <2>1. PICK some : some = "manifest"
    OBVIOUS
  <2>2. some \in Tracked \cup {"manifest"}
    BY <2>1
  <2>3. \A o \in Tracked \cup {some} : Stored(CandidateKey(c, D), o)
    BY <1>3, <1>4, <2>1
  <2>4. \A o \in Tracked : i.outputs[o] = blobs[<<CandidateKey(c, D), o>>]
    BY <1>3
  <2> QED BY <1>6, <2>2, <2>3, <2>4, FetchedTrue
<1>9. Truth => (k # NoEntry => RecordTrue(k))
  BY DEF Truth, OwnTrue, k
<1>10. Shape'
  BY <1>2, <1>3, <1>5, <1>6, <1>7, StoreSame, ShapeKept
<1>11. Truth => Truth'
  BY <1>2, <1>8, <1>9, StoreSame, TruthKept
<1> QED BY <1>10, <1>11 DEF Kept

LEMMA RunSoughtKept ==
  ASSUME Shape, NEW c \in Checkout, VerdictSought(c) \/ Rerun(c) PROVE Kept
<1>1. Becomes(c, index[c], disk[c], outs[c], "run", left[c]) /\ blobs' = blobs
  BY Same DEF VerdictSought, Rerun, Becomes, world
<1>2. "run" \in Stages \ {"hit", "upload", "fill", "ran"} /\ left[c] \in Seq(Slots)
  BY Same DEF Stages
<1>3. outs[c] = [o \in Tracked |-> outs[c][o]]
  BY Same DEF OwnOK
<1> QED BY <1>1, <1>2, <1>3, OutputsStep

----------------------------------------------------------------------------
(* The run of the command, its record and the end of the run. *)

LEMMA TornWhole ==
  ASSUME Shape, NEW c \in Checkout, NEW w \in Torn(c)
  PROVE  w = [o \in Tracked |-> w[o]]
<1>1. outs[c] = [o \in Tracked |-> outs[c][o]]
  BY Same DEF OwnOK
<1> QED BY <1>1 DEF Torn

LEMMA FailKept == ASSUME Shape, NEW c \in Checkout, Fail(c) PROVE Kept
<1>1. PICK w \in Torn(c) : outs' = [outs EXCEPT ![c] = w]
  BY DEF Fail
<1>2. Becomes(c, index[c], disk[c], w, "ended", left[c]) /\ blobs' = blobs
  BY <1>1, Same DEF Fail, Becomes, world
<1>3. "ended" \in Stages \ {"hit", "upload", "fill", "ran"} /\ left[c] \in Seq(Slots)
  BY Same DEF Stages
<1>4. w = [o \in Tracked |-> w[o]]
  BY TornWhole
<1> QED BY <1>2, <1>3, <1>4, OutputsStep

LEMMA ExecuteKept == ASSUME Shape, NEW c \in Checkout, Execute(c) PROVE Kept
<1> DEFINE i == index[c]
           k == disk[c]
           w == Built(det[c], files[c])
<1>1. Becomes(c, i, k, w, "ran", left[c]) /\ unit' = unit /\ blobs' = blobs
  BY Same DEF Execute, Becomes, world
<1>2. Runnable(files[c]) /\ w = [o \in Tracked |-> w[o]]
  BY DEF Execute, Built
<1>3. (i # NoEntry => RecordOK(i)) /\ (k # NoEntry => RecordOK(k))
  BY Same DEF OwnOK
<1>4. "ran" \in Stages /\ left[c] \in Seq(Slots)
  BY Same DEF Stages
<1>5. Truth => (i # NoEntry => RecordTrue(i)) /\ (k # NoEntry => RecordTrue(k))
  BY DEF Truth, OwnTrue
<1>6. w = Built(det[c], files[c])
  OBVIOUS
<1> HIDE DEF i, k, w
<1>7. Shape'
  BY <1>1, <1>2, <1>3, <1>4, <1>6, StoreSame, ShapeKept
<1>8. Truth => Truth'
  BY <1>1, <1>5, StoreSame, TruthKept
<1> QED BY <1>7, <1>8 DEF Kept

LEMMA RecordKept == ASSUME Shape, NEW c \in Checkout, Record(c) PROVE Kept
<1> DEFINE D == Reads(files[c]) \ Declared
           w == outs[c]
           i == Entry(c, D, w, TRUE)
           k == disk[c]
           l == IF Publishes(c) THEN Puts(i) ELSE <<>>
<1>1. Becomes(c, i, k, w, "upload", l) /\ unit' = unit /\ blobs' = blobs
  BY Same DEF Record, Becomes, world
<1>2. Runnable(files[c]) /\ w = Built(det[c], files[c]) /\ w = [o \in Tracked |-> w[o]]
  BY Same DEF OwnOK, Record
<1>3. D \in SUBSET Extra /\ Declared \cup D = Reads(files[c])
  BY ReadsIn DEF Source
<1>4. \A p \in Declared \cup D : files[c][p] # Absent
  BY <1>2, <1>3 DEF Runnable, Passing
<1>5. "upload" \in Stages /\ l \in Seq(Slots)
  BY PutsNamed, EmptySeq DEF Stages
<1>6. Describes(i, c, D, w)
  <2>1. PICK b : b = TRUE
    OBVIOUS
  <2>2. i = Entry(c, D, w, b) /\ Whole(w)
    BY <1>2, <2>1 DEF Whole
  <2> HIDE DEF i, w, D
  <2> QED BY <1>3, <1>4, <2>2, EntryOK
<1>7. \A o \in Tracked : w[o] = Product(o, det[c], On(files[c], Reads(files[c])))
  BY <1>2 DEF Built
<1>8. (k # NoEntry => RecordOK(k)) /\ (Truth => (k # NoEntry => RecordTrue(k)))
  BY Same DEF OwnOK, Truth, OwnTrue
<1> HIDE DEF i, k, w, l, D
<1>9. /\ i # NoEntry /\ RecordOK(i) /\ Valid(c, i) /\ i.outputs = w /\ i.det = det[c]
      /\ Sources(i) = On(files[c], Reads(files[c]))
  BY <1>3, <1>6 DEF Describes
<1>10. RecordTrue(i)
  BY <1>2, <1>7, <1>9, EntryTrue
<1>11. Shape'
  BY <1>1, <1>2, <1>5, <1>8, <1>9, StoreSame, ShapeKept
<1>12. Truth => Truth'
  BY <1>1, <1>8, <1>10, StoreSame, TruthKept
<1> QED BY <1>11, <1>12 DEF Kept

LEMMA FlushKept == ASSUME Shape, NEW c \in Checkout, Flush(c) PROVE Kept
<1> DEFINE st == IF stage[c] = "hit" /\ Publishes(c) THEN "backfill" ELSE "idle"
<1>1. Becomes(c, index[c], index[c], outs[c], st, left[c]) /\ blobs' = blobs
  BY Same DEF Flush, Becomes, world, Shape, TypeOK
<1>2. st \in Stages \ {"hit", "upload", "fill", "ran"} /\ left[c] \in Seq(Slots)
  BY Same DEF Stages
<1>3. outs[c] = [o \in Tracked |-> outs[c][o]] /\ (st = "backfill" => index[c] # NoEntry)
  BY Same DEF OwnOK
<1> HIDE DEF st
<1> QED BY <1>1, <1>2, <1>3, OutputsStep

LEMMA BackfillKept == ASSUME Shape, NEW c \in Checkout, Backfill(c) PROVE Kept
<1> DEFINE i == index[c]
           k == disk[c]
           w == outs[c]
<1>1. /\ i # NoEntry /\ RecordOK(i) /\ (k # NoEntry => RecordOK(k))
      /\ w = [o \in Tracked |-> w[o]]
  BY Same DEF OwnOK, Backfill
<1>2. CASE LacksUpload(c)
  <2> DEFINE l == Puts(index[c])
  <2>1. Becomes(c, i, k, w, "fill", l) /\ unit' = unit /\ blobs' = blobs
    BY <1>2, Same DEF Backfill, Becomes, world
  <2>2. "fill" \in Stages /\ l \in Seq(Slots)
    BY PutsNamed DEF Stages
  <2>3. \A o \in Tracked : w[o] = i.outputs[o]
    BY <1>2 DEF LacksUpload, Drifted
  <2>4. Truth => RecordTrue(i) /\ (k # NoEntry => RecordTrue(k))
    BY <1>1 DEF Truth, OwnTrue
  <2> HIDE DEF i, k, w, l
  <2>5. Shape'
    BY <1>1, <2>1, <2>2, <2>3, StoreSame, ShapeKept
  <2>6. Truth => Truth'
    BY <2>1, <2>4, StoreSame, TruthKept
  <2> QED BY <2>5, <2>6 DEF Kept
<1>3. CASE ~LacksUpload(c)
  <2>1. Becomes(c, index[c], disk[c], outs[c], "idle", left[c]) /\ blobs' = blobs
    BY <1>3, Same DEF Backfill, Becomes, world
  <2>2. "idle" \in Stages \ {"hit", "upload", "fill", "ran"} /\ left[c] \in Seq(Slots)
    BY Same DEF Stages
  <2> QED BY <1>1, <2>1, <2>2, OutputsStep
<1> QED BY <1>2, <1>3

LEMMA BackfillEndsKept == ASSUME Shape, NEW c \in Checkout, BackfillEnds(c) PROVE Kept
<1>1. Becomes(c, index[c], disk[c], outs[c], "idle", left[c]) /\ blobs' = blobs
  BY Same DEF BackfillEnds, Becomes, world
<1>2. "idle" \in Stages \ {"hit", "upload", "fill", "ran"} /\ left[c] \in Seq(Slots)
  BY Same DEF Stages
<1>3. outs[c] = [o \in Tracked |-> outs[c][o]]
  BY Same DEF OwnOK
<1> QED BY <1>1, <1>2, <1>3, OutputsStep

----------------------------------------------------------------------------
(* What happens from outside. *)

LEMMA DamageKept == ASSUME Shape, NEW c \in Checkout, Damage(c) PROVE Kept
<1>1. PICK o \in Tracked, v \in {Absent, Junk} : outs' = [outs EXCEPT ![c][o] = v]
  BY DEF Damage
<1> DEFINE w == [outs[c] EXCEPT ![o] = v]
<1>2. outs[c] = [p \in Tracked |-> outs[c][p]]
  BY Same DEF OwnOK
<1>3. w = [p \in Tracked |-> w[p]]
  BY <1>2
<1>4. outs' = [outs EXCEPT ![c] = w]
  BY <1>1
<1>5. Becomes(c, index[c], disk[c], w, stage[c], left[c]) /\ blobs' = blobs
  BY <1>4, Same DEF Damage, Becomes, world
<1>6. stage[c] \in Stages \ {"hit", "upload", "fill", "ran"} /\ left[c] \in Seq(Slots)
  BY Same DEF Damage
<1>7. stage[c] = "backfill" => index[c] # NoEntry
  BY Same DEF OwnOK
<1> HIDE DEF w
<1> QED BY <1>3, <1>5, <1>6, <1>7, OutputsStep

LEMMA KillKept == ASSUME Shape, NEW c \in Checkout, Kill(c) PROVE Kept
<1>1. PICK w : /\ w \in Torn(c) \cup {outs[c]}
               /\ outs' = [outs EXCEPT ![c] = w]
  BY DEF Kill
<1>2. w = [o \in Tracked |-> w[o]]
  BY <1>1, TornWhole, Same DEF OwnOK
<1>3. Becomes(c, disk[c], disk[c], w, "idle", <<>>) /\ blobs' = blobs
  BY <1>1, Same DEF Kill, Becomes, world
<1>4. "idle" \in Stages \ {"hit", "upload", "fill", "ran"} /\ <<>> \in Seq(Slots)
  BY EmptySeq DEF Stages
<1> QED BY <1>2, <1>3, <1>4, OutputsStep

LEMMA EditKept == ASSUME Shape, NEW c \in Checkout, Edit(c) PROVE Kept
<1>1. /\ unit' = unit /\ outs' = outs /\ index' = index /\ disk' = disk
      /\ stage' = stage /\ left' = left /\ blobs' = blobs /\ stage[c] = "idle"
  BY DEF Edit, run
<1>2. /\ det' \in [Checkout -> Dets] /\ files' \in [Checkout -> Tree]
      /\ \A d \in Checkout : d # c => det'[d] = det[d] /\ files'[d] = files[d]
  <2>1. det \in [Checkout -> Dets] /\ files \in [Checkout -> Tree]
    BY DEF Shape, TypeOK
  <2>2. CASE \E p \in Source : \E v \in (Holds[p] \cup {Absent}) \ {files[c][p]} :
               files' = [files EXCEPT ![c][p] = v] /\ UNCHANGED det
    <3>1. PICK p \in Source :
            \E v \in Holds[p] \cup {Absent} :
              files' = [files EXCEPT ![c][p] = v] /\ det' = det
      BY <2>2
    <3>2. PICK v \in Holds[p] \cup {Absent} :
            files' = [files EXCEPT ![c][p] = v] /\ det' = det
      BY <3>1
    <3> DEFINE f == [files[c] EXCEPT ![p] = v]
    <3>3. f \in Tree
      <4>1. files[c] \in Tree /\ v \in Contents \cup {Absent}
        BY <2>1, HoldsAssumption
      <4> QED BY <4>1 DEF Tree
    <3>4. files' = [files EXCEPT ![c] = f]
      BY <3>2
    <3> HIDE DEF f
    <3> QED BY <2>1, <3>2, <3>3, <3>4
  <2>3. CASE \E d \in Dets \ {det[c]} : det' = [det EXCEPT ![c] = d] /\ UNCHANGED files
    BY <2>1, <2>3
  <2> QED BY <2>2, <2>3 DEF Edit
<1>3. \A d \in Checkout : d # c => Untouched(d)
  BY <1>1, <1>2 DEF Untouched
<1>4. OwnOK(c)'
  <2>1. PICK i, k, w : index[c] = i /\ disk[c] = k /\ outs[c] = w
    OBVIOUS
  <2>2. /\ i # NoEntry => RecordOK(i)
        /\ k # NoEntry => RecordOK(k)
        /\ w = [o \in Tracked |-> w[o]]
    BY <2>1, Same DEF OwnOK
  <2>3. index'[c] = i /\ disk'[c] = k /\ outs'[c] = w /\ stage'[c] = "idle"
    BY <1>1, <2>1
  <2> QED BY <1>1, <2>2, <2>3, OwnNext
<1>5. TypeOK'
  BY <1>1, <1>2, StoreSame, SameUnit DEF Shape, TypeOK
<1>6. Shape'
  BY <1>1, <1>3, <1>4, <1>5, UntouchedOK DEF Shape
<1>7. Truth => Truth'
  <2> SUFFICES ASSUME Truth PROVE Truth'
    OBVIOUS
  <2>1. PICK i, k : index[c] = i /\ disk[c] = k
    OBVIOUS
  <2>2. (i # NoEntry => RecordTrue(i)) /\ (k # NoEntry => RecordTrue(k))
    BY <2>1 DEF Truth, OwnTrue
  <2>3. index'[c] = i /\ disk'[c] = k
    BY <1>1, <2>1
  <2>4. OwnTrue(c)'
    BY <1>1, <2>2, <2>3, OwnTrueNext
  <2>5. \A d \in Checkout : d # c => OwnTrue(d)'
    BY <1>1, <1>3, UntouchedTrue DEF Truth
  <2> QED BY <1>1, <2>4, <2>5, StoreSame DEF Truth
<1> QED BY <1>6, <1>7 DEF Kept

LEMMA EvictKept == ASSUME Shape, Evict PROVE Kept
<1>1. /\ unit' = unit /\ det' = det /\ files' = files /\ outs' = outs /\ index' = index
      /\ disk' = disk /\ stage' = stage /\ left' = left
  BY DEF Evict, world, run
<1>2. \A x \in DOMAIN blobs' : x \in DOMAIN blobs /\ blobs'[x] = blobs[x]
  BY DEF Evict
<1>3. \A d \in Checkout : Untouched(d)
  BY <1>1 DEF Untouched
<1>4. TypeOK'
  <2>1. \A x \in DOMAIN blobs' : SetsOK(x)'
    BY <1>1, <1>2, SameUnit DEF Shape, TypeOK, SetsOK
  <2> QED BY <1>1, <2>1, SameUnit DEF Shape, TypeOK
<1>5. Shape'
  BY <1>1, <1>3, <1>4, UntouchedOK DEF Shape
<1>6. Truth => Truth'
  BY <1>1, <1>2, <1>3, UntouchedTrue, StoreKept DEF Truth
<1> QED BY <1>5, <1>6 DEF Kept

----------------------------------------------------------------------------
(* The upload. *)

LEMMA PutRefusedKept == ASSUME Shape, NEW c \in Checkout, PutRefused(c) PROVE Kept
<1> DEFINE i == index[c]
           k == disk[c]
           w == outs[c]
           st == stage[c]
<1>1. Becomes(c, i, k, w, st, <<>>) /\ unit' = unit /\ blobs' = blobs
  BY Same DEF PutRefused, Becomes, world
<1>2. st \in Stages /\ <<>> \in Seq(Slots) /\ st # "ran"
  BY Same, EmptySeq DEF PutRefused
<1>3. /\ i # NoEntry => RecordOK(i)
      /\ k # NoEntry => RecordOK(k)
      /\ w = [o \in Tracked |-> w[o]]
      /\ st \in {"hit", "upload"} => Valid(c, i)
      /\ st \in {"hit", "upload", "backfill", "fill"} => i # NoEntry
      /\ st \in {"hit", "upload", "fill"} => \A o \in Tracked : w[o] = i.outputs[o]
  BY Same DEF OwnOK, Drifted
<1>4. Truth => (i # NoEntry => RecordTrue(i)) /\ (k # NoEntry => RecordTrue(k))
  BY DEF Truth, OwnTrue
<1> HIDE DEF i, k, w, st
<1>5. Shape'
  BY <1>1, <1>2, <1>3, StoreSame, ShapeKept
<1>6. Truth => Truth'
  BY <1>1, <1>4, StoreSame, TruthKept
<1> QED BY <1>5, <1>6 DEF Kept

(* The remembered sets with one moved to the front.                          *)
LEMMA RemoveFirstIn ==
  ASSUME NEW S, NEW s \in Seq(S), NEW e
  PROVE  RemoveFirst(s, e) \in Seq(S)
<1>1. CASE ~ \E i \in 1..Len(s) : s[i] = e
  BY <1>1 DEF RemoveFirst
<1>2. CASE \E i \in 1..Len(s) : s[i] = e
  <2> DEFINE I == {i \in 1..Len(s) : s[i] = e}
  <2>1. Len(s) \in Nat
    BY LenProperties
  <2>2. I \subseteq Nat /\ I # {}
    BY <1>2, <2>1
  <2> HIDE DEF I
  <2>3. PICK i \in I : \A j \in I : i <= j
    BY <2>2, LeastIndex
  <2> USE DEF I
  <2>4. Min(I) = i
    BY <2>1, <2>3 DEF Min
  <2>5. RemoveFirst(s, e) = RemoveAt(s, i)
    BY <1>2, <2>4 DEF RemoveFirst, SelectInSeq
  <2> DEFINE a == SubSeq(s, 1, i - 1)
             b == SubSeq(s, i + 1, Len(s))
  <2>6. i \in 1..Len(s)
    OBVIOUS
  <2>7. a \in Seq(S)
    BY <2>1, <2>6, SubSeqProperties
  <2>8. b \in Seq(S)
    BY <2>1, <2>6, SubSeqProperties
  <2>9. a \o b \in Seq(S)
    BY <2>7, <2>8, ConcatProperties
  <2> QED BY <2>5, <2>9 DEF RemoveAt
<1> QED BY <1>1, <1>2

(* What a put adds is of its slot, and true when the record is.              *)
LEMMA PutAdds ==
  ASSUME Shape, NEW c \in Checkout, stage[c] \in {"upload", "fill"},
         NEW slot \in Slots,
         unit' = unit, blobs' = With(blobs, <<PutKey(c, slot), slot>>, PutBytes(c, slot))
  PROVE  /\ \A x \in DOMAIN blobs' : SetsOK(x)'
         /\ Truth => \A x \in DOMAIN blobs' : StoredTrue(x)'
<1> DEFINE y == <<PutKey(c, slot), slot>>
           bytes == PutBytes(c, slot)
           e == index[c]
<1>1. /\ DOMAIN blobs' = DOMAIN blobs \cup {y} /\ blobs'[y] = bytes
      /\ \A x \in DOMAIN blobs : x # y => blobs'[x] = blobs[x]
      /\ y[2] = slot /\ y[1] = PutKey(c, slot)
  BY DEF With
<1>2. /\ e # NoEntry /\ RecordOK(e)
      /\ \A o \in Tracked : outs[c][o] = e.outputs[o]
  BY Same DEF OwnOK, Drifted
<1>3. Named(c) \in SUBSET Extra
  BY <1>2 DEF Named, RecordOK, Source
<1>4. /\ slot \in {"sets", "modules"} => bytes \in Seq(SUBSET Extra)
      /\ slot = "paths" => bytes \in SUBSET Extra
  <2>1. CASE slot \in {"sets", "modules"}
    <3>1. RemoveFirst(RecordedSets(c), Named(c)) \in Seq(SUBSET Extra)
      BY CandidatesOK, RemoveFirstIn
    <3>2. <<Named(c)>> \in Seq(SUBSET Extra)
      BY <1>3
    <3>3. <<Named(c)>> \o RemoveFirst(RecordedSets(c), Named(c)) \in Seq(SUBSET Extra)
      BY <3>1, <3>2, ConcatProperties
    <3> QED BY <2>1, <3>3 DEF PutBytes
  <2>2. CASE slot = "paths"
    BY <2>2, <1>3 DEF PutBytes
  <2> QED BY <2>1, <2>2
<1>5. \A x \in DOMAIN blobs : SetsOK(x) /\ (Truth => StoredTrue(x))
  BY DEF Shape, TypeOK, Truth
<1>6. Truth /\ slot \in Tracked \cup {"log", "manifest"} =>
        \E d \in Dets, f \in Tree :
          /\ Runnable(f) /\ y[1] = CloudKey(d, On(f, Reads(f)))
          /\ slot \in Tracked => bytes = Product(slot, d, On(f, Reads(f)))
  <2> SUFFICES ASSUME Truth, slot \in Tracked \cup {"log", "manifest"}
               PROVE  \E d \in Dets, f \in Tree :
                        /\ Runnable(f) /\ y[1] = CloudKey(d, On(f, Reads(f)))
                        /\ slot \in Tracked => bytes = Product(slot, d, On(f, Reads(f)))
    OBVIOUS
  <2>1. FromRuns(e.outputs, e.det, EntryKey(e))
    BY <1>2 DEF Truth, OwnTrue, RecordTrue
  <2>2. /\ slot \notin {"paths", "sets", "modules"}
        /\ slot \in Tracked => slot \notin {"log", "manifest"}
    <3>1. {"paths", "sets", "modules", "log", "manifest"} = Reserved
      BY DEF Reserved
    <3>2. slot \in Tracked => slot \notin Reserved
      BY SlotsApart
    <3> QED BY <3>1, <3>2
  <2>3. PICK g \in RunsOf(e.det, EntryKey(e)) :
          slot \in Tracked => e.outputs[slot] = Product(slot, e.det, On(g, Reads(g)))
    BY <2>1 DEF FromRuns
  <2>4. y[1] = EntryKey(e)
    BY <1>1, <2>2 DEF PutKey
  <2>5. slot \in Tracked => bytes = e.outputs[slot]
    BY <1>2, <2>2 DEF PutBytes
  <2>6. e.det \in Dets
    BY <1>2 DEF RecordOK
  <2>7. g \in Tree /\ Runnable(g) /\ EntryKey(e) = CloudKey(e.det, On(g, Reads(g)))
    BY <2>3 DEF RunsOf
  <2> QED BY <2>3, <2>4, <2>5, <2>6, <2>7
<1> HIDE DEF y, bytes, e
<1>7. \A x \in DOMAIN blobs' : SetsOK(x)'
  <2> SUFFICES ASSUME NEW x \in DOMAIN blobs' PROVE SetsOK(x)'
    OBVIOUS
  <2>1. CASE x = y
    BY <2>1, <1>1, <1>4, SameUnit DEF SetsOK
  <2>2. CASE x # y
    BY <2>2, <1>1, <1>5, SameUnit DEF SetsOK
  <2> QED BY <2>1, <2>2
<1>8. ASSUME Truth, NEW x \in DOMAIN blobs' PROVE StoredTrue(x)'
  <2>1. CASE x = y
    <3>1. PICK bb : bb = blobs'[y]
      OBVIOUS
    <3>2. y[2] \in Tracked \cup {"log", "manifest"} =>
            \E d \in Dets, f \in Tree :
              /\ Runnable(f) /\ y[1] = CloudKey(d, On(f, Reads(f)))
              /\ y[2] \in Tracked => blobs'[y] = Product(y[2], d, On(f, Reads(f)))
      BY <1>1, <1>6, <1>8
    <3> QED BY <2>1, <3>2, SameUnit DEF StoredTrue, Runnable, Passing, Reads, Observes
  <2>2. CASE x # y
    BY <2>2, <1>1, <1>5, <1>8, StoreKept
  <2> QED BY <2>1, <2>2
<1> QED BY <1>7, <1>8

LEMMA PutKept == ASSUME Shape, NEW c \in Checkout, Put(c) PROVE Kept
<1> DEFINE i == index[c]
           k == disk[c]
           w == outs[c]
           st == stage[c]
           slot == Head(left[c])
<1>1. st \in Stages /\ left[c] \in Seq(Slots) /\ left[c] # <<>> /\ st \in {"upload", "fill"}
  BY Same DEF Put
<1>2. slot \in Slots /\ Tail(left[c]) \in Seq(Slots) /\ <<>> \in Seq(Slots)
  BY <1>1, HeadTailProperties, EmptySeq
<1>3. PICK l \in Seq(Slots) : left' = [left EXCEPT ![c] = l]
  BY <1>2 DEF Put
<1>4. Becomes(c, i, k, w, st, l) /\ unit' = unit
  BY <1>3, Same DEF Put, Becomes, world
<1>5. /\ \A x \in DOMAIN blobs' : SetsOK(x)'
      /\ Truth => \A x \in DOMAIN blobs' : StoredTrue(x)'
  <2>1. \/ blobs' = blobs
        \/ blobs' = With(blobs, <<PutKey(c, slot), slot>>, PutBytes(c, slot))
    BY DEF Put
  <2>2. CASE blobs' = blobs
    BY <1>4, <2>2, StoreSame
  <2>3. CASE blobs' = With(blobs, <<PutKey(c, slot), slot>>, PutBytes(c, slot))
    BY <1>1, <1>2, <1>4, <2>3, PutAdds
  <2> QED BY <2>1, <2>2, <2>3
<1>6. /\ i # NoEntry => RecordOK(i)
      /\ k # NoEntry => RecordOK(k)
      /\ w = [o \in Tracked |-> w[o]]
      /\ st \in {"hit", "upload"} => Valid(c, i)
      /\ st \in {"hit", "upload", "backfill", "fill"} => i # NoEntry
      /\ st \in {"hit", "upload", "fill"} => \A o \in Tracked : w[o] = i.outputs[o]
  BY Same DEF OwnOK, Drifted
<1>7. Truth => (i # NoEntry => RecordTrue(i)) /\ (k # NoEntry => RecordTrue(k))
  BY DEF Truth, OwnTrue
<1>8. st # "ran"
  BY <1>1
<1> HIDE DEF i, k, w, st
<1>9. Shape'
  BY <1>1, <1>4, <1>5, <1>6, <1>8, ShapeKept
<1>10. Truth => Truth'
  BY <1>4, <1>5, <1>7, TruthKept
<1> QED BY <1>9, <1>10 DEF Kept

----------------------------------------------------------------------------
(* The theorems. *)

LEMMA InitKept == Init => Shape /\ Truth
<1> SUFFICES ASSUME Init PROVE Shape /\ Truth
  OBVIOUS
<1>1. TypeOK
  <2>1. files \in [Checkout -> Tree]
    <3>1. \A f \in [Source -> Contents] : (\A p \in Source : f[p] \in Holds[p]) => f \in Tree
      BY DEF Tree
    <3> QED BY <3>1 DEF Init
  <2>2. unit \in Units /\ det \in [Checkout -> Dets] /\ DOMAIN blobs = {}
    BY DEF Init
  <2>3. /\ outs = [c \in Checkout |-> outs[c]]
        /\ index = [c \in Checkout |-> index[c]]
        /\ disk = [c \in Checkout |-> disk[c]]
    BY DEF Init
  <2>4. stage \in [Checkout -> Stages]
    BY DEF Init, Stages
  <2>5. left \in [Checkout -> Seq(Slots)]
    BY EmptySeq DEF Init
  <2> QED BY <2>1, <2>2, <2>3, <2>4, <2>5 DEF TypeOK
<1>2. \A c \in Checkout : OwnOK(c)
  BY DEF Init, OwnOK
<1>3. Truth
  BY DEF Init, Truth, OwnTrue
<1> QED BY <1>1, <1>2, <1>3 DEF Shape

LEMMA NextKept == Shape /\ [Next]_vars => Kept
<1> SUFFICES ASSUME Shape, [Next]_vars PROVE Kept
  OBVIOUS
<1>1. CASE UNCHANGED vars
  <2>1. unit' = unit /\ det' = det /\ files' = files /\ outs' = outs /\ index' = index
        /\ disk' = disk /\ stage' = stage /\ left' = left /\ blobs' = blobs
    BY <1>1 DEF vars, world, run
  <2>2. \A d \in Checkout : Untouched(d)
    BY <2>1 DEF Untouched
  <2>3. TypeOK'
    BY <2>1, StoreSame, SameUnit DEF Shape, TypeOK
  <2>4. Shape'
    BY <2>1, <2>2, <2>3, UntouchedOK DEF Shape
  <2>5. Truth => Truth'
    BY <2>1, <2>2, UntouchedTrue, StoreSame DEF Truth
  <2> QED BY <2>4, <2>5 DEF Kept
<1>2. ASSUME NEW c \in Checkout, Steps(c) PROVE Kept
  BY <1>2, SkipOrRepairKept, FetchHitKept, MissKept, VerdictKeptKept, VerdictFetchedKept,
     RunSoughtKept, FailKept, ExecuteKept, RecordKept, PutKept, PutRefusedKept, FlushKept,
     BackfillKept, BackfillEndsKept
     DEF Steps
<1>3. ASSUME NEW c \in Checkout, Edit(c) \/ Damage(c) \/ Kill(c) PROVE Kept
  BY <1>3, EditKept, DamageKept, KillKept
<1>4. CASE Evict
  BY <1>4, EvictKept
<1> QED BY <1>1, <1>2, <1>3, <1>4 DEF Next

(* Records name what was there when they were made and are valid after the   *)
(* step that made them, an upload is made of the outputs that its record     *)
(* names, and a command that ended well left what it should.                 *)
THEOREM ShapeInvariance == Spec => []Shape
<1>1. Shape /\ [Next]_vars => Shape'
  BY NextKept DEF Kept
<1> QED BY <1>1, InitKept, PTL DEF Spec

(* A run that recorded, by executing or by fetching, is followed by a skip.  *)
THEOREM NextRunSkipsCorrect == Spec => []NextRunSkips
BY ShapeInvariance, InvSkips, PTL

(* What is published in full is found by every checkout of the same sources: *)
(* publisher and reader compose the same keys (entry_cloud_key, fetch_by_key *)
(* and check_observing_node).                                                *)
THEOREM PublishedIsServedCorrect == Spec => []PublishedIsServed
BY ShapeInvariance, InvServed, PTL

(* Every record and every stored output is that of a run that ended well on  *)
(* sources of the very key it has, whatever is edited, damaged, killed,      *)
(* refused or evicted, and whenever.                                         *)
THEOREM TruthInvariance == Spec => [](Shape /\ Truth)
<1>1. Shape /\ Truth /\ [Next]_vars => (Shape /\ Truth)'
  BY NextKept DEF Kept
<1> QED BY <1>1, InitKept, PTL DEF Spec

(* The outputs a record names were made by runs of the record's own key, and *)
(* so was what the store holds; and while no record has a key that other     *)
(* sources also have, every record tells just what happened.  Exchange what  *)
(* two files hold and the key is the same (compute_entry_cloud_key drops the *)
(* paths, check.rs:1197): then a record may tell of the sources before.      *)
THEOREM HonestCorrect == Spec => [](RecordsUpToKey /\ HonestStore /\ (RecordsTold => Honest))
BY TruthInvariance, InvIsHonest, PTL

(* A hit, by skip, repair or fetch, was made by runs of the very key that    *)
(* the matched files have, and a test is not run again only if some run of   *)
(* that key passed; and while no hit is under a key that other sources have  *)
(* as well, it leaves what running the command would leave, and a test that  *)
(* is not run would have passed.                                             *)
THEOREM HitIsFreshCorrect == Spec => [](ServedUpToKey /\ (HitsTold => HitIsFresh))
BY TruthInvariance, InvIsFresh, PTL

============================================================================
