------------------------------ MODULE Workspace ------------------------------
(***************************************************************************)
(* From a directory to a registered workspace: cook-plan/src/entry.rs,     *)
(* workspace.rs and registers.rs.  An invocation finds its Cookfile and    *)
(* its workspace root, loads the imports of that Cookfile, works out what  *)
(* the request reaches, and registers the members one after another,       *)
(* importees first, merging what each registers under a qualified name.    *)
(* What happens inside one member's pass is Register.tla; here a pass is   *)
(* one step, which runs the bodies that module lets run.                   *)
(* A directory is the sequence of its segments, a qualified name the       *)
(* sequence of its dotted ones; symlinks and ".." are resolved already.    *)
(***************************************************************************)
EXTENDS Integers, Sequences, FiniteSets, SequencesExt

CONSTANTS
  Layouts,     \* the file trees under study, with the request made in each
  NoDir,       \* no --root, no inferred root
  NoTarget     \* a member that owns no part of the request

(* An import of a Cookfile: at is a directory, or what follows // when it is *)
(* a sigil import.  A recipe requires references as written; its body reads  *)
(* others, and forces recipes of its own Cookfile (cook.require_recipe).     *)
(* static says that the parser sees it, otherwise a module call registers it.*)
(* outs are literal output paths, relative to the member.                    *)
Import == [alias : STRING, at : Seq(STRING), sigil : BOOLEAN]

Recipe ==
  [name : STRING, chore : BOOLEAN, static : BOOLEAN, requires : SUBSET Seq(STRING),
   reads : SUBSET Seq(STRING), forces : SUBSET STRING, outs : SUBSET STRING]

LayoutsShape ==
  \A l \in Layouts :
    /\ \A d \in DOMAIN l.cookfiles :
         /\ \A i \in DOMAIN l.cookfiles[d].imports : l.cookfiles[d].imports[i] \in Import
         /\ \A r \in l.cookfiles[d].recipes :
              /\ DOMAIN r = {"name", "chore", "static", "requires", "reads", "forces", "outs"}
              /\ r.forces \subseteq {s.name : s \in l.cookfiles[d].recipes}
    /\ l.mode \in {"dispatch", "introspect", "enumerate"}

ASSUME LayoutsAssumption == LayoutsShape
ASSUME NoDirAssumption == \A l \in Layouts : NoDir \notin DOMAIN l.cookfiles

VARIABLES
  layout,      \* the tree and the request, fixed
  phase,       \* "enter", "load", "seed", "order", "register", "check", "done" or why it failed
  entry,       \* the directory of the entry Cookfile (workspace.root.dir)
  root,        \* workspace.workspace_root
  stack,       \* the walk in progress: <<directory, imports looked at>>, innermost first
  visited,     \* directories the walk has entered
  loaded,      \* Workspace::imports
  nsmap,       \* namespace_map
  order,       \* the registration order, as far as it is computed, then what is left
  seeds,       \* reachable_by_prefix, as qualified names
  names,       \* RegisteredWorkspace.names, with what each unit writes; of the requires
               \*   of a name, added are those that are not written but made by its body
  terminal     \* the shared terminal outputs: the qualified names recorded

vars == <<layout, phase, entry, root, stack, visited, loaded, nsmap, order, seeds, names, terminal>>

----------------------------------------------------------------------------
(* entry.rs.                                                                 *)
HasCookfile(d) == d \in DOMAIN layout.cookfiles

Exists(d) == \E c \in DOMAIN layout.cookfiles : IsPrefix(d, c)

(* A directory and its parents, innermost first. *)
Upwards(d) == [i \in 1..(Len(d) + 1) |-> SubSeq(d, 1, Len(d) + 1 - i)]

Bounded(d) == d \in layout.markers \/ d = layout.override

(* discover_entry_cookfile: the nearest Cookfile, the boundary included.     *)
EntryOf(start) ==
  LET up == Upwards(start)
      hits == {i \in DOMAIN up : HasCookfile(up[i]) /\ \A j \in 1..(i - 1) : ~Bounded(up[j])}
  IN IF hits = {} \/ (layout.override # NoDir /\ ~IsPrefix(layout.override, start))
     THEN NoDir ELSE up[CHOOSE i \in hits : \A j \in hits : i <= j]

Imports(d) == IF HasCookfile(d) THEN layout.cookfiles[d].imports ELSE <<>>

TargetDir(imp, anchor) == IF imp.sigil THEN anchor \o imp.at ELSE imp.at

Grow(from, next(_)) ==
  LET grown[k \in 0..Cardinality(DOMAIN layout.cookfiles)] ==
        IF k = 0 THEN from ELSE grown[k - 1] \cup UNION {next(d) : d \in grown[k - 1]}
  IN grown[Cardinality(DOMAIN layout.cookfiles)]

TreeTargets(d) == {i.at : i \in {j \in Range(Imports(d)) : ~j.sigil}}
TreeReach(d) == Grow({d}, TreeTargets)

(* cookfile_transitively_imports_via_tree *)
TreeImports(d, target) == \E c \in TreeReach(d) : target \in TreeTargets(c)

(* all_reachable_sigils_resolve_under: of every import, not only the sigils, *)
(* the target must be there.                                                 *)
ResolvesUnder(d) ==
  LET targets(c) == {TargetDir(i, d) : i \in Range(Imports(c))}
  IN \A c \in Grow({d}, targets) : \A t \in targets(c) : Exists(t)

(* Variant: the candidate's own imports are not looked at. *)
EnclosingUnchecked(dir) ==
  {d \in Range(Tail(Upwards(dir))) : HasCookfile(d) /\ TreeImports(d, dir)}

Enclosing(dir) ==
  {d \in Range(Tail(Upwards(dir))) :
     HasCookfile(d) /\ TreeImports(d, dir) /\ ResolvesUnder(d)}

(* first_reachable_sigil_import *)
UsesSigil(dir) == \E c \in TreeReach(dir) : \E i \in Range(Imports(c)) : i.sigil

(* resolve_workspace_root: --root, the nearest marker, the highest enclosing *)
(* Cookfile that imports the entry, the entry itself.                        *)
MarkerOf(dir) ==
  LET up == Upwards(dir)  hits == {i \in DOMAIN up : up[i] \in layout.markers}
  IN IF hits = {} THEN NoDir ELSE up[CHOOSE i \in hits : \A j \in hits : i <= j]

Inferred(dir) == layout.override = NoDir /\ MarkerOf(dir) = NoDir

RootOf(dir) ==
  IF layout.override # NoDir
  THEN IF IsPrefix(layout.override, dir) THEN layout.override ELSE NoDir
  ELSE IF MarkerOf(dir) # NoDir THEN MarkerOf(dir)
  ELSE IF Enclosing(dir) # {}
  THEN CHOOSE d \in Enclosing(dir) : \A o \in Enclosing(dir) : Len(d) <= Len(o)
  ELSE IF UsesSigil(dir) THEN NoDir ELSE dir

Enter ==
  /\ phase = "enter"
  /\ entry' = EntryOf(layout.start)
  /\ root' = IF entry' = NoDir THEN NoDir ELSE RootOf(entry')
  /\ IF root' = NoDir
     THEN phase' = "unanchored" /\ UNCHANGED <<stack, visited>>
     ELSE phase' = "load" /\ stack' = <<<<entry', 0>>>> /\ visited' = {entry'}
  /\ UNCHANGED <<layout, loaded, nsmap, order, seeds, names, terminal>>

----------------------------------------------------------------------------
(* Workspace::load_imports.  A directory is in imports when all it imports   *)
(* is loaded; one that was entered and is not there is being loaded.         *)
TopDir == stack[1][1]
Looked == stack[1][2]
NextImport == Imports(TopDir)[Looked + 1]
NextDir == TargetDir(NextImport, root)
Advanced == <<<<TopDir, Looked + 1>>>> \o Tail(stack)

(* Variant: a directory seen before is taken for a loaded one. *)
AgainAnyway(d) == d \in visited

Again(d) == d \in loaded

LoadImport ==
  /\ phase = "load"
  /\ Looked < Len(Imports(TopDir))
  /\ IF ~Exists(NextDir) \/ (NextImport.sigil /\ ~IsPrefix(root, NextDir))
     THEN phase' = "nodir" /\ UNCHANGED <<stack, visited, nsmap>>
     ELSE /\ nsmap' = Append(nsmap, <<TopDir, NextImport.alias, NextDir>>)
          /\ CASE Again(NextDir) ->
                    phase' = phase /\ stack' = Advanced /\ UNCHANGED visited
               [] ~Again(NextDir) /\ NextDir \in visited ->
                    phase' = "circular" /\ UNCHANGED <<stack, visited>>
               [] NextDir \notin visited /\ ~HasCookfile(NextDir) ->
                    phase' = "nofile" /\ UNCHANGED <<stack, visited>>
               [] NextDir \notin visited /\ HasCookfile(NextDir) ->
                    /\ phase' = phase
                    /\ stack' = <<<<NextDir, 0>>>> \o Advanced
                    /\ visited' = visited \cup {NextDir}
  /\ UNCHANGED <<layout, entry, root, loaded, order, seeds, names, terminal>>

LoadDone ==
  /\ phase = "load"
  /\ Looked = Len(Imports(TopDir))
  /\ stack' = Tail(stack)
  /\ IF Len(stack) = 1
     THEN phase' = "seed" /\ UNCHANGED loaded
     ELSE loaded' = loaded \cup {TopDir} /\ UNCHANGED phase
  /\ UNCHANGED <<layout, entry, root, visited, nsmap, order, seeds, names, terminal>>

----------------------------------------------------------------------------
(* Names.  find_full_prefix names a member by the shortest chain of aliases  *)
(* from the entry Cookfile, ties in the order the imports were met.          *)
(* Variant: a member is named by the alias that reached it. *)
PrefixedByAlias(prefix, alias) == <<alias>>

Prefixed(prefix, alias) == Append(prefix, alias)

Named ==
  LET fresh(d, seen) == d # entry /\ \A i \in DOMAIN seen : seen[i][1] # d
      entered(seen, item) ==      \* the aliases of one directory of the frontier
        LET child(acc, e) ==
              IF e[1] = item[1] /\ fresh(e[3], acc)
              THEN Append(acc, <<e[3], Prefixed(item[2], e[2])>>) ELSE acc
        IN FoldLeft(child, seen, nsmap)
      level[k \in 0..Cardinality(loaded)] ==
        IF k = 0 THEN [all |-> <<>>, new |-> <<<<entry, <<>>>>>>]
        ELSE LET all == FoldLeft(entered, level[k - 1].all, level[k - 1].new)
             IN [all |-> all, new |-> SubSeq(all, Len(level[k - 1].all) + 1, Len(all))]
  IN level[Cardinality(loaded)].all

PrefixIn(named, d) ==
  LET hits == {i \in DOMAIN named : named[i][1] = d}
  IN IF d = entry \/ hits = {} THEN <<>> ELSE named[CHOOSE i \in hits : TRUE][2]

PrefixOf(d) == PrefixIn(Named, d)

Members == {entry} \cup loaded

Aliased(d, alias) == \E i \in DOMAIN nsmap : nsmap[i][1] = d /\ nsmap[i][2] = alias

AliasDir(d, alias) ==
  nsmap[CHOOSE i \in DOMAIN nsmap : nsmap[i][1] = d /\ nsmap[i][2] = alias][3]

Locals(d) == layout.cookfiles[d].recipes
LocalNames(d) == {r.name : r \in Locals(d)}

(* qualify_recipe_reference, for a dep name as written in d.                 *)
(* Variant: an alias is taken for the importee's prefix. *)
QualifyByAlias(d, ref) ==
  IF Len(ref) = 1 /\ ref[1] \in LocalNames(d) THEN PrefixOf(d) \o ref ELSE ref

Qualify(d, ref) ==
  IF Len(ref) > 1 /\ Aliased(d, ref[1]) THEN PrefixOf(AliasDir(d, ref[1])) \o Tail(ref)
  ELSE IF Len(ref) = 1 /\ ref[1] \in LocalNames(d) THEN PrefixOf(d) \o ref
  ELSE ref

(* resolve_global_key, for a reference a body reads. *)
GlobalKey(d, ref) ==
  IF Len(ref) > 1 /\ Aliased(d, ref[1]) THEN PrefixOf(AliasDir(d, ref[1])) \o Tail(ref)
  ELSE PrefixOf(d) \o ref

----------------------------------------------------------------------------
(* What the request reaches, over the body-free listing of every member: the *)
(* requires as written, not those that bodies make.                          *)
ListedIn(d) ==
  LET prefix == PrefixOf(d)
  IN {[dir |-> d, name |-> Append(prefix, r.name), decl |-> r] : r \in Locals(d)}

Listed == UNION {ListedIn(d) : d \in Members}

RequiresOf(e) == {Qualify(e.dir, ref) : ref \in e.decl.requires}

ReachFrom(edges, from) ==
  LET grown[k \in Nat] ==
        IF k = 0 THEN from \cap DOMAIN edges
        ELSE LET before == grown[k - 1]
             IN before \cup ((UNION {edges[n] : n \in before}) \cap DOMAIN edges)
  IN grown[Cardinality(DOMAIN edges)]

WorkspaceGraph ==
  LET all == Listed
  IN [n \in {e.name : e \in all} |-> UNION {RequiresOf(e) : e \in {x \in all : x.name = n}}]

(* Variant: the listing is skipped for every dispatched request. *)
SeedsLocalOnly ==
  IF layout.mode = "enumerate"
  THEN ReachFrom(WorkspaceGraph, {e.name : e \in {x \in Listed : ~x.decl.chore}}) ELSE {}

Seeds ==
  CASE layout.mode = "dispatch" /\ loaded # {} -> ReachFrom(WorkspaceGraph, {layout.target})
    [] layout.mode = "enumerate" ->
         ReachFrom(WorkspaceGraph, {e.name : e \in {x \in Listed : ~x.decl.chore}})
    [] OTHER -> {}

Seed ==
  /\ phase = "seed"
  /\ seeds' = Seeds
  /\ phase' = "order"
  /\ stack' = <<<<entry, 0>>>>
  /\ visited' = {entry}
  /\ UNCHANGED <<layout, entry, root, loaded, nsmap, order, names, terminal>>

(* cookfile_registration_order: a depth-first walk of the imports, a member  *)
(* when all it imports is out.                                               *)
Importees(d) ==
  LET edges == SelectSeq(nsmap, LAMBDA e : e[1] = d)
  IN [i \in DOMAIN edges |-> edges[i][3]]

(* Variant: a member before what it imports. *)
EmitBefore(d) == <<d>> \o order

Emit(d) == Append(order, d)

Order ==
  /\ phase = "order"
  /\ LET looked == stack[1][2]  deps == Importees(TopDir)
     IN IF looked < Len(deps)
        THEN /\ stack' = IF deps[looked + 1] \in visited THEN Advanced
                         ELSE <<<<deps[looked + 1], 0>>>> \o Advanced
             /\ visited' = visited \cup {deps[looked + 1]}
             /\ UNCHANGED <<order, phase>>
        ELSE /\ order' = Emit(TopDir)
             /\ stack' = Tail(stack)
             /\ phase' = IF Len(stack) = 1 THEN "register" ELSE phase
             /\ UNCHANGED visited
  /\ UNCHANGED <<layout, entry, root, loaded, nsmap, seeds, names, terminal>>

----------------------------------------------------------------------------
(* One member's pass.                                                        *)
(* The member that owns the target sees the local name; the entry Cookfile   *)
(* always sees the request as it was made.                                   *)
LocalTarget(d) ==
  CASE layout.mode # "dispatch" -> NoTarget
    [] layout.mode = "dispatch" /\ d = entry -> layout.target
    [] OTHER -> IF IsStrictPrefix(PrefixOf(d), layout.target)
                THEN SubSeq(layout.target, Len(PrefixOf(d)) + 1, Len(layout.target))
                ELSE NoTarget

LocalEdges(d) ==
  [n \in LocalNames(d) |->
     LET wanted == UNION {r.requires : r \in {x \in Locals(d) : x.name = n}}
     IN {m \in LocalNames(d) : <<m>> \in wanted}]

(* reachable_from_target: the seeds that are this member's, and the target,  *)
(* closed over its own requires, as in Register.tla.                         *)
LocalReach(d) ==
  ReachFrom(LocalEdges(d),
            {e.decl.name : e \in {x \in ListedIn(d) : \/ x.name \in seeds
                                                     \/ LocalTarget(d) = <<x.decl.name>>}})

(* The recipes of one Cookfile that have these names. *)
Called(d, chosen) == {r \in Locals(d) : r.name \in chosen}

Asked(d) == {r \in Locals(d) : ~r.chore} \cup Called(d, LocalReach(d))

ForcedBy(bodies) == UNION {r.forces : r \in bodies}

(* A force goes to what the name requires in this Cookfile, and what the     *)
(* bodies on the way force in turn, whatever reachable_from_target says.     *)
ForceEdges(d) ==
  [n \in LocalNames(d) |-> LocalEdges(d)[n] \cup ForcedBy(Called(d, {n}))]

(* Variant: the force is not pushed down into what the name requires. *)
UnpushedFrom(d, bodies) == bodies \cup Called(d, ForcedBy(bodies))

ForcedFrom(d, bodies) == bodies \cup Called(d, ReachFrom(ForceEdges(d), ForcedBy(bodies)))

(* The bodies the pass of a member evaluates. *)
Runs(d) == ForcedFrom(d, Asked(d))

(* A name in a body is a recipe's when the regenerated source knows it, by   *)
(* the discovered names of the member and of what it imports.                *)
(* Variant: the source is generated from the parsed names alone. *)
KnownStatic(d, ref) ==
  \/ \E r \in Locals(d) : r.static /\ ref = <<r.name>>
  \/ /\ Len(ref) = 2 /\ Aliased(d, ref[1])
     /\ \E r \in Locals(AliasDir(d, ref[1])) : r.static /\ ref[2] = r.name

Known(d, ref) ==
  \/ \E n \in LocalNames(d) : ref = <<n>>
  \/ /\ Len(ref) = 2 /\ Aliased(d, ref[1])
     /\ ref[2] \in LocalNames(AliasDir(d, ref[1]))

(* The terminal outputs of a dep: of another Cookfile they are there or not; *)
(* one's own recipes run their deps first (Register.tla).                    *)
Unserved(d) ==
  \E r \in Runs(d) : \E ref \in r.reads :
    \/ ~Known(d, ref)
    \/ Aliased(d, ref[1]) /\ GlobalKey(d, ref) \notin terminal

(* What a body that ran added to the requires of its recipe. *)
Added(e) == {Qualify(e.dir, <<n>>) : n \in e.decl.forces} \ RequiresOf(e)

(* merge_into, after a pass in which these bodies ran. *)
MergedOf(e, added, ran) ==
  [name |-> e.name, dir |-> e.dir, chore |-> e.decl.chore,
   requires |-> RequiresOf(e) \cup added, added |-> added, ran |-> ran, outs |-> e.decl.outs]

Merged(d, bodies) ==
  {IF e.decl \in bodies THEN MergedOf(e, Added(e), TRUE) ELSE MergedOf(e, {}, FALSE) :
     e \in ListedIn(d)}

RegisterMember ==
  /\ phase = "register"
  /\ order # <<>>
  /\ LET d == Head(order)
     IN IF Unserved(d)
        THEN phase' = "unserved" /\ UNCHANGED <<order, names, terminal>>
        ELSE /\ order' = Tail(order)
             /\ \E merged \in {Merged(d, Runs(d))} :
                  /\ names' = names \cup merged
                  /\ terminal' = terminal \cup {n.name : n \in {m \in merged : m.ran}}
             /\ UNCHANGED phase
  /\ UNCHANGED <<layout, entry, root, stack, visited, loaded, nsmap, seeds>>

(* reject_duplicate_outputs: of units that registered, by the text of the path. *)
Clash(a, b) == a # b /\ a.ran /\ b.ran /\ a.outs \cap b.outs # {}

CheckOutputs ==
  /\ phase = "register"
  /\ order = <<>>
  /\ phase' = IF \E a, b \in names : Clash(a, b) THEN "duplicate" ELSE "done"
  /\ UNCHANGED <<layout, entry, root, stack, visited, loaded, nsmap, order, seeds, names, terminal>>

Init ==
  /\ layout \in Layouts
  /\ phase = "enter"
  /\ entry = NoDir /\ root = NoDir
  /\ stack = <<>> /\ visited = {} /\ loaded = {} /\ nsmap = <<>>
  /\ order = <<>> /\ seeds = {} /\ names = {} /\ terminal = {}

Next ==
  \/ Enter \/ LoadImport \/ LoadDone \/ Seed \/ Order \/ RegisterMember \/ CheckOutputs

Spec == Init /\ [][Next]_vars

----------------------------------------------------------------------------
(* Properties.                                                               *)
(* What reaches what, from the layout alone.                                 *)
Edge(c) == {TargetDir(i, root) : i \in Range(Imports(c))}
Below(d) == Grow({d}, Edge)

(* A workspace is refused as circular only when some Cookfile that the entry *)
(* reaches imports itself, directly or not; one that holds such a Cookfile is*)
(* never registered; and under a root that the import walk inferred, no      *)
(* import the load meets is missing its directory.                           *)
LoadFaithful ==
  LET cyclic == \E c \in Below(entry) : \E t \in Edge(c) : c \in Below(t)
  IN /\ phase = "circular" => cyclic
     /\ phase \in {"seed", "order", "register", "done"} => ~cyclic
     /\ phase = "nodir" => ~Inferred(entry) \/ root = entry

(* The registration order and the regenerated source serve each other: a     *)
(* body's reference to a recipe of an imported Cookfile, module-registered or*)
(* not, is never refused, nor does it find the terminal outputs missing.     *)
ImporteesServed ==
  (phase \in {"register", "unserved"} /\ order # <<>>) =>
    LET d == Head(order)
    IN \A r \in Runs(d) : \A ref \in r.reads :
         (/\ Len(ref) = 2
          /\ Aliased(d, ref[1])
          /\ \E s \in Locals(AliasDir(d, ref[1])) : s.name = ref[2] /\ ~s.chore) =>
           Known(d, ref) /\ GlobalKey(d, ref) \in terminal

(* CS-0218: over the merged names, whatever the request reaches has had its  *)
(* body run, in whichever member it was declared: through requires as they   *)
(* are written, across imports, and from there through any, written or made  *)
(* by a body, that stay in one member.  Excepted is what is reached only the *)
(* other way round, through a require across an import behind one that a body*)
(* made: the pass of the importee is over, and went by the written requires, *)
(* so that a chore is in the closure without units (README).                 *)
MergedEdges(Kept(_, _)) ==
  [n \in {m.name : m \in names} |->
     UNION {{r \in m.requires : Kept(m, r)} : m \in {x \in names : x.name = n}}]

ClosureReached ==
  LET Written(m, r) == r \notin m.added
      SameMember(m, r) == \E o \in names : o.name = r /\ o.dir = m.dir
      asked == CASE layout.mode = "dispatch" -> {layout.target}
                 [] layout.mode = "enumerate" -> {m.name : m \in {x \in names : ~x.chore}}
                 [] OTHER -> {}
      reached == ReachFrom(MergedEdges(SameMember), ReachFrom(MergedEdges(Written), asked))
  IN phase \in {"done", "duplicate"} => \A m \in names : m.name \in reached => m.ran

(* The merged namespace: two declarations never share a qualified name, and  *)
(* a dep written through an alias names what that alias imports.             *)
NamesDistinct ==
  /\ \A a, b \in names : a # b => a.name # b.name
  /\ \A m \in names : \A r \in Locals(m.dir) : \A ref \in r.requires :
       (/\ Len(ref) = 2
        /\ Aliased(m.dir, ref[1])
        /\ ref[2] \in LocalNames(AliasDir(m.dir, ref[1]))
        /\ m.name = Append(PrefixOf(m.dir), r.name)) =>
         \E n \in names : /\ n.name \in m.requires
                          /\ n.dir = AliasDir(m.dir, ref[1])
                          /\ Last(n.name) = ref[2]

(* What the merge of the members' registrations owes the run: names that     *)
(* tell declarations apart and deps that follow the imports, with whatever   *)
(* the request reaches through them registered.                              *)
MergedRight == ClosureReached /\ NamesDistinct
=============================================================================
