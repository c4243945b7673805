---------------------------- MODULE MCWorkspace ----------------------------
(***************************************************************************)
(* Trees of four Cookfiles, R above A above C, and B beside A.  Trees: every*)
(* combination of a few import lists (diamonds, cycles, sigils, an import  *)
(* that is not there, two aliases named alike), every start directory, with *)
(* and without a marker and --root.  Requests: on fixed trees, every mode   *)
(* and target, with chores and recipes that reach across Cookfiles and a    *)
(* recipe only a module call registers; bodies that force recipes.          *)
(***************************************************************************)
EXTENDS Workspace

CONSTANT Nowhere

R == <<>>
A == <<"a">>
B == <<"b">>
C == <<"a", "c">>

Tree(alias, at) == [alias |-> alias, at |-> at, sigil |-> FALSE]
Sigil(alias, at) == [alias |-> alias, at |-> at, sigil |-> TRUE]

Decl(name, chore, static, requires, reads) ==
  [name |-> name, chore |-> chore, static |-> static, requires |-> requires,
   reads |-> reads, forces |-> {}, outs |-> {}]

(* Every Cookfile has a recipe r, a module-registered m and a chore k, each  *)
(* of which requires its namesake in every import; r reads the m of all.     *)
Over(imports, name) == {<<imports[i].alias, name>> : i \in DOMAIN imports}

Plain(imports) ==
  {Decl("r", FALSE, TRUE, Over(imports, "r"), Over(imports, "m")),
   Decl("m", FALSE, FALSE, {<<"r">>}, Over(imports, "r")),
   Decl("k", TRUE, TRUE, Over(imports, "k"), {})}

Cook(imports) == [imports |-> imports, recipes |-> Plain(imports)]

OfR == {<<>>, <<Tree("x", A)>>, <<Tree("x", A), Tree("y", B)>>, <<Tree("y", B), Tree("z", C)>>,
        <<Sigil("x", A), Tree("y", B)>>}
OfA == {<<>>, <<Tree("z", C)>>, <<Tree("z", C), Tree("y", B)>>, <<Tree("w", R)>>, <<Sigil("y", B)>>}
OfB == {<<>>, <<Tree("z", C)>>, <<Tree("x", A)>>}
OfC == {<<>>, <<Tree("x", B)>>, <<Tree("q", <<"gone">>)>>, <<Sigil("y", B)>>}

Files(r, a, b, c) == [d \in {R, A, B, C} |->
  CASE d = R -> Cook(r) [] d = A -> Cook(a) [] d = B -> Cook(b) [] d = C -> Cook(c)]

Trees ==
  {[cookfiles |-> Files(r, a, b, c), markers |-> at[1], start |-> s, override |-> at[2],
    mode |-> "dispatch", target |-> <<"k">>] :
     r \in OfR, a \in OfA, b \in OfB, c \in OfC,
     s \in {A, C, <<"b", "q">>}, at \in {<<{}, Nowhere>>, <<{A}, Nowhere>>, <<{}, R>>}}

Diamond == Files(<<Tree("x", A), Tree("y", B)>>, <<Tree("z", C)>>, <<Tree("z", C)>>, <<>>)
Deep == Files(<<Tree("x", A)>>, <<Tree("z", C)>>, <<>>, <<Tree("x", B)>>)
Alone == Files(<<>>, <<>>, <<>>, <<>>)

(* Two units of one workspace that name an output alike. *)
Twice ==
  [Diamond EXCEPT ![A].recipes = {[Decl("r", FALSE, TRUE, {}, {}) EXCEPT !.outs = {"o"}]},
                  ![B].recipes = {[Decl("r", FALSE, TRUE, {}, {}) EXCEPT !.outs = {"o"}]},
                  ![R].recipes = {}]

Forcing(decl, forced) == [decl EXCEPT !.forces = forced]

(* A body forces f, a chore or a recipe, which requires a recipe and a chore *)
(* of its own Cookfile and both kinds of an import, and forces g, a chore, in*)
(* turn.  In the entry Cookfile or in an import of it.                       *)
Forces(f, chore, alias) ==
  {Forcing(Decl("r", FALSE, TRUE, {}, {}), {"f"}), Forcing(Decl("f", chore, TRUE, f, {}), {"g"}),
   Decl("m", FALSE, FALSE, {}, {}), Decl("g", TRUE, TRUE, {<<"h">>}, {<<alias, "m">>}),
   Decl("h", TRUE, FALSE, {}, {}), Decl("k", TRUE, TRUE, {<<"r">>}, {})}

Wanted(alias) == {<<"m">>, <<"h">>, <<alias, "r">>, <<alias, "k">>}

Forced ==
  {[Diamond EXCEPT ![R].recipes = Forces(f, c, "x")] : f \in {{}, Wanted("x")}, c \in BOOLEAN}
  \cup {[Deep EXCEPT ![A].recipes = Forces(f, c, "z")] : f \in {{}, Wanted("z")}, c \in BOOLEAN}

(* A recipe that reads a chore nothing requires, and an import of a directory*)
(* that holds no Cookfile itself.                                            *)
Unfit ==
  {[Diamond EXCEPT ![R].recipes = {Decl("r", FALSE, TRUE, {}, {<<"x", "k">>})}],
   Files(<<Tree("x", A)>>, <<Tree("q", <<"e">>)>>, <<>>, <<>>) @@ (<<"e", "f">> :> Cook(<<>>))}

Requests ==
  {[cookfiles |-> f, markers |-> {}, start |-> R, override |-> Nowhere, mode |-> md,
    target |-> t] :
     f \in {Diamond, Deep, Alone, Twice} \cup Forced \cup Unfit,
     md \in {"dispatch", "enumerate", "introspect"},
     t \in {<<"r">>, <<"k">>, <<"x", "k">>, <<"x", "z", "k">>, <<"z", "k">>}}

AllLayouts == Trees \cup Requests
=============================================================================
