------------------------------- MODULE Sigil -------------------------------
(***************************************************************************)
(* What a placeholder `$<IDENT>` names (cook-luagen/src/resolver.rs).      *)
(*                                                                         *)
(* An identifier is the text before its first colon, its dotted segments,  *)
(* and the content of a trailing bracket group.  The one cascade of        *)
(* `resolve` answers for every position; the classifiers beside it answer  *)
(* narrower questions and have to agree with it.                           *)
(***************************************************************************)
EXTENDS Naturals, Sequences, FiniteSets

Accessors == {"stem", "name", "ext", "dir"}

\* A name in scope, and an identifier: `pre` is "" without a colon, `idx` is
\* "-" without a bracket group, "" for the empty one.
Name(seg) == [pre |-> "", seg |-> seg]
Ident(pre, seg, idx) == [pre |-> pre, seg |-> seg, idx |-> idx]
Dotted(seg) == Ident("", seg, "-")

NameOf(id) == [pre |-> id.pre, seg |-> id.seg]
NoName == Name(<< >>)

\* The placeholder segments that carry an output index: out_0, out_1, ...
OutIndex == [s \in {"out_0", "out_1", "out_2", "out_3"} |->
               CASE s = "out_0" -> 0 [] s = "out_1" -> 1
                 [] s = "out_2" -> 2 [] s = "out_3" -> 3]

----------------------------------------------------------------------------
\* The answers of the resolver.

Builtin(b, n, acc)   == [k |-> "builtin", b |-> b, n |-> n, name |-> NoName, acc |-> acc]
Recipe(name, acc)    == [k |-> "recipe",  b |-> "", n |-> 0, name |-> name, acc |-> acc]
RecipeMember(name)   == [k |-> "member",  b |-> "", n |-> 0, name |-> name, acc |-> ""]
EnvRuntime(name)     == [k |-> "var",     b |-> "", n |-> 0, name |-> name, acc |-> ""]
ProbeRef(key)        == [k |-> "probe",   b |-> "", n |-> 0, name |-> key, acc |-> ""]
ResolveError         == [k |-> "error",   b |-> "", n |-> 0, name |-> NoName, acc |-> ""]
NoBuiltin            == [k |-> "none",    b |-> "", n |-> 0, name |-> NoName, acc |-> ""]

(* `match_builtin`: the closed set of in, in.ACC, out, out.ACC, out_N and    *)
(* out_N.ACC; out_0 has the shape and is malformed.                          *)
MatchBuiltin(id) ==
  LET s == id.seg IN
  IF id.pre # "" \/ id.idx # "-" \/ Len(s) > 2 THEN NoBuiltin
  ELSE IF s[1] \in {"in", "out"} /\ (Len(s) = 1 \/ s[2] \in Accessors)
         THEN Builtin(s[1], 0, IF Len(s) = 1 THEN "" ELSE s[2])
  ELSE IF s[1] \notin DOMAIN OutIndex THEN NoBuiltin
  ELSE IF OutIndex[s[1]] = 0 THEN ResolveError
  ELSE IF Len(s) = 1 \/ s[2] \in Accessors
         THEN Builtin("out_N", OutIndex[s[1]], IF Len(s) = 1 THEN "" ELSE s[2])
  ELSE NoBuiltin

\* `match_member_sigil`: $<in> and $<in.FIELD> of a member fan-out.
IsMemberSigil(id) == id.pre = "" /\ id.idx = "-" /\ id.seg[1] = "in"

\* `is_own_input_ref`: does the identifier make its step iterate?
IsOwnInput(id) == MatchBuiltin(id).b = "in" \/ IsMemberSigil(id)

\* `is_output_ref`: does it name a declared output, well formed or not?
IsOutput(id) == MatchBuiltin(id).b \in {"out", "out_N"} \/ MatchBuiltin(id).k = "error"

\* Variant: an output's number is checked, its being numbered is not.
ValidateAnyOut(b, ctx) ==
  LET fits == CASE b.b = "in" /\ b.acc = "" -> ctx.mode # "once"
                [] b.b = "in" /\ b.acc # "" -> ctx.mode = "each"
                [] b.b = "out"              -> ctx.outs >= 1
                [] b.b = "out_N"            -> b.n <= ctx.outs
  IN IF fits THEN b ELSE ResolveError

(* `validate_builtin`: a builtin in the enclosing step's mode and with its    *)
(* number of declared outputs.                                               *)
ValidateBuiltin(b, ctx) ==
  LET fits == CASE b.b = "in" /\ b.acc = "" -> ctx.mode # "once"
                [] b.b = "in" /\ b.acc # "" -> ctx.mode = "each"
                [] b.b = "out"              -> ctx.outs = 1
                [] b.b = "out_N"            -> ctx.outs > 1 /\ b.n <= ctx.outs
  IN IF fits THEN b ELSE ResolveError

(* `accessor_ref`: NAME.ACCESSOR, split at the last dot, with NAME in scope;  *)
(* NoName when the identifier does not read that way.                        *)
AccessorRef(id, names) ==
  LET n == Len(id.seg)
      base == [pre |-> id.pre, seg |-> SubSeq(id.seg, 1, n - 1)]
  IN IF id.idx = "-" /\ n > 1 /\ id.seg[n] \in Accessors /\ base \in names
       THEN base ELSE NoName
LastSeg(id) == id.seg[Len(id.seg)]

InScope(id, names) == id.idx = "-" /\ NameOf(id) \in names

\* `probe_ref`: the key is everything before the first dot or bracket.
ProbeKey(id) == [pre |-> id.pre, seg |-> << id.seg[1] >>]

(* `resolve`.  A context is [mode, outs, names, probes].                     *)
Resolve(id, ctx) ==
  LET recipe ==
        IF InScope(id, ctx.names) THEN Recipe(NameOf(id), "")
        ELSE IF AccessorRef(id, ctx.names) # NoName
               THEN Recipe(AccessorRef(id, ctx.names), LastSeg(id))
        ELSE NoBuiltin
      base == [pre |-> id.pre, seg |-> id.seg]
  IN
  IF id.pre = "file:" THEN ResolveError
  ELSE IF id.pre = "" /\ id.seg[1] = "var" /\ Len(id.seg) > 1
         THEN EnvRuntime(Name(Tail(id.seg)))
  ELSE IF id.pre # "" THEN (IF recipe.k = "recipe" THEN recipe ELSE ProbeRef(ProbeKey(id)))
  ELSE IF id.idx # "-"
         THEN IF id.idx = "in" /\ base \in ctx.names THEN RecipeMember(base) ELSE ResolveError
  ELSE IF MatchBuiltin(id).k = "builtin" THEN ValidateBuiltin(MatchBuiltin(id), ctx)
  ELSE IF MatchBuiltin(id).k = "error" THEN ResolveError
  ELSE IF recipe.k = "recipe" THEN recipe
  ELSE IF id.seg[1] = "env" /\ Len(id.seg) > 1 THEN ResolveError
  ELSE IF ProbeKey(id) \in ctx.probes THEN ProbeRef(ProbeKey(id))
  ELSE EnvRuntime(NameOf(id))

Ctx(mode, outs, names, probes) == [mode |-> mode, outs |-> outs, names |-> names, probes |-> probes]

(* `recipe_ref`: the recipe an identifier names, which is the edge it         *)
(* implies; asked in a fixed context and without probe keys.                 *)
RecipeRef(id, names) ==
  LET r == Resolve(id, Ctx("each", 1, names, {})) IN
  IF r.k \in {"recipe", "member"} THEN {r.name} ELSE {}

=============================================================================
