---------------------------- MODULE MCStepCache ----------------------------
(* One source, which mentions the file h; h may mention g.                   *)
EXTENDS StepCache, TLC

CONSTANTS c1, c2, first, second, absent, junk

Pairs == {"s", "h1", "h2", "g1"}
HoldsApart == [p \in {"src", "h", "g"} |->
  CASE p = "src" -> {"s"} [] p = "h" -> {"h1", "h2"} [] p = "g" -> {"g1"}]
MentionsOne == [p \in {"src", "h", "g"} |-> [v \in Pairs |->
  CASE v = "s" -> {"h"} [] v = "h2" -> {"g"} [] OTHER -> {}]]

Kind(s, f, e) == [sharing |-> s, finds |-> f, effect |-> e]
MainKinds ==
  {Kind(s, f, "produces") : s \in {"shared", "pinned"}, f \in {"nothing", "depfile", "modules"}}
  \cup {Kind("local", "depfile", "produces"),
        Kind("shared", "modules", "observes"), Kind("pinned", "nothing", "observes"),
        Kind("local", "modules", "observes")}
Order == <<"out">>
All == {"edit", "damage", "kill", "refuse", "evict"}

Alike == Permutations({c1, c2}) \cup Permutations({first, second})
============================================================================
