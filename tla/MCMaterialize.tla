--------------------------- MODULE MCMaterialize ---------------------------
(***************************************************************************)
(* Two scoped threads and two workers over workspaces of one to three      *)
(* members: a materializer each, one declared twice alike, one declared    *)
(* twice differently with and without a pcall, one whose failure is caught.*)
(***************************************************************************)
EXTENDS Materialize

Ask(key, decl, caught) == [key |-> key, decl |-> decl, caught |-> caught]

Three == <<<<Ask("k", "d", FALSE)>>, <<Ask("x.k", "d", FALSE)>>, <<Ask("y.k", "d", TRUE)>>>>
Twice == <<<<Ask("k", "d", FALSE), Ask("k", "d", FALSE)>>, <<Ask("x.k", "d", TRUE)>>>>
Differs == <<<<Ask("k", "d", TRUE), Ask("k", "other", TRUE)>>, <<Ask("x.k", "d", FALSE)>>>>
Refused == <<<<Ask("k", "d", FALSE), Ask("k", "other", FALSE)>>, <<>>>>
Single == <<<<Ask("k", "d", FALSE)>>>>

AllPlans == {Three, Twice, Differs, Refused, Single}
=============================================================================
