------------------------ MODULE MaterializeContract ------------------------
(***************************************************************************)
(* What cook.materialize promises a Cookfile, whatever threads and passes  *)
(* call it and whichever worker runs the producer: a namespace means one   *)
(* declaration and has one value for the whole invocation; a call is       *)
(* answered with that value, or refused because it declares something else.*)
(***************************************************************************)
CONSTANTS
  Calls,       \* the calls of an invocation
  Spaces,      \* the namespaces materializers live in
  Nothing,     \* not declared, no value yet
  Conflict,    \* the refusal
  Space(_),    \* the namespace a call is made in
  Declares(_)  \* what it declares there

VARIABLES
  meaning,     \* meaning[s]: the declaration s stands for
  value,       \* value[s]: what its producer gave, or that it failed
  answers      \* what each call got

vars == <<meaning, value, answers>>

Outcomes(s) == {[ok |-> TRUE, of |-> s], [ok |-> FALSE, of |-> s]}

Init ==
  /\ meaning = [s \in Spaces |-> Nothing]
  /\ value = [s \in Spaces |-> Nothing]
  /\ answers = [c \in Calls |-> Nothing]

Declare(c) ==
  /\ meaning[Space(c)] = Nothing
  /\ meaning' = [meaning EXCEPT ![Space(c)] = Declares(c)]
  /\ UNCHANGED <<value, answers>>

Answer(c) ==
  /\ answers[c] = Nothing
  /\ meaning[Space(c)] = Declares(c)
  /\ \E v \in Outcomes(Space(c)) :
       /\ value[Space(c)] \in {Nothing, v}
       /\ value' = [value EXCEPT ![Space(c)] = v]
       /\ answers' = [answers EXCEPT ![c] = v]
  /\ UNCHANGED meaning

Refuse(c) ==
  /\ answers[c] = Nothing
  /\ meaning[Space(c)] \notin {Nothing, Declares(c)}
  /\ answers' = [answers EXCEPT ![c] = Conflict]
  /\ UNCHANGED <<meaning, value>>

Next == \E c \in Calls : Declare(c) \/ Answer(c) \/ Refuse(c)

Spec == Init /\ [][Next]_vars
=============================================================================
