------------------------------ MODULE Capture ------------------------------
(***************************************************************************)
(* What a recipe body captures while the register phase runs it: the body  *)
(* slot of cook-register and the cook.* calls that write to it.  Nothing   *)
(* here runs; each operator takes a slot and returns the slot the call     *)
(* leaves behind, and Register.tla says which body may call it when.       *)
(* Paths of the importee and of the importer are one value here.           *)
(***************************************************************************)
EXTENDS Integers, Sequences, FiniteSets

CONSTANTS
  Name,       \* recipe and chore names
  Key,        \* probe keys
  Path,       \* declared inputs and outputs
  Outside,    \* the paths of Path whose pattern may own files of other units
  Member,     \* members of a fan-out
  NoMember,   \* the member of a unit that is not keyed by one
  NoSlot      \* body_slot is None: no body is running

ASSUME OutsideAssumption == Outside \subseteq Path
ASSUME NoMemberAssumption == NoMember \notin Member

(* The table handed to cook.add_unit.  prior says that the body passes what  *)
(* cook.prior_outputs returns among its inputs; flaw is the point at which   *)
(* the call trips over a field of the wrong shape, "late" being after the    *)
(* member's pending inputs are taken.  found are the keys its command or its *)
(* Lua reads.                                                                *)
CallRecord ==
  [outs : SUBSET Path, ins : SUBSET Path, prior : BOOLEAN, cache : BOOLEAN,
   test : BOOLEAN, seal : SUBSET Key, probes : SUBSET Key, after : SUBSET Path,
   member : Member \cup {NoMember}, flaw : {"none", "early", "late"},
   body : SUBSET {"command", "lua"}, interactive : BOOLEAN, found : SUBSET Key]

(* group is 0 for DepKind::Sequential.  author is history: the body whose    *)
(* call captured the unit.                                                   *)
UnitRecord ==
  [author : Name, payload : {"shell", "interactive", "lua", "probe"}, group : Nat, outs : SUBSET Path, ins : SUBSET Path,
   keyed : BOOLEAN, needs : SUBSET Key, after : SUBSET Path,
   member : Member \cup {NoMember}]

Unit(author, group) ==
  [author |-> author, payload |-> "shell", group |-> group, outs |-> {}, ins |-> {},
   keyed |-> FALSE, needs |-> {}, after |-> {}, member |-> NoMember]

SlotRecord ==
  [recipe : Name, chore : BOOLEAN, units : Seq(UnitRecord), group : Nat,
   groups : Seq(SUBSET Nat), stepOuts : SUBSET Path, lastOuts : SUBSET Path,
   refs : SUBSET Name, depIns : SUBSET Path, pending : SUBSET Path,
   edges : SUBSET (Nat \X Name), requires : SUBSET Name]

ASSUME NoSlotAssumption == NoSlot \notin SlotRecord

(* BodyCaptureState::new, stamped with the recipe it is opened for.          *)
NewSlot(recipe, chore) ==
  [recipe |-> recipe, chore |-> chore, units |-> <<>>, group |-> 0, groups |-> <<>>,
   stepOuts |-> {}, lastOuts |-> {}, refs |-> {}, depIns |-> {}, pending |-> {},
   edges |-> {}, requires |-> {}]

----------------------------------------------------------------------------
(* cook.exec and cook.interactive: a sequential unit with nothing to cache.  *)
Exec(s, author, payload) ==
  [s EXCEPT !.units = Append(@, [Unit(author, 0) EXCEPT !.payload = payload])]

(* cook.probe inside a body: the declaration is a unit of the body as well.  *)
CaptureProbe(s, author, requires) ==
  [s EXCEPT !.units = Append(@, [Unit(author, 0) EXCEPT !.payload = "probe", !.needs = requires])]

(* cook.prior_outputs: what the step before made for this member, or all of  *)
(* what it made.                                                             *)
PriorOutputs(s, member) ==
  LET own == {i \in DOMAIN s.units :
                s.units[i].member = member /\ s.units[i].outs # {} /\ member # NoMember}
  IN IF own = {} THEN s.lastOuts
     ELSE s.units[CHOOSE i \in own : \A j \in own : j <= i].outs

(* Refused before cook.add_unit touches the slot.                            *)
EarlyRefusal(s, call) == call.flaw = "early" \/ (call.cache /\ s.chore)

(* A test makes nothing, and has one body.                                   *)
TestRefusal(call) ==
  call.test /\ (call.outs # {} \/ Cardinality(call.body) # 1)

(* Refused after the pending inputs of the member were taken.                *)
LateRefusal(call) == call.flaw = "late" \/ TestRefusal(call)

(* The pending inputs are taken with mem::take before the rest of the table  *)
(* is read, so a late refusal has consumed them.                             *)
TakePending(s) == [s EXCEPT !.pending = {}]

Inputs(s, call) ==
  call.ins \cup s.depIns \cup s.pending
    \cup (IF call.prior THEN PriorOutputs(s, call.member) ELSE {})

(* CacheMeta is there only when the unit has something to key on.            *)
Keyed(s, call) ==
  /\ call.cache
  /\ call.outs # {} \/ Inputs(s, call) # {} \/ call.member # NoMember \/ call.seal # {}

(* A Lua body makes a chunk of the unit, whatever else is given; a test is   *)
(* never interactive.                                                        *)
Payload(call) ==
  IF "lua" \in call.body THEN "lua"
  ELSE IF call.interactive /\ ~call.test THEN "interactive" ELSE "shell"

(* What the unit waits for: its declared keys, its seals and the keys found  *)
(* in its Lua or its command.  The command of a test is not scanned.         *)
Needs(call) ==
  call.probes \cup call.seal
    \cup (IF call.test /\ Payload(call) = "shell" THEN {} ELSE call.found)

Captured(s, author, call) ==
  [Unit(author, s.group) EXCEPT
     !.payload = Payload(call), !.outs = call.outs, !.ins = Inputs(s, call), !.keyed = Keyed(s, call),
     !.needs = Needs(call), !.after = call.after, !.member = call.member]

(* cook.add_unit, once nothing refuses it. *)
AddUnit(s, author, call) ==
  LET at == Len(s.units) + 1
      groups == IF s.group = 0 THEN s.groups
                ELSE [s.groups EXCEPT ![s.group] = @ \cup {at}]
  IN [s EXCEPT
        !.pending = {},
        !.units = Append(@, Captured(s, author, call)),
        !.groups = groups,
        !.stepOuts = @ \cup call.outs,
        !.lastOuts = IF s.group = 0 /\ call.outs # {} THEN call.outs ELSE @,
        !.edges = @ \cup {<<at, name>> : name \in s.refs}]

(* cook.passthrough: outputs of the step that no unit of it makes.           *)
Passthrough(s, paths) == [s EXCEPT !.stepOuts = @ \cup paths]

----------------------------------------------------------------------------
(* cook.dep_order, cook.dep_output and cook.dep_output_member: from here to  *)
(* the end of the step group every unit carries the edge.                    *)
DepOrder(s, name) == [s EXCEPT !.refs = @ \cup {name}]

DepOutput(s, name, paths) ==
  [s EXCEPT !.refs = @ \cup {name}, !.depIns = @ \cup paths]

DepOutputMember(s, name, paths) ==
  [s EXCEPT !.refs = @ \cup {name}, !.pending = @ \cup paths]

(* cook.step_group on entry and, whatever its function did, on the way out.  *)
OpenGroup(s) ==
  [s EXCEPT !.groups = Append(@, {}), !.group = Len(s.groups) + 1]

CloseGroup(s) ==
  [s EXCEPT !.group = 0, !.stepOuts = {}, !.refs = {}, !.depIns = {},
            !.lastOuts = IF s.stepOuts # {} THEN s.stepOuts ELSE @]

(* cook.require_recipe, once the recipe it names was evaluated. *)
Require(s, name) == [s EXCEPT !.requires = @ \cup {name}]

----------------------------------------------------------------------------
(* What invoke_body refuses when a body has closed: an output pattern that   *)
(* may own files of other units, and an after entry that is not an output of *)
(* exactly one unit, registered earlier.                                     *)
OutputsRefused(s) == \E i \in DOMAIN s.units : s.units[i].outs \cap Outside # {}

AfterUnresolved(s) ==
  \E i \in DOMAIN s.units : \E p \in s.units[i].after :
    \A j \in 1..(i - 1) : {k \in DOMAIN s.units : p \in s.units[k].outs} # {j}

(* The outputs of each member, the last unit of a member winning.            *)
MemberOutputs(s, member) ==
  LET own == {i \in DOMAIN s.units : s.units[i].member = member /\ s.units[i].outs # {}}
  IN IF own = {} THEN {} ELSE s.units[CHOOSE i \in own : \A j \in own : j <= i].outs

----------------------------------------------------------------------------
(* A chore's parameters against the argv it was given: required and "plus"   *)
(* parameters consume what is left in order, "star" takes any rest, and      *)
(* arguments nobody takes are an error.                                      *)
Param == {"required", "defaulted", "plus", "star"}

BindsArgv(params, given) ==
  /\ \A i \in DOMAIN params :
       params[i] \in {"required", "plus"} =>
         given >= i /\ \A j \in 1..(i - 1) : params[j] \notin {"plus", "star"}
  /\ given > Len(params) => \E i \in DOMAIN params : params[i] \in {"plus", "star"}
=============================================================================
