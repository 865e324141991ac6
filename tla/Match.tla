-------------------------------- MODULE Match --------------------------------
(* A match from its arms to its execution: pass2.c judges the patterns and     *)
(* whether they are exhaustive, codegen.c emits a chain of C conditions that   *)
(* relies on it, and the C program runs that chain on a value.                 *)
(*                                                                             *)
(* The C object of a value is a string for a scalar, a sequence for a struct,  *)
(* [has_value, value], [err, value] or [tag, payload] otherwise; a member that *)
(* was never written is Garbage.  A match in a generic function is judged      *)
(* once, on its type variable, and runs on what the variable stands for.      *)
EXTENDS Patterns

CONSTANTS
    Subject,         \* the types that are matched on
    Written,         \* [Subject -> the patterns its arms are written with]
    Inst,            \* the types a type variable may stand for
    MaxArms,
    NoValue, Garbage

ASSUME MatchAssumption == MaxArms \in Nat /\ MaxOrExpansion \in Nat \ {0}

VARIABLES
    subject, arms,   \* the match: its type, a sequence of [pat, guard]
    phase,           \* "write", "judged", "run", "done", "aborted" or "rejected"
    witness,         \* the pattern the error is about: <<>> or <<pattern>>
    inst, value,     \* the run: what the type variable stands for, the subject
    arm,             \* the arm it is at
    passed,          \* why each arm before it was passed over: "test" or "guard"
    taken, bound     \* the arm it took, what its bindings hold

vars == <<subject, arms, phase, witness, inst, value, arm, passed, taken, bound>>

Init ==
    /\ subject \in Subject /\ arms = <<>> /\ phase = "write" /\ witness = <<>>
    /\ inst = NoValue /\ value = NoValue /\ arm = 1 /\ passed = <<>> /\ taken = 0 /\ bound = <<>>

-----------------------------------------------------------------------------
(* check_match                                                               *)

WriteArm ==
    /\ phase = "write" /\ Len(arms) < MaxArms
    /\ \E pat \in Written[subject], guard \in BOOLEAN :
         arms' = Append(arms, [pat |-> pat, guard |-> guard])
    /\ UNCHANGED <<subject, phase, witness, inst, value, arm, passed, taken, bound>>

(* The rows of every arm.                                                     *)
FaultyRows(judged) ==
    FlattenSeq([i \in DOMAIN judged |-> flatten_or_pattern(judged[i].pat)])

(* A guarded arm covers nothing.                                             *)
Rows(judged) ==
    FlattenSeq([i \in DOMAIN judged |->
      IF judged[i].guard THEN <<>> ELSE flatten_or_pattern(judged[i].pat)])

Expands(judged) ==
    \A i \in DOMAIN judged : judged[i].guard \/ flatten_or_pattern(judged[i].pat) # <<>>

(* <<>>, or the pattern that is reported as missing.                          *)
check_match_exhaustiveness(judged) ==
    LET flat == Rows(judged)
        w == find_witness([r \in DOMAIN flat |-> <<pat_to_matpat(flat[r], subject)>>], <<subject>>)
    IN  IF w = <<>> THEN <<>> ELSE w[1]

check_match ==
    /\ phase = "write"
    /\ \E r \in {[i \in DOMAIN arms |-> check_match_pattern(arms[i].pat, subject, FALSE)]} :
       \E judged \in {[i \in DOMAIN arms |-> [arms[i] EXCEPT !.pat = r[i].pat]]} :
         /\ arms' = judged
         /\ IF /\ arms # <<>> /\ Expands(judged)
               /\ \A i \in DOMAIN r : r[i].ok /\ BindsOnce(r[i].pat)
            THEN \E w \in {check_match_exhaustiveness(judged)} :
                   /\ witness' = w
                   /\ phase' = IF w = <<>> THEN "judged" ELSE "rejected"
            ELSE phase' = "rejected" /\ UNCHANGED witness
    /\ UNCHANGED <<subject, inst, value, arm, passed, taken, bound>>

-----------------------------------------------------------------------------
(* emit_match: the type under the substitution, the C object of a value.      *)

RECURSIVE Concrete(_, _)
Concrete(type, i) ==
    IF type.kind = "var" THEN i
    ELSE [type EXCEPT !.of = [k \in DOMAIN @ |-> Concrete(@[k], i)]]

is_null_sentinel(type) == type.kind = "option" /\ type.of[1].kind = "pointer"

RECURSIVE Object(_, _)
Object(v, type) ==
    LET Member(present) ==
          IF present THEN Object(v.sub[1], ctor_sub_types(v.ctor, type)[1]) ELSE Garbage
    IN  CASE is_null_sentinel(type) ->
               IF v.ctor = "none" THEN "NULL" ELSE Object(v.sub[1], type.of[1])
          [] type.kind = "option" /\ ~is_null_sentinel(type) ->
               [has_value |-> v.ctor = "some", value |-> Member(v.ctor = "some")]
          [] type.kind = "result" ->
               [err |-> IF v.ctor = "ok" THEN "0" ELSE v.sub[1].ctor,
                value |-> Member(v.ctor = "ok")]
          [] type.kind = "union" ->
               [tag |-> v.ctor,
                payload |-> [name \in {w.name : w \in VariantsOf(type)} |->
                               Member(name = v.ctor /\ v.sub # <<>>)]]
          [] type.kind \in {"struct", "tuple"} ->
               [k \in DOMAIN v.sub |-> Object(v.sub[k], type.of[k])]
          [] OTHER -> v.ctor

RECURSIVE pattern_has_predicate(_)
pattern_has_predicate(pat) ==
    CASE pat.kind \in {"wild", "bind"} -> FALSE
      [] pat.kind \in {"struct", "tuple", "or"} ->
           \E k \in DOMAIN pat.sub : pattern_has_predicate(pat.sub[k])
      [] OTHER -> TRUE

(* Where a sub-pattern looks: the C object and type it is given.              *)
Into(pat, k, obj, type) ==
    IF obj = Garbage THEN [obj |-> Garbage, type |-> type]
    ELSE CASE pat.kind = "some" ->
                [obj |-> IF is_null_sentinel(type) THEN obj ELSE obj.value, type |-> type.of[1]]
           [] pat.kind = "ok" -> [obj |-> obj.value, type |-> type.of[1]]
           [] pat.kind = "err" -> [obj |-> obj.err, type |-> IntType]
           [] pat.kind = "variant" ->
                [obj |-> obj.payload[pat.name], type |-> Payload(type, pat.name)[1]]
           [] pat.kind = "struct" ->
                [obj |-> obj[pat.fields[k]], type |-> type.of[pat.fields[k]]]
           [] pat.kind = "tuple" -> [obj |-> obj[k], type |-> type.of[k]]
           [] pat.kind = "or" -> [obj |-> obj, type |-> type]

(* The condition emitted for the node itself, before those of its parts.      *)
Test(pat, obj, type) ==
    CASE pat.kind \in {"int", "bool"} -> obj = pat.name
      [] pat.kind = "some" -> IF is_null_sentinel(type) THEN obj # "NULL" ELSE obj.has_value
      [] pat.kind = "none" -> IF is_null_sentinel(type) THEN obj = "NULL" ELSE ~obj.has_value
      [] pat.kind = "ok" -> obj.err = "0"
      [] pat.kind = "err" -> obj.err # "0"
      [] pat.kind = "variant" ->
           IF type.kind = "enum" THEN obj = pat.name ELSE obj.tag = pat.name
      [] OTHER -> TRUE

RECURSIVE emit_pat_predicate(_, _, _)
emit_pat_predicate(pat, obj, type) ==
    LET Part(k) == LET at == Into(pat, k, obj, type)
                   IN  emit_pat_predicate(pat.sub[k], at.obj, at.type)
    IN  IF pat.kind = "or" THEN \E k \in DOMAIN pat.sub : Part(k)
        ELSE Test(pat, obj, type) /\ \A k \in DOMAIN pat.sub : Part(k)

RECURSIVE emit_pat_bindings(_, _, _)
emit_pat_bindings(pat, obj, type) ==
    IF pat.kind = "bind" THEN << <<pat.name, obj>> >>
    ELSE IF pat.kind = "or" THEN <<>>
    ELSE FlattenSeq([k \in DOMAIN pat.sub |->
           LET at == Into(pat, k, obj, type)
           IN  emit_pat_bindings(pat.sub[k], at.obj, at.type)])

has_any_guard == \E i \in DOMAIN arms : arms[i].guard

(* Without guards the last arm is an else; with them every arm tests.         *)
HasCond(i) == pattern_has_predicate(arms[i].pat) /\ (has_any_guard \/ i < Len(arms))

(* What follows an arm that tests nothing is dropped.                         *)
EmittedCount ==
    LET last == {i \in DOMAIN arms : ~has_any_guard /\ ~HasCond(i)}
    IN  IF last = {} THEN Len(arms) ELSE Min(last)

-----------------------------------------------------------------------------
(* The emitted code runs.                                                    *)

Evaluate ==
    /\ phase = "judged"
    /\ inst' \in Inst /\ value' \in Values(Concrete(subject, inst')) /\ phase' = "run"
    /\ UNCHANGED <<subject, arms, witness, arm, passed, taken, bound>>

Type == Concrete(subject, inst)

Holds(i) == HasCond(i) => emit_pat_predicate(arms[i].pat, Object(value, Type), Type)

Take ==
    /\ taken' = arm /\ phase' = "done"
    /\ bound' = emit_pat_bindings(arms[arm].pat, Object(value, Type), Type)
    /\ UNCHANGED <<subject, arms, witness, inst, value, arm, passed>>

Skip(why) ==
    /\ arm' = arm + 1 /\ passed' = Append(passed, why)
    /\ UNCHANGED <<subject, arms, phase, witness, inst, value, taken, bound>>

RunArm ==
    /\ phase = "run" /\ arm <= EmittedCount
    /\ \/ ~Holds(arm) /\ Skip("test")
       \/ Holds(arm) /\ arms[arm].guard /\ Skip("guard")
       \/ Holds(arm) /\ Take

(* With guards, FC_ABORT; without, a result that was never assigned.          *)
RunOut ==
    /\ phase = "run" /\ arm > EmittedCount
    /\ phase' = "aborted"
    /\ UNCHANGED <<subject, arms, witness, inst, value, arm, passed, taken, bound>>

Done == phase \in {"done", "aborted", "rejected"} /\ UNCHANGED vars

Next == WriteArm \/ check_match \/ Evaluate \/ RunArm \/ RunOut \/ Done

Spec == Init /\ [][Next]_vars

-----------------------------------------------------------------------------
(* No struct pattern mentions a field twice.                                  *)
WellFormed == \A i \in DOMAIN arms : ~RepeatsField(arms[i].pat)

RECURSIVE Bound(_, _, _)
Bound(pat, v, type) ==
    IF pat.kind = "bind" THEN << <<pat.name, Object(v, type)>> >>
    ELSE IF pat.kind = "or" THEN <<>>
    ELSE LET types == IF pat.kind = "struct" THEN type.of ELSE ctor_sub_types(v.ctor, type)
             At(k) == IF pat.kind = "struct" THEN pat.fields[k] ELSE k
         IN  FlattenSeq([k \in DOMAIN pat.sub |->
               Bound(pat.sub[k], v.sub[At(k)], types[At(k)])])

(* An accepted match takes the first arm whose pattern matches the value and   *)
(* whose guard holds, whatever the guards come to, asking no guard of an arm   *)
(* that does not match, and binds the parts of the value its pattern names:    *)
(* pass2's verdict is enough for codegen to leave the last test out, to drop   *)
(* arms and to read payloads without their tag.                               *)
FirstMatchRuns == (WellFormed /\ phase \in {"done", "aborted"}) =>
    /\ phase = "done"
    /\ Matches(arms[taken].pat, value)
    /\ passed = [i \in 1 .. taken - 1 |-> IF Matches(arms[i].pat, value) THEN "guard" ELSE "test"]
    /\ bound = Bound(arms[taken].pat, value, Type)

(* A match is rejected as not exhaustive only if some value falls through the  *)
(* arms without a guard, one that the reported pattern describes.             *)
WitnessUncovered == (WellFormed /\ witness # <<>>) =>
    \A i \in Inst : \E v \in Values(Concrete(subject, i)) :
       /\ Fits(witness[1], v)
       /\ \A k \in DOMAIN arms : Matches(arms[k].pat, v) => arms[k].guard
=============================================================================
