------------------------------ MODULE MonoTypes ------------------------------
(* The types monomorphization works on, with one parameter per template: a    *)
(* type is a word of constructors read from the outside in and ending in a    *)
(* base type, so box<node<i32>?> is <<"box", "opt", "node">>.  A template's   *)
(* body or definition is a sequence of sites, each naming a type that may end *)
(* in the template's parameter.                                              *)
EXTENDS Naturals, Sequences, SequencesExt

CONSTANTS
    Wrapper,             \* built-in constructors: pointer, slice, option ...
    Aggregate,           \* generic struct and union templates
    Callee,              \* generic function templates
    ConstGeneric,        \* those with a const parameter
    MaxWord, MaxConst,   \* bounds of the words and const arguments considered
    ErrConst             \* the error type in place of a const argument

Word == UNION {[1 .. n -> Wrapper \cup Aggregate] : n \in 0 .. MaxWord}

(* An instance: its type argument, and its const argument (0 if none). *)
Instance ==
    [tmpl : Aggregate \cup Callee, arg : Word, const : {0}] \cup
    [tmpl : ConstGeneric, arg : Word, const : 0 .. MaxConst \cup {ErrConst}]

TypeInst == {x \in Instance : x.tmpl \in Aggregate}

(* A site: "type" names the type open or closed; "call" also calls the        *)
(* function to with it and with the const argument given by step.             *)
Site == [to : Callee \cup {"type"}, word : Word, open : BOOLEAN,
         step : {"zero", "same", "inc", "div"}]

(* type_substitute on a word: the parameter is its innermost constructor. *)
type_substitute(s, x) == IF s.open THEN s.word \o x.arg ELSE s.word

(* The const argument of a call: arithmetic wraps at the width, division by   *)
(* zero and anything computed from an error type fail.                       *)
const_eval(s, x) ==
    CASE s.step = "zero" -> 0
      [] s.step = "same" -> x.const
      [] s.step = "inc"  -> IF x.const = ErrConst THEN ErrConst
                            ELSE (x.const + 1) % (MaxConst + 1)
      [] s.step = "div"  -> IF x.const \in {0, ErrConst} THEN ErrConst ELSE 1

(* The instances a concrete type names, innermost first. *)
NamedBy(w) ==
    LET heads == SetToSortSeq({n \in DOMAIN w : w[n] \in Aggregate}, LAMBDA m, n : m > n)
    IN  [k \in DOMAIN heads |->
            [tmpl |-> w[heads[k]], arg |-> SubSeq(w, heads[k] + 1, Len(w)), const |-> 0]]

(* The same where an expression has the type: after each instance what its    *)
(* fields name, which the walk of the type node comes to next.  A type named   *)
(* inside a field is a stub, and the walk goes no further.                    *)
NamedByNode(named, fieldRefs) ==
    FoldLeftDomain(LAMBDA refs, k : Append(refs, named[k]) \o fieldRefs[k], <<>>, named)

(* What one site registers under the substitution that makes x: a call's     *)
(* argument types, then the callee.                                          *)
SiteRefs(s, x) ==
    LET w == type_substitute(s, x)
        n == const_eval(s, x)
    IN  NamedBy(w) \o (IF s.to = "type" THEN <<>>
                        ELSE <<[tmpl |-> s.to, arg |-> w, const |-> n]>>)

(* The instance a field's own type is, through its wrappers: what the emitted *)
(* C spells.                                                                 *)
FieldInstance(w) ==
    LET heads == {n \in DOMAIN w : w[n] \in Aggregate}
    IN  {[tmpl |-> w[n], arg |-> SubSeq(w, n + 1, Len(w)), const |-> 0] :
            n \in {n \in heads : \A m \in heads : n <= m}}

WordDepth(w) == Len(w) + 1
=============================================================================
