----------------------------- MODULE MCTypeDefs -----------------------------
(***************************************************************************)
(* Programs, built from a few declarations by giving one of them another   *)
(* part or wrapping its last part in a type constructor, Steps times.      *)
(* What is asked of each program: that the C for its types compiles and    *)
(* that its equality functions compare what the language compares.         *)
(***************************************************************************)
EXTENDS TypeDefs

CONSTANTS
    Families,
    MaxSteps   \* a program is a family's declarations with so many steps

VARIABLES family, steps

vars == <<decls, entries, family, steps>>

I32 == Type("int", <<>>)
F64 == Type("float", <<>>)
Void == Type("void", <<>>)
Var == Type("var", <<>>)

Decl(kind, n, parts) == [kind |-> kind, n |-> n, generic |-> FALSE, parts |-> parts, compared |-> <<>>]
\* A struct has at least one field: the parser refuses an empty one.
A == Decl("struct", "A", <<I32>>)
B == Decl("struct", "B", <<I32>>)
U == Decl("union", "U", <<I32>>)
E == Decl("enum", "E", <<>>)
Box == [Decl("struct", "Box", <<Var>>) EXCEPT !.generic = TRUE]
Main == Decl("let", "main", <<>>)
BoxOf(t) == Stub("Box", <<t>>)

\* The declarations of a family, what its parts start from, and the
\* constructors they are wrapped in.
Start ==
    CASE family = "order"   -> <<B, U, A>>
      [] family = "equal"   -> <<[A EXCEPT !.parts = <<F64>>], B, E, Main>>
      [] family = "consts"  -> <<Main, B>>
      [] family = "generic" -> <<Box, [B EXCEPT !.parts = <<BoxOf(I32)>>],
                                 [Main EXCEPT !.parts = <<Named("struct", "Box", <<I32>>), Named("struct", "Box", <<F64>>)>>]>>

Leaves(d) ==
    CASE family = "order"   -> {Stub("A", <<>>), Stub("B", <<>>), Stub("U", <<>>)}
      [] family = "equal"   -> {Stub("A", <<>>), Stub("E", <<>>)}
                               \cup (IF d.n = "B" THEN {} ELSE {Stub("B", <<>>)})
      [] family = "consts"  -> {I32, Stub("B", <<>>)}
      [] family = "generic" -> IF d.generic THEN {Var} ELSE IF d.n = "B" THEN {BoxOf(F64)}
                               ELSE {BoxOf(I32), Stub("B", <<>>)}

Wraps(t) ==
    LET Plain == {Type("opt", <<t>>), Type("res", <<t>>), Type("ptr", <<t>>), Type("slice", <<t>>),
                  Type("fn", <<t, Void>>)}
    IN CASE family = "consts" -> Plain \cup {[Type("ptr", <<t>>) EXCEPT !.const = TRUE]}
         [] OTHER -> Plain \cup {Type("array", <<t>>)}

\* How an instance may be named by a field of what is not generic: as it is,
\* below a pointer or, in a program that compares nothing, directly in a
\* wrapper or a signature; and only one that an expression has (the README says
\* what happens elsewhere).
RECURSIVE InstancesIn(_)
InstancesIn(t) ==
    (IF t.k = "stub" /\ t.of # <<>> THEN {Resolved(t)} ELSE {})
    \cup UNION {InstancesIn(u) : u \in ToSet(t.of)}
Direct(t, compares) ==
    \/ t.k = "stub"
    \/ t.k \in {"ptr"} \cup (IF compares THEN {} ELSE {"opt", "res", "fn"})
       /\ \A u \in ToSet(t.of) : u.k = "stub" \/ InstancesIn(u) = {}
Spellable ==
    LET compares == \E d \in ToSet(decls) : d.compared # <<>>
    IN \A d \in {d \in ToSet(decls) : Emitted(d)} : \A t \in ToSet(d.parts) :
          InstancesIn(t) # {} => Direct(t, compares) /\ InstancesIn(t) \subseteq entries

Init ==
    /\ family \in Families
    /\ decls = Start
    /\ entries = Instances
    /\ steps = 0

Changed(i, d) ==
    /\ decls' = [decls EXCEPT ![i] = d]
    /\ entries' = Instances'
    /\ Spellable'
    /\ steps < MaxSteps
    /\ steps' = steps + 1
    /\ UNCHANGED family

May(d) == d.kind # "enum"
\* A field's type is a stub, an expression's is resolved.
Spelling(d, t) == IF d.kind = "let" THEN resolve_type(t) ELSE t

AddPart ==
    \E i \in DOMAIN decls : \E t \in Leaves(decls[i]) :
        /\ May(decls[i])
        /\ Changed(i, [decls[i] EXCEPT !.parts = Append(@, Spelling(decls[i], t))])

WrapPart ==
    \E i \in DOMAIN decls :
        /\ May(decls[i])
        /\ decls[i].parts # <<>>
        /\ \E t \in Wraps(Last(decls[i].parts)) :
              /\ Last(decls[i].parts).k # "array"
              /\ t.k = "array" => decls[i].kind = "struct"
              /\ Changed(i, [decls[i] EXCEPT !.parts = Append(Front(@), t)])

\* The program compares values of the last type.
Compare ==
    \E i \in DOMAIN decls :
        /\ decls[i].kind = "let"
        /\ decls[i].parts # <<>>
        /\ Changed(i, [decls[i] EXCEPT !.compared = Append(@, Last(decls[i].parts))])

Next == AddPart \/ WrapPart \/ Compare

Spec == Init /\ [][Next]_vars

-----------------------------------------------------------------------------
(* What C asks of the items *)

Scalar(t) == t.k \in {"int", "float", "ptr", "enum"} \/ is_null_sentinel(t)

AllIn(F(_), ts, S) == \A t \in ToSet(ts) : F(t) \subseteq S

Checked(c, item) ==
    LET new == item.what \in {"declares", "both"}
        whole == item.what \in {"defines", "both"}
    IN [declared |-> IF new THEN c.declared \cup {item.id} ELSE c.declared,
        complete |-> IF whole THEN c.complete \cup {item.id} ELSE c.complete,
        ok |-> /\ c.ok
               /\ AllIn(Spelled, item.spells, c.declared)
               /\ AllIn(Held, item.holds, c.complete)
               /\ whole => item.id \notin c.complete
               /\ \A x \in ToSet(item.calls) :
                     CASE x.by = "function" -> x.id \in c.declared
                       [] x.by = "operator" -> Scalar(resolve_struct_stub(x.of))
                       [] OTHER -> TRUE]

Legal ==
    LET end == FoldLeft(Checked, [declared |-> {}, complete |-> {}, ok |-> TRUE], emit_types)
    IN /\ end.ok
       /\ \A d \in {d \in ToSet(decls) : d.kind = "let"} :
             /\ AllIn(Spelled, d.parts, end.declared)
             /\ AllIn(Held, d.parts, end.complete)
             /\ \A t \in ToSet(d.compared) :
                   needs_eq_func(t) => emit_type_ident(EqType(t)) \in end.complete

\* A type has a size unless it holds itself by value, in some number of steps.
RECURSIVE HeldBy(_, _)
HeldBy(names, n) ==
    LET next == {a.n : a \in UNION {type_byval_aggregate(p) :
                          p \in UNION {ToSet(DeclOf(m).parts) : m \in names}}}
    IN IF n = 0 THEN {} ELSE next \cup HeldBy(next, n - 1)
FiniteSize == \A d \in ToSet(decls) : IsType(d) => d.n \notin HeldBy({d.n}, Len(decls))

-----------------------------------------------------------------------------
(* Properties *)

\* A program is refused exactly if one of its types contains itself by value,
\* and else the C for its types compiles: whatever the order of the
\* declarations and however options, results, slices, functions and structs
\* wrap each other, an identifier is declared before it is spelled, complete
\* before it is held by value, and defined once, the equality functions among
\* them (emit_types, emit_wrapper_bodies, collect_types_in_type).
TypesCompile ==
    /\ Accepted <=> FiniteSize
    /\ Accepted => Legal

\* Each part is compared for what it is: numbers, enums and pointers by value,
\* a float never as bytes, everything else by the function of its own type
\* (emit_eq_func).  Elements whose type is a struct or union by name are left
\* out: they are compared as bytes.
EqualityIsStructural ==
    Accepted =>
        \A t \in ToSet(EqSet) : \A c \in ToSet(Comparisons(t)) :
            LET whole == resolve_struct_stub(c.of)
            IN CASE whole.k = "float" -> c.by = "operator"
                 [] Scalar(whole) -> c.by \in {"operator", "bytes"}
                 [] c.of.k = "stub" /\ c.by = "bytes" -> TRUE
                 [] OTHER -> c.by = "function" /\ c.id = emit_type_ident(EqType(whole))
=============================================================================
