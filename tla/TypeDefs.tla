------------------------------ MODULE TypeDefs ------------------------------
(***************************************************************************)
(* The C type definitions of a program (codegen.c, emit_types): every      *)
(* slice, option, result and function type it uses is collected, every     *)
(* struct and union ordered after what it holds by value, options and      *)
(* results defined as soon as what they wrap is, and an equality function  *)
(* emitted for each type that is compared and for what it is made of.      *)
(* pass2 has refused the types that contain themselves by value.           *)
(*                                                                         *)
(* A type is named in a field before the type need exist, by a stub; an    *)
(* expression's type is resolved.  The sets and the comparisons of the     *)
(* emitter meet both spellings of one type.                                *)
(***************************************************************************)
EXTENDS Naturals, SequencesExt

VARIABLES
    decls,     \* in the order of the program
    entries    \* the instance table, as monomorphization leaves it

(***************************************************************************)
(* Types and declarations.  A type has the fields                          *)
(*   k      its kind: "int", "float", "void", "enum", "var" (a type        *)
(*          parameter), "ptr", "slice", "array", "opt", "res", "fn",       *)
(*          "struct", "union", or "stub", a struct, union or enum by name  *)
(*   n      the name of a declared one                                     *)
(*   of     what it is made of; a function's parameters and its result;    *)
(*          the arguments of a generic instance                            *)
(*   const  of a pointer: to read only                                     *)
(* A declaration is a struct, union or enum with the types of its fields   *)
(* or payloads, generic or not, or a let with the types of its             *)
(* expressions, and those among them that it compares.                     *)
(***************************************************************************)
Type(k, of) == [k |-> k, n |-> "", of |-> of, const |-> FALSE]
Named(k, n, args) == [Type(k, args) EXCEPT !.n = n]
Stub(n, args) == Named("stub", n, args)
Bare(t) == [t EXCEPT !.const = FALSE]
Over(t, of) == [t EXCEPT !.of = of]
Aggregate == {"struct", "union"}

DeclOf(n) == CHOOSE d \in ToSet(decls) : d.n = n
IsType(d) == d.kind \in Aggregate
Generic(d) == IsType(d) /\ d.generic
Emitted(d) == IsType(d) /\ ~d.generic

RECURSIVE type_substitute(_, _)
type_substitute(t, args) ==
    IF t.k = "var" THEN args[1]
    ELSE Over(t, [i \in DOMAIN t.of |-> type_substitute(t.of[i], args)])

Resolved(t) == Named(DeclOf(t.n).kind, t.n, t.of)

\* The type an expression has: without stubs, but for the fields of what it names.
RECURSIVE resolve_type(_)
resolve_type(t) ==
    LET of == [i \in DOMAIN t.of |-> resolve_type(t.of[i])]
    IN IF t.k = "stub" THEN Named(DeclOf(t.n).kind, t.n, of) ELSE Over(t, of)

\* The fields or payloads of a resolved struct or union.
Parts(t) ==
    IF t.of = <<>> THEN DeclOf(t.n).parts
    ELSE [i \in DOMAIN DeclOf(t.n).parts |-> type_substitute(DeclOf(t.n).parts[i], t.of)]

-----------------------------------------------------------------------------
(* Generic instances *)

\* Those that the type is made of, each as a resolved struct.
RECURSIVE discover_nested_types(_)
discover_nested_types(t) ==
    LET inner == UNION {discover_nested_types(t.of[i]) : i \in DOMAIN t.of} IN
    CASE t.k = "stub" -> inner \cup (IF t.of = <<>> THEN {} ELSE {Resolved(t)})
      [] t.k \in Aggregate ->
             inner \cup (IF t.of = <<>> THEN {} ELSE {t})
             \cup UNION {discover_nested_types(p) : p \in ToSet(Parts(t))}
      [] OTHER -> inner

\* The instance table: those in the types of expressions, and on from there.
\* The fields of what is not generic do not enter it by themselves.
RECURSIVE Reached(_)
Reached(S) ==
    LET more == UNION {discover_nested_types(p) : p \in UNION {ToSet(Parts(t)) : t \in S}}
    IN IF more \subseteq S THEN S ELSE Reached(S \cup more)

\* Of what an expression's type names, all the way down.
RECURSIVE NamedIn(_)
NamedIn(t) ==
    (IF t.k \in Aggregate /\ t.of # <<>> THEN {t} ELSE {}) \cup UNION {NamedIn(u) : u \in ToSet(t.of)}

Instances ==
    Reached(UNION {NamedIn(t) : t \in UNION {ToSet(d.parts) : d \in {d \in ToSet(decls) : d.kind = "let"}}})

\* In some order: what follows does not depend on it.
Table == SetToSeq(entries)

\* What a stub names: the instance, else the declaration of that name if it
\* is an enum or has fields, which for an instance nobody registered is the
\* template, else nothing.  A stub that monomorphization renamed is one here
\* whose instance is in the table: the last lookup, by that name, finds no other.
resolve_struct_stub(t) ==
    CASE t.k # "stub" -> t
      [] t.k = "stub" /\ Resolved(t) \in entries -> Resolved(t)
      [] t.k = "stub" /\ Resolved(t) \notin entries
           /\ (DeclOf(t.n).kind = "enum" \/ DeclOf(t.n).parts # <<>>) ->
             Named(DeclOf(t.n).kind, t.n, <<>>)
      [] OTHER -> t

-----------------------------------------------------------------------------
(* Names in C *)

\* The identifier of a type: stubs resolved, and the element of a slice
\* without its const.
RECURSIVE emit_type_ident(_)
emit_type_ident(t) ==
    LET s == resolve_struct_stub(t)
        of == [i \in DOMAIN s.of |-> emit_type_ident(s.of[i])]
    IN Over(s, IF s.k = "slice" THEN <<Bare(of[1])>> ELSE of)

is_null_sentinel(t) == t.k = "opt" /\ t.of[1].k = "ptr"

\* The identifiers that have to be declared where the C type is spelled, and
\* those whose definition has to precede an object of it.
RECURSIVE Spelled(_), Held(_)
Spelled(t) ==
    CASE t.k \in {"int", "float", "void"} -> {}
      [] t.k \in {"ptr", "array"} \/ is_null_sentinel(t) -> Spelled(t.of[1])
      [] OTHER -> {emit_type_ident(t)}
Held(t) ==
    CASE t.k \in {"int", "float", "void", "ptr"} \/ is_null_sentinel(t) -> {}
      [] t.k = "array" -> Held(t.of[1])
      [] OTHER -> {emit_type_ident(t)}

\* The name a declared type goes by where types are compared: of a stub, that
\* of its declaration, whatever its arguments.
type_udt_name(t) ==
    IF t.k = "stub" THEN Stub(t.n, <<>>) ELSE Stub(t.n, emit_type_ident(t).of)

\* Whether two types have one C typedef, told by comparing their structure.
RECURSIVE type_ident_eq(_, _)
type_ident_eq(a, b) ==
    LET Udt == Aggregate \cup {"enum", "stub"} IN
    IF a.k \in Udt \/ b.k \in Udt
    THEN a.k \in Udt /\ b.k \in Udt /\ type_udt_name(a) = type_udt_name(b)
    ELSE /\ a.k = b.k
         /\ a.k = "ptr" => a.const = b.const
         /\ Len(a.of) = Len(b.of)
         /\ \A i \in DOMAIN a.of :
               IF a.k = "slice" THEN type_ident_eq(Bare(a.of[i]), Bare(b.of[i]))
               ELSE type_ident_eq(a.of[i], b.of[i])

typeset_contains(ts, t) == \E i \in DOMAIN ts : type_ident_eq(ts[i], t)
typeset_add(ts, t) == IF typeset_contains(ts, t) THEN ts ELSE Append(ts, t)

-----------------------------------------------------------------------------
(* What is collected *)

Collected == [slice |-> <<>>, opt |-> <<>>, res |-> <<>>, fn |-> <<>>]
Noted(sets, t) == [sets EXCEPT ![t.k] = typeset_add(@, t)]

\* What a wrapper or a signature is made of by name is taken for what it names;
\* faulty: it is not.
Faulty_Canonical(t) == t
Canonical(t) == Over(t, [i \in DOMAIN t.of |-> resolve_struct_stub(t.of[i])])

\* The type after those it is made of; what a pointer points to as well, but
\* not the fields of a struct.
RECURSIVE collect_types_in_type(_, _)
collect_types_in_type(sets, t) ==
    LET c == IF t.k \in {"opt", "res", "fn"} THEN Canonical(t) ELSE t
        inner == FoldLeft(collect_types_in_type, sets, c.of)
    IN CASE t.k = "array" -> Noted(inner, Type("slice", t.of))
         [] t.k \in {"slice", "res", "fn"} -> Noted(inner, c)
         [] t.k = "opt" -> IF is_null_sentinel(c) THEN inner ELSE Noted(inner, c)
         [] t.k = "ptr" -> inner
         [] OTHER -> sets

\* All types of the program: of the declarations, then of the instances.
TypeSets ==
    LET declared == FoldLeft(LAMBDA ts, d : IF Generic(d) THEN ts ELSE ts \o d.parts, <<>>, decls)
    IN FoldLeft(collect_types_in_type, Collected,
                FoldLeft(LAMBDA ts, t : ts \o Parts(t), declared, Table))

needs_eq_func(t) ==
    \/ t.k \in Aggregate \cup {"slice", "fn", "array", "res"}
    \/ t.k = "opt" /\ ~is_null_sentinel(t)

\* The type with an equality function and what that function compares.
RECURSIVE collect_eq_types(_, _)
collect_eq_types(eqs, u) ==
    LET t == resolve_struct_stub(u) IN
    CASE t.k = "array" -> collect_eq_types(eqs, t.of[1])
      [] ~needs_eq_func(t) \/ typeset_contains(eqs, Bare(t)) -> eqs
      [] OTHER -> FoldLeft(collect_eq_types, typeset_add(eqs, Bare(t)),
                           IF t.k \in Aggregate THEN Parts(t) ELSE IF t.k = "fn" THEN <<>> ELSE t.of)

\* In the order in which the program compares.
EqSet == FoldLeft(collect_eq_types, <<>>,
                  FoldLeft(LAMBDA ts, d : IF d.kind = "let" THEN ts \o d.compared ELSE ts, <<>>, decls))

-----------------------------------------------------------------------------
(* What holds what by value *)

RECURSIVE type_byval_aggregate(_)
type_byval_aggregate(t) ==
    CASE t.k \in Aggregate \cup {"stub"} -> {t}
      [] t.k \in {"array", "opt", "res"} -> type_byval_aggregate(t.of[1])
      [] OTHER -> {}

\* pass2's search for types that contain themselves: over the declarations,
\* generic ones included, an instance going by the name of its template.
Unvisited == [state |-> [d \in {d \in ToSet(decls) : IsType(d)} |-> 0], bad |-> FALSE]

RECURSIVE visit_byval_containment(_, _)
visit_byval_containment(w, d) ==
    LET Follow(v, t) ==
            FoldLeft(LAMBDA x, e : CASE x.state[e] = 1 -> [x EXCEPT !.bad = TRUE]
                                     [] x.state[e] = 0 -> visit_byval_containment(x, e)
                                     [] OTHER -> x,
                     v, SelectSeq(decls, LAMBDA e : IsType(e) /\ \E a \in type_byval_aggregate(t) : a.n = e.n))
    IN [FoldLeft(Follow, [w EXCEPT !.state[d] = 1], d.parts) EXCEPT !.state[d] = 2]

check_infinite_size ==
    FoldLeft(LAMBDA w, d : IF IsType(d) /\ w.state[d] = 0 THEN visit_byval_containment(w, d) ELSE w,
             Unvisited, decls)

Accepted == ~check_infinite_size.bad

\* The definitions to emit, as resolved types: declarations, then instances.
Defs == LET own == SelectSeq(decls, Emitted)
        IN [i \in DOMAIN own |-> Named(own[i].kind, own[i].n, <<>>)] \o Table

\* The C name of a type as declared, and those of what it holds by value.
CName(t) == <<t.n, t.of>>
sudef_deps(t) ==
    FoldLeft(LAMBDA ds, p : ds \o SetToSeq({CName(a) : a \in type_byval_aggregate(p)}), <<>>, Parts(t))

\* Depth first: a definition follows those it depends on, but for one that is
\* still being visited.
RECURSIVE topo_visit_sudef(_, _)
topo_visit_sudef(w, t) ==
    LET Follow(v, name) ==
            FoldLeft(topo_visit_sudef, v, SelectSeq(Defs, LAMBDA s : CName(s) = name /\ s # t))
    IN IF t \in w.seen THEN w
       ELSE LET below == FoldLeft(Follow, [w EXCEPT !.seen = @ \cup {t}], sudef_deps(t))
            IN [below EXCEPT !.order = Append(@, t)]

DefOrder == FoldLeft(topo_visit_sudef, [seen |-> {}, order |-> <<>>], Defs).order

-----------------------------------------------------------------------------
(* The emitted C: a sequence of items, each a declaration, a definition or   *)
(* both, of an identifier, with the types it spells and holds by value       *)

Item(what, t, spells, holds) ==
    [what |-> what, id |-> emit_type_ident(t), spells |-> spells, holds |-> holds, calls |-> <<>>]
Forward(t) == Item("declares", t, <<>>, <<>>)
Body(t, members) == Item("defines", t, members, members)

\* Wrapper bodies: whatever wraps what is complete, again and again.
wrap_inner_complete(we, inner) ==
    LET Waiting(set) == \E t \in ToSet(set) : type_ident_eq(t, inner) /\ t \notin we.wrapped
    IN CASE inner.k \in Aggregate -> CName(inner) \in we.defined
         [] inner.k = "stub" -> <<inner.n, <<>>>> \in we.defined
         [] inner.k \in {"opt", "res"} -> ~Waiting(we.sets[inner.k])
         [] OTHER -> TRUE

WrapIn(we, t) ==
    IF t \in we.wrapped \/ ~wrap_inner_complete(we, t.of[1]) THEN we
    ELSE [we EXCEPT !.wrapped = @ \cup {t}, !.out = Append(@, Body(t, t.of))]

RECURSIVE emit_wrapper_bodies(_)
emit_wrapper_bodies(we) ==
    LET pass == FoldLeft(WrapIn, FoldLeft(WrapIn, we, we.sets.opt), we.sets.res)
    IN IF pass = we THEN we ELSE emit_wrapper_bodies(pass)

\* Definitions in order, after each the wrappers it unlocks.
Define(we, t) ==
    emit_wrapper_bodies([we EXCEPT !.out = Append(@, Body(t, Parts(t))), !.defined = @ \cup {CName(t)}])

-----------------------------------------------------------------------------
(* Equality functions *)

\* How a part is compared: by the function of a type, by C's operator, or,
\* the elements of an array, as bytes.
ByFunction(t) == [of |-> t, by |-> "function", id |-> emit_type_ident(Type("eq", <<t>>))]
ByOperator(t) == [of |-> t, by |-> "operator", id |-> <<>>]
AsBytes(t) == [of |-> t, by |-> "bytes", id |-> <<>>]

emit_value_eq(u) ==
    LET t == resolve_struct_stub(u)
    IN IF needs_eq_func(t) THEN ByFunction(t) ELSE ByOperator(t)
\* Faulty: a float is compared as bytes.
Faulty_ElementEq(t) == IF needs_eq_func(t) THEN ByFunction(t) ELSE AsBytes(t)
ElementEq(t) ==
    CASE needs_eq_func(t) -> ByFunction(t) [] t.k = "float" -> ByOperator(t) [] OTHER -> AsBytes(t)

Comparisons(t) ==
    CASE t.k = "struct" ->
             [i \in DOMAIN Parts(t) |-> IF Parts(t)[i].k = "array" THEN ElementEq(Parts(t)[i].of[1])
                                       ELSE emit_value_eq(Parts(t)[i])]
      [] t.k = "union" -> [i \in DOMAIN Parts(t) |-> emit_value_eq(Parts(t)[i])]
      [] t.k = "slice" -> <<ElementEq(t.of[1])>>
      [] t.k \in {"opt", "res"} /\ t.of[1].k # "void" -> <<emit_value_eq(t.of[1])>>
      [] OTHER -> <<>>

EqType(t) == Type("eq", <<t>>)
emit_eq_forward(t) == Item("declares", EqType(t), <<t>>, <<>>)
emit_eq_func(t) == [Item("defines", EqType(t), <<t>>, <<t>>) EXCEPT !.calls = Comparisons(t)]

-----------------------------------------------------------------------------
(* All of it, in the order of the file *)

emit_types ==
    LET sets == TypeSets
        eqs == EqSet
        enums == SelectSeq(decls, LAMBDA d : d.kind = "enum")
        Each(F(_), ts) == [i \in DOMAIN ts |-> F(ts[i])]
        Typedef(d) == Item("both", Named("enum", d.n, <<>>), <<>>, <<>>)
        Signature(t) == Item("both", t, t.of, <<>>)
        SliceBody(t) == Item("defines", t, t.of, <<>>)
        scalars == emit_wrapper_bodies([sets |-> sets, wrapped |-> {}, defined |-> {}, out |-> <<>>])
    IN Each(Typedef, enums)
       \o Each(Forward, Defs \o sets.opt \o sets.res \o sets.slice)
       \o Each(Signature, sets.fn)
       \o Each(SliceBody, sets.slice)
       \o FoldLeft(Define, scalars, DefOrder).out
       \o Each(emit_eq_forward, eqs)
       \o Each(emit_eq_func, eqs)
=============================================================================
