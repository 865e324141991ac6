------------------------------ MODULE Patterns ------------------------------
(* The patterns of a match (pass2.c): what check_match_pattern accepts and     *)
(* rewrites, how or-patterns are flattened, and the exhaustiveness check by    *)
(* matrices of constructors.                                                 *)
(*                                                                             *)
(* Types, patterns and values are trees.  A type is [kind, name, of]: of holds *)
(* the payload or field types, name a union or enum of Variants.  A pattern is *)
(* [kind, name, fields, sub]: name is its literal, variant or binding, fields  *)
(* the fields a struct pattern mentions.  A value is [ctor, sub].              *)
EXTENDS Naturals, Sequences, FiniteSets, SequencesExt

CONSTANTS
    Variants,        \* [union or enum name -> Seq([name, of])], of = <<>>: no payload
    Ints,            \* the values of an integer, one that no pattern writes among them
    Addresses,       \* the values of a pointer
    MaxOrExpansion   \* MAX_OR_EXPANSION

T(kind, of) == [kind |-> kind, name |-> "", of |-> of]
Named(kind, name) == [kind |-> kind, name |-> name, of |-> <<>>]
P(kind, name, sub) == [kind |-> kind, name |-> name, fields |-> <<>>, sub |-> sub]
M(ctor, sub) == [ctor |-> ctor, sub |-> sub]
IntType == T("int", <<>>)
Leaf == {"wild", "bind", "int", "bool", "none"}

VariantsOf(type) == Range(Variants[type.name])
HasVariant(type, name) == \E v \in VariantsOf(type) : v.name = name
Payload(type, name) == (CHOOSE v \in VariantsOf(type) : v.name = name).of

-----------------------------------------------------------------------------
(* check_match_pattern: the pattern as rewritten, and whether it was accepted. *)

Accept(pat) == [pat |-> pat, ok |-> TRUE]
AcceptIf(pat, holds) == [pat |-> pat, ok |-> holds]

(* A bare name that is one of the type's variants is that variant.            *)
BareName(pat, type, reject_bindings) ==
    IF ~(type.kind \in {"union", "enum"} /\ HasVariant(type, pat.name))
    THEN AcceptIf(pat, ~reject_bindings)
    ELSE IF Payload(type, pat.name) = <<>> THEN Accept(P("variant", pat.name, <<>>))
    ELSE AcceptIf(P("variant", pat.name, <<P("wild", "", <<>>)>>), FALSE)

RECURSIVE check_match_pattern(_, _, _)
check_match_pattern(pat, type, reject_bindings) ==
    LET Parts(types, reject) ==
          LET r == [k \in DOMAIN pat.sub |->
                      check_match_pattern(pat.sub[k], types[k], reject)]
          IN  [pat |-> [pat EXCEPT !.sub = [k \in DOMAIN @ |-> r[k].pat]],
               ok |-> \A k \in DOMAIN r : r[k].ok]
        PartsIf(holds, types) ==
          IF holds THEN Parts(types, reject_bindings) ELSE AcceptIf(pat, FALSE)
    IN  CASE pat.kind = "wild" -> Accept(pat)
          [] pat.kind = "bind" -> BareName(pat, type, reject_bindings)
          [] pat.kind \in {"int", "bool"} -> AcceptIf(pat, type.kind = pat.kind)
          [] pat.kind = "none" -> AcceptIf(pat, type.kind = "option")
          [] pat.kind = "some" -> PartsIf(type.kind = "option", type.of)
          [] pat.kind = "ok" ->
               PartsIf(type.kind = "result" /\ (pat.sub = <<>>) = (type.of[1].kind = "void"),
                       type.of)
          [] pat.kind = "err" -> PartsIf(type.kind = "result", <<IntType>>)
          [] pat.kind = "variant" ->
               IF type.kind = "union" /\ HasVariant(type, pat.name)
               THEN PartsIf(Payload(type, pat.name) # <<>>, Payload(type, pat.name))
               ELSE AcceptIf(pat, FALSE)   \* with a payload, which no enum's has
          [] pat.kind = "tuple" ->
               PartsIf(type.kind = "tuple" /\ Len(pat.sub) = Len(type.of), type.of)
          [] pat.kind = "struct" ->
               PartsIf(type.kind = "struct" /\ Range(pat.fields) \subseteq DOMAIN type.of,
                       [k \in DOMAIN pat.sub |-> type.of[pat.fields[k]]])
          [] pat.kind = "or" -> Parts([k \in DOMAIN pat.sub |-> type], TRUE)

RECURSIVE BoundNames(_)
BoundNames(pat) ==
    IF pat.kind = "bind" THEN <<pat.name>>
    ELSE FlattenSeq([k \in DOMAIN pat.sub |-> BoundNames(pat.sub[k])])

(* check_dup_bindings                                                        *)
BindsOnce(pat) == IsInjective(BoundNames(pat))

-----------------------------------------------------------------------------
(* Or-patterns                                                               *)

(* The k-th of each only.                                                    *)
FaultyProduct(alts) ==
    [k \in 1 .. Min({Len(alts[i]) : i \in DOMAIN alts}) |-> [i \in DOMAIN alts |-> alts[i][k]]]

(* Every combination, the last position fastest.                             *)
Product(alts) ==
    FoldLeft(LAMBDA combos, alt : FlattenSeq([c \in DOMAIN combos |->
               [a \in DOMAIN alt |-> Append(combos[c], alt[a])]]),
             << <<>> >>, alts)

(* The or-free patterns a pattern stands for; none if there are too many.     *)
RECURSIVE flatten_or_pattern(_)
flatten_or_pattern(pat) ==
    IF pat.kind \in Leaf \/ pat.sub = <<>> THEN <<pat>>
    ELSE LET alts == [k \in DOMAIN pat.sub |-> flatten_or_pattern(pat.sub[k])]
             flat == IF pat.kind = "or" THEN FlattenSeq(alts)
                     ELSE LET combos == Product(alts)
                          IN  [c \in DOMAIN combos |-> [pat EXCEPT !.sub = combos[c]]]
         IN  IF (\E k \in DOMAIN alts : alts[k] = <<>>) \/ Len(flat) > MaxOrExpansion
             THEN <<>> ELSE flat

-----------------------------------------------------------------------------
(* The matrix: rows of constructor patterns.                                 *)

Wild == M("_", <<>>)
Wilds(n) == [k \in 1 .. n |-> Wild]

type_ctors_list(type) ==
    CASE type.kind = "bool" -> <<"true", "false">>
      [] type.kind = "option" -> <<"some", "none">>
      [] type.kind = "result" -> <<"ok", "err">>
      [] type.kind \in {"struct", "tuple"} -> <<"struct">>
      [] type.kind \in {"union", "enum"} ->
           [k \in DOMAIN Variants[type.name] |-> Variants[type.name][k].name]
Enumerable(type) ==
    type.kind \in {"bool", "option", "result", "struct", "tuple", "union", "enum"}

ctor_sub_types(ctor, type) ==
    CASE type.kind \in {"union", "enum"} -> Payload(type, ctor)
      [] type.kind \in {"struct", "tuple"} -> type.of
      [] ctor \in {"some", "ok"} -> type.of
      [] ctor = "err" -> <<IntType>>
      [] OTHER -> <<>>

(* A field mentioned twice has the last pattern given for it.                 *)
RECURSIVE pat_to_matpat(_, _)
pat_to_matpat(pat, type) ==
    LET Sub(types) == [k \in DOMAIN pat.sub |-> pat_to_matpat(pat.sub[k], types[k])]
    IN  CASE pat.kind \in {"wild", "bind", "or"} -> Wild
          [] pat.kind \in {"int", "bool"} -> M(pat.name, <<>>)
          [] pat.kind = "variant" -> M(pat.name, Sub(ctor_sub_types(pat.name, type)))
          [] pat.kind = "tuple" -> M("struct", Sub(type.of))
          [] pat.kind = "struct" ->
               M("struct", [f \in DOMAIN type.of |->
                   LET given == {k \in DOMAIN pat.fields : pat.fields[k] = f}
                   IN  IF given = {} THEN Wild
                       ELSE pat_to_matpat(pat.sub[Max(given)], type.of[f])])
          [] OTHER -> M(pat.kind, IF pat.sub # <<>> THEN Sub(ctor_sub_types(pat.kind, type))
                                  ELSE Wilds(Len(ctor_sub_types(pat.kind, type))))

specialize(rows, ctor, arity) ==
    LET kept == SelectSeq(rows, LAMBDA row : row[1].ctor \in {"_", ctor})
    IN  [k \in DOMAIN kept |->
           (IF kept[k][1] = Wild THEN Wilds(arity) ELSE kept[k][1].sub) \o Tail(kept[k])]

default_matrix(rows) ==
    LET kept == SelectSeq(rows, LAMBDA row : row[1] = Wild)
    IN  [k \in DOMAIN kept |-> Tail(kept[k])]

(* A witness of the specialized matrix, with its constructor put back.        *)
Rebuild(w, ctor, arity) == <<M(ctor, SubSeq(w, 1, arity))>> \o SubSeq(w, arity + 1, Len(w))

(* <<>>, or <<w>> for a row w of patterns that no row of the matrix covers.   *)
RECURSIVE find_witness(_, _)
find_witness(rows, types) ==
    IF types = <<>> THEN IF rows = <<>> THEN << <<>> >> ELSE <<>>
    ELSE LET type == types[1]
             ctors == IF Enumerable(type) THEN type_ctors_list(type) ELSE <<>>
             head == {rows[r][1].ctor : r \in DOMAIN rows}
             missing == {k \in DOMAIN ctors : ctors[k] \notin head}
             Arity(ctor) == Len(ctor_sub_types(ctor, type))
         IN  IF Enumerable(type) /\ missing = {}
             THEN LET For(ctor) == find_witness(specialize(rows, ctor, Arity(ctor)),
                                                ctor_sub_types(ctor, type) \o Tail(types))
                      open == {k \in DOMAIN ctors : For(ctors[k]) # <<>>}
                  IN  IF open = {} THEN <<>>
                      ELSE LET ctor == ctors[Min(open)]
                           IN  <<Rebuild(For(ctor)[1], ctor, Arity(ctor))>>
             ELSE LET w == find_witness(default_matrix(rows), Tail(types))
                      first == IF ~Enumerable(type) THEN Wild
                               ELSE LET ctor == ctors[Min(missing)]
                                    IN  M(ctor, Wilds(Arity(ctor)))
                  IN  IF w = <<>> THEN <<>> ELSE << <<first>> \o w[1] >>

-----------------------------------------------------------------------------
(* What it all is about: values.                                             *)

RECURSIVE Values(_)
Values(type) ==
    LET Of(ctor, types) ==
          {M(ctor, s) : s \in {s \in [DOMAIN types -> UNION {Values(types[k]) : k \in DOMAIN types}] :
                                 \A k \in DOMAIN types : s[k] \in Values(types[k])}}
    IN  CASE type.kind = "int" -> {M(i, <<>>) : i \in Ints}
          [] type.kind = "pointer" -> {M(a, <<>>) : a \in Addresses}
          [] type.kind = "void" -> {M("()", <<>>)}
          [] OTHER ->
               UNION {Of(ctor, ctor_sub_types(ctor, type)) : ctor \in Range(type_ctors_list(type))}
                 \ {M("err", <<M("0", <<>>)>>)}   \* an error's code is never 0

(* Pattern and value.                                                        *)
RECURSIVE Matches(_, _)
Matches(pat, v) ==
    CASE pat.kind \in {"wild", "bind"} -> TRUE
      [] pat.kind = "or" -> \E k \in DOMAIN pat.sub : Matches(pat.sub[k], v)
      [] pat.kind = "struct" ->
           \A k \in DOMAIN pat.sub : Matches(pat.sub[k], v.sub[pat.fields[k]])
      [] pat.kind = "tuple" -> \A k \in DOMAIN pat.sub : Matches(pat.sub[k], v.sub[k])
      [] OTHER -> /\ v.ctor = IF pat.kind \in {"int", "bool", "variant"} THEN pat.name
                              ELSE pat.kind
                  /\ \A k \in DOMAIN pat.sub : Matches(pat.sub[k], v.sub[k])

RECURSIVE Fits(_, _)
Fits(m, v) ==
    \/ m = Wild
    \/ m.ctor = v.ctor /\ \A k \in DOMAIN m.sub : Fits(m.sub[k], v.sub[k])

RECURSIVE IsPatternOf(_, _)
IsPatternOf(m, type) ==
    \/ m = Wild
    \/ /\ Enumerable(type) /\ m.ctor \in Range(type_ctors_list(type))
       /\ LET types == ctor_sub_types(m.ctor, type)
          IN  /\ Len(m.sub) = Len(types)
              /\ \A k \in DOMAIN types : IsPatternOf(m.sub[k], types[k])

(* A struct pattern that mentions a field twice.                             *)
RECURSIVE RepeatsField(_)
RepeatsField(pat) ==
    ~IsInjective(pat.fields) \/ \E k \in DOMAIN pat.sub : RepeatsField(pat.sub[k])
=============================================================================
