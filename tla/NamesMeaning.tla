---------------------------- MODULE NamesMeaning ----------------------------
(***************************************************************************)
(* What the names of a program mean, said without tables or passes: by the *)
(* declarations written in each module, file and namespace, whatever the   *)
(* order of the files and of the declarations in them; only imports have   *)
(* an order, a later one hiding an earlier one.  The machine of Names is   *)
(* held against it.                                                        *)
(***************************************************************************)
EXTENDS Names

Named(S, name, kinds) == {d \in S : Decls[d].kind \in kinds /\ Decls[d].name = name}
Public(m) == {d \in Declared(m) : ~Decls[d].private}
TopLevel(ns) == UNION {Declared(f.name) : f \in {f \in ToSet(files) : f.ns = ns}}
Written == UNION {Declared(s) : s \in DOMAIN text}
Half(d) == CASE IsModule(d) -> "module" [] IsLet(d) -> "value" [] OTHER -> "type"

\* What an import brings, given what the imports before it brought.
OrElse(S, T) == IF S # {} THEN S ELSE T
SubmodulesNamed(ms, x) == UNION {Named(Public(m), x, {"module"}) : m \in ms}
Source(i, given) ==
    LET head == Decls[i].from[1]
    IN FoldLeft(SubmodulesNamed,
                OrElse(Named(TopLevel(IF Decls[i].ns = NULL THEN Ns(i) ELSE Decls[i].ns), head, {"module"}),
                       {b.sym : b \in {b \in given : b.name = head /\ IsModule(b.sym)}}),
                Tail(Decls[i].from))
Brought(i, given) ==
    IF Decls[i].from = <<>>
    THEN {[name |-> LocalName(i), sym |-> d] :
            d \in Named(TopLevel(Decls[i].ns), Decls[i].name, Types \cup {"module"})}
    ELSE UNION {IF Decls[i].name = "*"
                THEN {[name |-> Decls[d].name, sym |-> d] : d \in Public(m)}
                ELSE {[name |-> LocalName(i), sym |-> d] : d \in Named(Public(m), Decls[i].name, Kinds)}
                  : m \in Source(i, given)}
Replacing(given, new) ==
    {b \in given : \A n \in new : n.name # b.name \/ Half(n.sym) # Half(b.sym)} \cup new
Bring(given, i) == Replacing(given, Brought(i, given))
\* What the imports of each module and file bring, all of them; the operators
\* below take it as `imp`.
AllBrought ==
    UNION {{[into |-> s, name |-> b.name, sym |-> b.sym] : b \in FoldLeft(Bring, {}, Imports(s))} :
              s \in {s \in DOMAIN text : Imports(s) # <<>>}}
Given(imp, s) == {b \in imp : b.into = s}
ImportedAs(imp, s, name, kinds) ==
    {b.sym : b \in {b \in imp : b.into = s /\ b.name = name /\ Decls[b.sym].kind \in kinds}}

\* What a name means inside let l: the innermost level that has it.
Levels(imp, l, mods, name, kinds) ==
    FlattenSeq([k \in DOMAIN mods |-> <<Named(Declared(mods[k]), name, kinds),
                                        ImportedAs(imp, mods[k], name, kinds)>>])
    \o <<IF mods = <<>> THEN Named(Declared(File(l).name), name, kinds \cap {"let"}) ELSE {},
         ImportedAs(imp, File(l).name, name, kinds),
         Named(TopLevel(File(l).ns), name, kinds)>>
Meaning(imp, l, name, kinds) ==
    FirstOf(SelectSeq(Levels(imp, l, Enclosing[l], name, kinds), LAMBDA S : S # {}), {})

\* The declarations a path denotes inside let l; a private member only in its module.
Visible(l, m) == IF Enclosing[l] # <<>> /\ Enclosing[l][1] = m THEN Declared(m) ELSE Public(m)
Through(l, S, name) == UNION {Named(Visible(l, m), name, Kinds) : m \in {m \in S : IsModule(m)}}
HeadKinds(u) ==
    CASE Len(u.path) > 1 /\ u.as = "type" -> {"module"}
      [] u.as = "type"                    -> Types
      [] OTHER                            -> Kinds
Meant(imp, l, u) ==
    {d \in FoldLeft(LAMBDA S, x : Through(l, S, x), Meaning(imp, l, u.path[1], HeadKinds(u)), Tail(u.path)) :
        IF u.as = "type" THEN Decls[d].kind \in Types ELSE IsLet(d)}

(***************************************************************************)
(* Which programs are well formed.                                         *)
(***************************************************************************)
LetsWritten == {d \in Written : IsLet(d)}
ImportsIn(s) == ToSet(Imports(s))
Pair(d, e) == {Half(d), Half(e)} = {"module", "type"}
Clash(S) == \E d, e \in S : d # e /\ Decls[d].name = Decls[e].name /\ ~Pair(d, e)
NoClash ==
    /\ \A m \in DOMAIN text \cap Modules : ~Clash(Declared(m))
    /\ \A f \in ToSet(files) : ~Clash(TopLevel(f.ns))
    /\ \A S \in {{d \in Written : ~IsModule(d) /\ ~IsMain(d)}} :
          \A name \in {[d \in S |-> CName(d)]} : IsInjective(name)
LetsInPlace ==
    \A d \in LetsWritten : Owner(d) = NULL => Ns(d) = NULL /\ \E e \in Declared(File(d).name) : IsMain(e)
ImportsResolve ==
    \A s \in DOMAIN text : \A k \in DOMAIN Imports(s) :
       \A i \in {Imports(s)[k]}, given \in {FoldLeft(Bring, {}, SubSeq(Imports(s), 1, k - 1))} :
          IF Decls[i].name = "*" THEN Source(i, given) # {} ELSE Brought(i, given) # {}
UsesDenote(imp) == \A l \in LetsWritten : \A k \in DOMAIN uses[l] : Meant(imp, l, uses[l][k]) # {}

\* A constant's type may not depend on itself; a function's is its signature.
\* `deps` relates each let to the lets its uses denote.
Constants == {d \in LetsWritten : ~Decls[d].fun}
Dependences(imp) ==
    UNION {{<<l, d>> : d \in LetsWritten \cap UNION {Meant(imp, l, uses[l][k]) : k \in DOMAIN uses[l]}} :
              l \in LetsWritten}
Needs(deps) == deps \cap (Constants \X Constants)

\* A constant that leads back to itself, but only through a function: whether
\* that is a cycle depends on which of them is checked first.
LeadsTo(deps, c) ==
    FoldSet(LAMBDA l, S : S \cup {r[2] : r \in {r \in deps : r[1] \in S}},
            {r[2] : r \in {r \in deps : r[1] = c}}, LetsWritten)
Tangled(deps) == ~Circular(Needs(deps)) /\ \E c \in Constants : c \in LeadsTo(deps, c)

Heads(imp, l, u) ==
    IF u.as = "type" THEN Meant(imp, l, u) ELSE Meaning(imp, l, u.path[1], Kinds)
Mentions(imp, d) ==
    CASE IsLet(d)    -> UNION {Heads(imp, d, uses[d][k]) : k \in DOMAIN uses[d]}
      [] IsModule(d) -> {b.sym : b \in Given(imp, d)}
                        \cup UNION {Source(i, Given(imp, d)) :
                                      i \in {i \in ImportsIn(d) : Decls[i].from # <<>>}}
      [] OTHER       -> {}
RefersTo(imp) ==
    UNION {{<<Top[d], Top[e]>> : e \in {e \in Mentions(imp, d) : IsModule(Top[e]) /\ Top[e] # Top[d]}}
             : d \in {d \in Written : IsModule(Top[d])}}

WellFormed(imp, deps) ==
    /\ NoClash /\ LetsInPlace /\ ImportsResolve /\ UsesDenote(imp)
    /\ ~Circular(Needs(deps))
    /\ ~Circular(RefersTo(imp))
=============================================================================
