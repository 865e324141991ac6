------------------------------ MODULE MCNames ------------------------------
(* Small programs, each meant for one way names meet: levels of modules and  *)
(* imports, routes and privacy, companions, namespaces, cycles, C names.     *)
EXTENDS NamesMeaning

V(path) == [as |-> "value", path |-> path]
T(path) == [as |-> "type", path |-> path]
Let(name, alts) == [kind |-> "let", name |-> name, private |-> FALSE, owner |-> NULL, fun |-> FALSE, uses |-> alts]
Fun(name, alts) == [Let(name, alts) EXCEPT !.fun = TRUE]
Private(d) == [d EXCEPT !.private = TRUE]
Struct(name) == [kind |-> "struct", name |-> name, private |-> FALSE, owner |-> NULL]
Module(name, may) ==
    [kind |-> "module", name |-> name, private |-> FALSE, owner |-> NULL, optional |-> may]
Imp(name, alias, from, ns) ==
    [kind |-> "import", name |-> name, alias |-> alias, from |-> from, ns |-> ns,
     private |-> FALSE, owner |-> NULL]
F(name, ns, decls, may) == [name |-> name, ns |-> ns, decls |-> decls, optional |-> may]
None == {<<>>}
Any1(S) == {<<u>> : u \in S}

In(m, decls) == [d \in DOMAIN decls |-> [decls[d] EXCEPT !.owner = m]]

\* Levels: what v means at each of them, asked in order and on demand.
LevelDecls ==
    "main"    :> Fun("main", Any1({V(<<"v">>)})) @@
    "f1 o.v"  :> Imp("v", "", <<"o">>, "") @@
    "p"       :> Module("p", {"p q.v", "p.v"}) @@
    In("p", "p q.v"   :> Imp("v", "", <<"q">>, "") @@
            "p.v"     :> Let("v", None) @@
            "p.got"   :> Fun("got", Any1({V(<<"v">>), V(<<"c", "get">>)})) @@
            "p.c"     :> Module("c", {"c o.v", "c.v"})) @@
    In("p.c", "c o.v" :> Imp("v", "", <<"o">>, "") @@
              "c.v"   :> Let("v", None) @@
              "c.get" :> Fun("get", Any1({V(<<"v">>)}))) @@
    "o"       :> Module("o", {}) @@
    In("o", "o.v"     :> Let("v", None)) @@
    "q"       :> Module("q", {}) @@
    In("q", "q.v"     :> Let("v", None))
LevelPrograms == {{F("f1", "", {"f1 o.v", "main", "p"}, {"f1 o.v"}), F("f2", "", {"o", "q"}, {})}}

\* Routes: wildcards, aliases, nested and private members.
RouteDecls ==
    "start"   :> Fun("main", Any1({V(<<"w">>), V(<<"x">>), V(<<"lib", "sub", "w">>), V(<<"h">>),
                                   V(<<"lib", "hid", "h">>), V(<<"lib", "s">>), V(<<"s">>)})) @@
    "start 2" :> Fun("main", Any1({V(<<"lib", "peek">>)})) @@
    "* lib"   :> Imp("*", "", <<"lib">>, "") @@
    "w lib"   :> Imp("w", "x", <<"lib">>, "") @@
    "w sub"   :> Imp("w", "", <<"lib", "sub">>, "") @@
    "h hid"   :> Imp("h", "", <<"lib", "hid">>, "") @@
    "s lib"   :> Imp("s", "", <<"lib">>, "") @@
    "lib"     :> Module("lib", {"lib.w"}) @@
    In("lib", "lib.w"   :> Let("w", None) @@
              "lib.s"   :> Private(Let("s", None)) @@
              "lib.sub" :> Module("sub", {}) @@
              "lib.hid" :> Private(Module("hid", {}))) @@
    In("lib.sub", "sub.w" :> Let("w", Any1({V(<<"s">>)}))) @@
    In("lib.hid", "hid.h" :> Let("h", None)) @@
    "lib 2"   :> Module("lib", {}) @@
    In("lib 2", "lib2.s"    :> Private(Let("s", None)) @@
                "lib2.hid"  :> Private(Module("hid", {})) @@
                "lib2.peek" :> Fun("peek", Any1({V(<<"s">>), V(<<"lib", "s">>), V(<<"hid", "h">>),
                                                 V(<<"lib", "hid", "h">>)}))) @@
    In("lib2.hid", "hid2.h" :> Let("h", Any1({V(<<"s">>), V(<<"lib", "s">>)})))
RoutePrograms ==
    {{F("f1", "", {"start"} \cup I, {}), F("f2", "", {"lib"}, {})} :
        I \in {{}, {"* lib"}, {"* lib", "w sub"}, {"w lib", "w sub"}, {"h hid"}, {"s lib"}}}
    \cup {{F("f1", "", {"start 2"}, {}), F("f2", "", {"lib 2"}, {})}}

\* Companions and namespaces.
PairDecls ==
    "begin"   :> Fun("main", Any1({V(<<"pt", "zero">>), V(<<"k", "pt", "zero">>), V(<<"make">>),
                                   T(<<"pt">>), T(<<"k", "pt">>)})) @@
    "pt n"    :> Imp("pt", "", <<>>, "n") @@
    "k n"     :> Imp("k", "", <<>>, "n") @@
    "make k"  :> Imp("make", "", <<"k">>, "") @@
    "* k"     :> Imp("*", "", <<"k">>, "") @@
    "pt"      :> Struct("pt") @@
    "pt mod"  :> Module("pt", {}) @@
    In("pt mod", "pt.zero" :> Fun("zero", Any1({T(<<"pt">>)}))) @@
    "k"       :> Module("k", {}) @@
    In("k", "k.pt"     :> Struct("pt") @@
            "k.pt mod" :> Module("pt", {}) @@
            "k.make"   :> Fun("make", Any1({V(<<"pt", "zero">>)}))) @@
    In("k.pt mod", "kpt.zero" :> Fun("zero", Any1({T(<<"pt">>)})))
PairPrograms ==
    {{F("f1", "", {"begin"} \cup I, {}), F("f2", ns, {"pt", "pt mod", "k"}, {"pt mod"})} :
        ns \in {"", "n"}, I \in {{}, {"pt n"}, {"k n"}, {"k n", "make k"}, {"k n", "* k"}}}

\* Clashes, in a module, in the global namespace, across namespaces and in C.
ClashDecls ==
    "go"      :> Fun("main", None) @@
    "a let"   :> Let("a", None) @@
    "a let2"  :> Let("a", None) @@
    "a struct":> Struct("a") @@
    "a mod"   :> Module("a", {"a.b", "a.bc", "a.b let"}) @@
    In("a mod", "a.b"     :> Module("b", {}) @@
                "a.bc"    :> Let("b__c", None) @@
                "a.b let" :> Struct("b")) @@
    In("a.b", "a.b.c"     :> Let("c", None)) @@
    "a mod2"  :> Module("a", {}) @@
    "n struct":> Struct("a") @@
    "ab mod"  :> Module("b", {}) @@
    In("ab mod", "ab.c"   :> Let("c", None))
ClashPrograms ==
    {{F("f1", "", {"go", "a let", "a struct"}, {"a let", "a struct"}), F("f2", "", {"a mod"}, {"a mod"})},
     {F("f1", "", {"go", "a let", "a let2"}, {"a let"})},
     {F("f1", "", {"go", "a struct", "a mod"}, {"a struct", "a mod"}),
      F("f2", "a", {"ab mod", "n struct"}, {"ab mod"}),
      F("f3", "", {"a mod2"}, {"a mod2"})},
     {F("f1", "", {"go"}, {}), F("f2", "", {"a let", "a struct"}, {"a let"})},
     {F("f1", "", {"go"}, {}), F("f2", "n", {"a let"}, {})}}

\* Constants that need one another's types, through functions or not.
CycleDecls ==
    "run"     :> Fun("main", None) @@
    "m"       :> Module("m", {}) @@
    In("m", "m.d" :> Let("d", None \cup Any1({V(<<"d">>), V(<<"e">>), V(<<"f">>)})) @@
            "m.e" :> Let("e", Any1({V(<<"d">>), V(<<"m", "f">>), V(<<"t", "g">>)})) @@
            "m.f" :> Fun("f", {<<V(<<"f">>)>>, <<V(<<"d">>), V(<<"e">>)>>})) @@
    "t"       :> Module("t", {"t d"}) @@
    In("t", "t d" :> Imp("d", "", <<"m">>, "") @@
            "t.g" :> Let("g", None \cup Any1({V(<<"d">>), V(<<"m", "e">>)})))
CyclePrograms == {{F("f1", "", {"run", "m"}, {}), F("f2", "", {"t"}, {})}}

DeclsDef == LevelDecls @@ RouteDecls @@ PairDecls @@ ClashDecls @@ CycleDecls
ProgramsDef == LevelPrograms \cup RoutePrograms \cup PairPrograms \cup ClashPrograms \cup CyclePrograms
AtomsDef == [x \in {Decls[d].name : d \in DOMAIN Decls} \cup {"n"} |->
                IF x = "b__c" THEN <<"b", "c">> ELSE <<x>>]

(* The compiler accepts a program exactly when its declarations do not      *)
(* clash, its imports and names resolve to something visible, no constant's *)
(* type depends on itself, no two C names coincide and its modules form no  *)
(* cycle, whatever the order of files and declarations (pass1_collect,      *)
(* pass2_check).                                                            *)
AcceptsTheWellFormed ==
    phase = "done" =>
        \A imp \in {AllBrought} : \A deps \in {Dependences(imp)} :
            ~Tangled(deps) => (errs = {} <=> WellFormed(imp, deps))

(* Every use is bound to the one declaration its name means, be it reached  *)
(* by the walk or on demand (resolve_name, check_ident, enter_module_scope).   *)
(* `bound` only grows, so it is judged once, at the end.  And a symbol's    *)
(* type is only ever set by the check of its own let (check_decl_let finds  *)
(* the symbol by name).                                                     *)
NamesMean ==
    /\ phase = "done" => \A imp \in {AllBrought} : \A b \in bound : Meant(imp, b.let, b.use) = {b.sym}
    /\ \A d \in DOMAIN typ : typ[d] \in {NULL, d}
=============================================================================
