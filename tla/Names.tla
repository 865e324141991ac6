------------------------------- MODULE Names -------------------------------
(***************************************************************************)
(* Names (pass1.c, pass2.c): how a program's declarations are registered,  *)
(* its imports resolved, and every use of a name bound.  Pass 1 goes over  *)
(* the merged files four times: modules with their members, the other      *)
(* top-level declarations, the imports of modules, the imports of files.   *)
(* Pass 2 checks the lets in order and, when a use needs the type of a let *)
(* it has not reached, checks that let on demand, in a scope rebuilt from  *)
(* the symbol's parents, and comes back.                                   *)
(*                                                                         *)
(* A type is known by the let whose check set it.  Generic parameters,     *)
(* externs, the aliases registered under mangled names and local scopes    *)
(* are left out.  Pass 2 also runs on a program pass 1 rejected, to report *)
(* more; the machine stops there.                                          *)
(***************************************************************************)
EXTENDS SequencesExt, Naturals, FiniteSets

CONSTANTS
    Decls,      \* the declarations that may be written, by identifier
    Programs,   \* what programs are written: sets of files
    Atoms       \* the parts of a name between double underscores

Kinds == {"let", "struct", "union", "module"}
Types == {"struct", "union"}
NULL == ""
Global == "global"                        \* the scope outside every module

VARIABLES
    files,      \* in the order of the command line
    text,       \* what is written in each file and module, in order
    uses,       \* the names each let uses, in order
    phase,
    todo,       \* what the current pass still goes over
    table,      \* the symbols of each module, and the global table
    imports,    \* the import table of each file and module
    typ,        \* the let whose check typed this symbol
    ctx,        \* the scope of the walk
    saved,      \* the scopes it will be restored to
    frames,     \* the lets being checked, innermost first
    bound,      \* the uses bound so far, each to a symbol
    refs,       \* the top-level modules that refer to one another
    errs        \* the declarations an error was reported in

written == <<files, text, uses>>
tables == <<table, imports>>
walk == <<typ, ctx, saved, frames, bound>>
vars == <<files, text, uses, phase, todo, table, imports, typ, ctx, saved,
          frames, bound, refs, errs>>

(***************************************************************************)
(* What is written.                                                        *)
(***************************************************************************)
Modules == {d \in DOMAIN Decls : Decls[d].kind = "module"}
IsImport(d) == Decls[d].kind = "import"
Imports(s) == SelectSeq(text[s], IsImport)
Declared(s) == {d \in ToSet(text[s]) : ~IsImport(d)}

Owner(d) == Decls[d].owner
Enclosing[d \in DOMAIN Decls] ==          \* the modules around d, innermost first
    IF Owner(d) = NULL THEN <<>> ELSE <<Owner(d)>> \o Enclosing[Owner(d)]
Top == [d \in DOMAIN Decls |-> Last(<<d>> \o Enclosing[d])]

File(d) == CHOOSE f \in ToSet(files) : Top[d] \in f.decls
Ns(d) == File(d).ns
Item(op, d, into) == [op |-> op, d |-> d, into |-> into]
Items(op, seq, into) == [k \in DOMAIN seq |-> Item(op, seq[k], into)]
All(op, P(_)) ==                          \* the top-level declarations, in order
    FlattenSeq([k \in DOMAIN files |->
        Items(op, SelectSeq(text[files[k].name], P), files[k].name)])

(***************************************************************************)
(* Pass 1.                                                                 *)
(***************************************************************************)
IsModule(d) == Decls[d].kind = "module"
IsLet(d) == Decls[d].kind = "let"
Same(s, d) == {e \in ToSet(table[s]) : Decls[e].name = Decls[d].name}

FirstOf(hits, none) == Head(hits \o <<none>>)
Of(e, Op(_)) == CHOOSE y \in {Op(x) : x \in {e}} : TRUE    \* Op(e), evaluating e once
FirstSymbol(syms) == FirstOf(SelectSeq(syms, LAMBDA d : d # NULL), NULL)

\* The first symbol of a table; in the global one, of the given namespace.
symtab_lookup(s, name, kinds, ns) ==
    FirstOf(SelectSeq(table[s], LAMBDA e : /\ Decls[e].name = name /\ Decls[e].kind \in kinds
                                           /\ s = Global => Ns(e) = ns), NULL)
symtab_lookup_type(s, name, ns) ==
    FirstSymbol(<<symtab_lookup(s, name, {"struct"}, ns), symtab_lookup(s, name, {"union"}, ns)>>)

type_name_taken(s, d) == \E e \in Same(s, d) : ~IsModule(e)
\* Faulty: a module may not share its name with a type.
Faulty_module_name_taken(s, d) == Same(s, d) # {}
module_name_taken(s, d) == \E e \in Same(s, d) : Decls[e].kind \notin Types

\* What register_modules, register_module_members and, for the rest of the
\* top level, register_top_level_decls report as a redefinition.
Redefines(d, s) ==
    CASE IsLet(d)                  -> Same(s, d) # {}
      [] IsModule(d) /\ s = Global -> \E e \in Same(s, d) : IsModule(e) /\ Ns(e) = Ns(d)
      [] IsModule(d)               -> module_name_taken(s, d)
      [] s = Global                -> \E e \in Same(s, d) : Decls[e].kind \in Types
                                                            /\ Ns(e) = Ns(d)
      [] OTHER                     -> type_name_taken(s, d)

\* A top-level let belongs to the file that holds main, in no namespace.
IsMain(d) == IsLet(d) /\ Decls[d].name = "main"
entry_file == {f \in ToSet(files) : \E d \in ToSet(text[f.name]) : IsMain(d)}
Misplaced(d, s) == s = Global /\ IsLet(d) /\ (Ns(d) # NULL \/ File(d) \notin entry_file)

register(d, s) ==
    /\ errs' = IF Redefines(d, s) \/ Misplaced(d, s) THEN errs \cup {d} ELSE errs
    /\ table' = IF Redefines(d, s) \/ (s = Global /\ IsLet(d) /\ Ns(d) # NULL) THEN table
                ELSE [table EXCEPT ![s] = Append(@, d)]

\* Faulty: the first import of a name stays.
Faulty_import_table_add(tbl, name, d) ==
    IF \E k \in DOMAIN tbl : tbl[k].name = name /\ Decls[tbl[k].sym].kind = Decls[d].kind THEN tbl
    ELSE Append(tbl, [name |-> name, sym |-> d])
import_table_add(tbl, name, d) ==
    LET at == {k \in DOMAIN tbl : tbl[k].name = name /\ Decls[tbl[k].sym].kind = Decls[d].kind}
        ref == [name |-> name, sym |-> d]
    IN IF at = {} THEN Append(tbl, ref) ELSE [k \in DOMAIN tbl |-> IF k \in at THEN ref ELSE tbl[k]]


LocalName(i) == IF Decls[i].alias = NULL THEN Decls[i].name ELSE Decls[i].alias
AddAll(i, tbl, ds) ==
    LET Add(t, d) == import_table_add(t, IF Decls[i].name = "*" THEN Decls[d].name
                                         ELSE LocalName(i), d)
    IN FoldLeft(Add, tbl, ds)

\* The module a member import reads from, along its route; NULL if there is none.
IsPublic(d) == d # NULL /\ ~Decls[d].private
Segment(m, x) ==
    IF m = NULL THEN NULL
    ELSE FirstOf(SelectSeq(<<symtab_lookup(m, x, {"module"}, NULL)>>, IsPublic), NULL)
RouteHead(i, s) ==
    LET head == Decls[i].from[1]
        Whole(r) == r.name = head /\ IsModule(r.sym)
    IN FirstSymbol(<<symtab_lookup(Global, head, {"module"},
                                   IF Decls[i].ns # NULL THEN Decls[i].ns ELSE Ns(i)),
                     FirstOf(SelectSeq(imports[s], Whole), [sym |-> NULL]).sym>>)
ImportSource(i, s) ==
    IF Decls[i].from = <<>> THEN NULL ELSE FoldLeft(Segment, RouteHead(i, s), Tail(Decls[i].from))

\* What an import brings in, in order; m is the module a member import reads.
WithCompanion(m, sym) ==
    IF ~IsPublic(sym) THEN <<>>
    ELSE SelectSeq(<<sym, IF Decls[sym].kind \in Types
                          THEN symtab_lookup(m, Decls[sym].name, {"module"}, NULL) ELSE NULL>>, IsPublic)
process_member_import(i, m) ==
    IF m = NULL THEN <<>>
    ELSE IF Decls[i].name = "*" THEN SelectSeq(table[m], IsPublic)
    ELSE WithCompanion(m, symtab_lookup(m, Decls[i].name, Kinds, NULL))
resolve_import(i, m) ==
    IF Decls[i].from # <<>> THEN process_member_import(i, m)
    ELSE SelectSeq(<<symtab_lookup(Global, Decls[i].name, {"module"}, Decls[i].ns),
                     symtab_lookup_type(Global, Decls[i].name, Decls[i].ns)>>, LAMBDA d : d # NULL)

\* Top-level module `from` now refers to whatever holds each of `ds`.
note_refs(from, ds) ==
    refs' = refs \cup {<<Top[from], Top[d]>> : d \in {d \in ds : /\ IsModule(Top[from])
                                                                 /\ IsModule(Top[d])
                                                                 /\ Top[d] # Top[from]}}

\* The C name: every path is rooted, joined with double underscores.
Path == [d \in DOMAIN Decls |->
           FoldLeft(LAMBDA path, e : Atoms[Decls[e].name] \o path, <<>>, <<d>> \o Enclosing[d])]
CName(d) == (IF Ns(d) = NULL THEN <<>> ELSE Atoms[Ns(d)]) \o Path[d]
Claims == {d \in UNION {ToSet(table[s]) : s \in DOMAIN table} : ~IsModule(d) /\ ~IsMain(d)}
Colliding ==
    UNION {{d \in Claims : name[d] = name[e] /\ d # e} :
              e \in Claims, name \in {[d \in Claims |-> CName(d)]}}

(***************************************************************************)
(* Pass 2: scopes.  A context is the module being checked, the modules     *)
(* around it with the imports each saw, the imports seen here, innermost   *)
(* first, the namespace, and the lets already added to the scope.          *)
(***************************************************************************)
HasImports(s) == Imports(s) # <<>>
Chain(m, f) == SelectSeq(<<m>> \o Enclosing[m] \o <<f>>, LAMBDA s : s # NULL)
ImportsFrom(chain, k) == SelectSeq(SubSeq(chain, k, Len(chain)), HasImports)

enter_module_scope(m) ==
    LET chain == Chain(m, File(m).name)
    IN [mod |-> m, ns |-> Ns(m), seen |-> <<>>,
        up |-> [k \in 1..(Len(chain) - 2) |->
                  [members |-> chain[k + 1], imports |-> ImportsFrom(chain, k + 1)]],
        imports |-> ImportsFrom(chain, 1)]
enter_submodule(c, m) ==
    [mod |-> m, ns |-> c.ns, seen |-> <<>>,
     up |-> <<[members |-> c.mod, imports |-> c.imports]>> \o c.up,
     imports |-> IF HasImports(m) THEN <<m>> \o c.imports ELSE c.imports]

enter_global_scope(d, seen) ==
    [mod |-> NULL, ns |-> Ns(d), seen |-> seen, up |-> <<>>,
     imports |-> IF HasImports(File(d).name) THEN <<File(d).name>> ELSE <<>>]
enter_scope_on_demand(d) ==
    IF Owner(d) = NULL THEN enter_global_scope(d, <<>>) ELSE enter_module_scope(Owner(d))

\* The places a name is looked up in, in order: at each level the members,
\* then the imports up to those the level above saw; last the global table.

Span(c, k) ==
    LET imp == IF k = 0 THEN c.imports ELSE c.up[k].imports
        stop == IF k = Len(c.up) THEN <<>> ELSE c.up[k + 1].imports
    IN SubSeq(imp, 1, Len(imp) - Len(stop))

Members(s) == [members |-> s, imports |-> <<>>]
Places(c) ==
    LET Level(k) == <<Members(IF k = 0 THEN c.mod ELSE c.up[k].members),
                      [members |-> NULL, imports |-> Span(c, k)]>>
        Searched(p) == p.members # NULL \/ p.imports # <<>>
    IN SelectSeq(FlattenSeq([k \in 1..(Len(c.up) + 1) |-> Level(k - 1)])
                 \o <<Members(Global)>>, Searched)
imports_lookup(span, name, kinds) ==      \* the last entry of the innermost table
    LET Fits(r) == r.name = name /\ Decls[r.sym].kind \in kinds
    IN FirstOf(FlattenSeq([k \in DOMAIN span |-> Reverse(SelectSeq(imports[span[k]], Fits))]),
               [sym |-> NULL]).sym
LookIn(c, p, name, kinds) ==
    IF p.members # NULL THEN symtab_lookup(p.members, name, kinds, c.ns)
    ELSE imports_lookup(p.imports, name, kinds)
SearchEach(c, places, name, kinds) ==
    [k \in DOMAIN places |-> [sym |-> LookIn(c, places[k], name, kinds), at |-> places[k]]]
resolve_name(c, name, kinds) ==
    FirstOf(SelectSeq(SearchEach(c, Places(c), name, kinds), LAMBDA r : r.sym # NULL),
            [sym |-> NULL, at |-> Members(NULL)])

\* The module a symbol found at some place stands for, or is paired with there.
companion_of(c, r, name) ==
    CASE r.sym = NULL                    -> NULL
      [] Decls[r.sym].kind = "module"    -> r.sym
      [] Decls[r.sym].kind \in Types     -> LookIn(c, r.at, name, {"module"})
      [] OTHER                           -> NULL

(***************************************************************************)
(* Pass 2: what a use denotes.                                             *)
(***************************************************************************)
WithModule(c, r, name) == [sym |-> r.sym, mod |-> companion_of(c, r, name)]
check_ident(c, name) ==
    IF \E k \in DOMAIN c.seen : Decls[c.seen[k]].name = name
    THEN [sym |-> Last(SelectSeq(c.seen, LAMBDA d : Decls[d].name = name)), mod |-> NULL]
    ELSE Of(resolve_name(c, name, Kinds), LAMBDA r : WithModule(c, r, name))
MemberOf(c, e, sym, name) ==
    IF sym = NULL \/ (Decls[sym].private /\ c.mod # e.mod) THEN [sym |-> NULL, mod |-> NULL]
    ELSE [sym |-> sym, mod |-> symtab_lookup(e.mod, name, {"module"}, NULL)]
check_module_member(c, e, name) ==
    IF e.mod = NULL THEN [sym |-> NULL, mod |-> NULL]
    ELSE Of(symtab_lookup(e.mod, name, Kinds, NULL), LAMBDA sym : MemberOf(c, e, sym, name))
check_field(c, head, path) ==
    FoldLeft(LAMBDA e, x : check_module_member(c, e, x), head, Tail(path)).sym

resolve_dotted_name(c, path) ==           \* the module all segments but the last lead to
    FoldLeft(LAMBDA m, x : IF m = NULL THEN NULL ELSE symtab_lookup(m, x, {"module"}, NULL),
             resolve_name(c, path[1], {"module"}).sym, Tail(Front(path)))
TypeIn(m, name) == IF m = NULL THEN NULL ELSE symtab_lookup_type(m, name, NULL)
resolve_type_symbol(c, path) ==
    IF Len(path) > 1 THEN TypeIn(resolve_dotted_name(c, path), Last(path))
    ELSE FirstSymbol(<<resolve_name(c, path[1], {"struct"}).sym, resolve_name(c, path[1], {"union"}).sym>>)

\* The symbol a use denotes, or NULL, with the symbols its module now refers to.
TypeUse(sym) == [sym |-> sym, noted |-> {sym} \ {NULL}]
ValueUse(head, sym) ==
    [sym |-> IF sym # NULL /\ IsLet(sym) THEN sym ELSE NULL, noted |-> {head.sym, head.mod} \ {NULL}]
Followed(c, head, path) == ValueUse(head, check_field(c, head, path))
Denotes(c, u) ==
    IF u.as = "type" THEN TypeUse(resolve_type_symbol(c, u.path))
    ELSE Of(check_ident(c, u.path[1]), LAMBDA head : Followed(c, head, u.path))

(***************************************************************************)
(* The steps.  `todo` is what the current pass still goes over.            *)
(***************************************************************************)
NoContext == [mod |-> NULL, ns |-> NULL, seen |-> <<>>, up |-> <<>>, imports |-> <<>>]

Init ==
    /\ \E P \in Programs :
          /\ files \in SetToSeqs(P)
          /\ todo = SetToSeq({Item("write", f.name, Global) : f \in P})
    /\ text = <<>> /\ uses = <<>>
    /\ phase = "write"
    /\ table = <<>> /\ imports = <<>> /\ typ = <<>>
    /\ ctx = NoContext /\ saved = <<>> /\ frames = <<>> /\ bound = {} /\ refs = {}
    /\ errs = {}

\* The programmer writes a file or a module body: any order, imports first.
Bodies(s) ==
    LET given == IF s \in Modules THEN [all |-> {d \in DOMAIN Decls : Owner(d) = s}, may |-> Decls[s].optional]
                 ELSE LET f == CHOOSE f \in ToSet(files) : f.name = s
                      IN [all |-> f.decls, may |-> f.optional]
        ImportsFirst(q) == \A j, k \in DOMAIN q : (j < k /\ IsImport(q[k])) => IsImport(q[j])
    IN {q \in UNION {SetToSeqs(given.all \ out) : out \in SUBSET given.may} : ImportsFirst(q)}
Write ==
    /\ phase = "write" /\ todo # <<>>
    /\ \E s \in {Head(todo).d} : \E q \in Bodies(s) : \E lets \in {{d \in ToSet(q) : IsLet(d)}} :
          /\ text' = text @@ (s :> q)
          /\ \E u \in [lets -> UNION {Decls[d].uses : d \in lets}] :
                /\ \A d \in lets : u[d] \in Decls[d].uses
                /\ uses' = uses @@ u
          /\ todo' = Tail(todo) \o Items("write", SelectSeq(q, IsModule), s)
    /\ UNCHANGED <<files, phase, tables, walk, refs, errs>>

\* pass1_collect and pass2_check call their passes one after the other.
Begin(from, to, list) ==
    /\ phase = from /\ todo = <<>>
    /\ phase' = to /\ todo' = list
BeginModules ==
    /\ Begin("write", "modules", All("register", IsModule))
    /\ table' = [s \in DOMAIN text \cup {Global} |-> <<>>]
    /\ imports' = [s \in DOMAIN text |-> <<>>]
    /\ typ' = [d \in DOMAIN uses |-> NULL]
    /\ UNCHANGED <<written, ctx, saved, frames, bound, refs, errs>>
IsPlain(d) == ~IsModule(d) /\ ~IsImport(d)
BeginTopLevel ==
    /\ Begin("modules", "top", All("register", IsPlain))
    /\ UNCHANGED <<written, tables, walk, refs, errs>>

Register ==
    /\ phase \in {"modules", "top"} /\ todo # <<>>
    /\ \E d \in {Head(todo).d}, s \in {IF Head(todo).into \in Modules THEN Head(todo).into ELSE Global} :
          /\ register(d, s)
          /\ todo' = (IF IsModule(d) /\ ~Redefines(d, s)
                      THEN Items("register", SelectSeq(text[d], LAMBDA e : ~IsImport(e)), d)
                      ELSE <<>>) \o Tail(todo)
    /\ UNCHANGED <<written, phase, imports, walk, refs>>

\* Top-level modules in table order, then what is nested in each, then files.
Nested[m \in Modules] ==
    LET subs == SelectSeq(table[m], IsModule)
    IN FlattenSeq([k \in DOMAIN subs |-> <<subs[k]>> \o Nested[subs[k]]])
ImportOrder ==
    LET mods == SelectSeq(table[Global], IsModule)
    IN mods \o FlattenSeq([k \in DOMAIN mods |-> Nested[mods[k]]])
BeginImports ==
    /\ phase = "top"
    /\ \E order \in {ImportOrder} :
          Begin("top", "imports",
                FlattenSeq([k \in DOMAIN order |-> Items("import", Imports(order[k]), order[k])])
                \o All("import", IsImport))
    /\ UNCHANGED <<written, tables, walk, refs, errs>>
Import ==
    /\ phase = "imports" /\ todo # <<>>
    /\ \E i \in {Head(todo).d}, s \in {Head(todo).into} :
       \E m \in {ImportSource(i, s)} : \E got \in {resolve_import(i, m)} :
          /\ errs' = IF got = <<>> /\ (Decls[i].name = "*" => m = NULL) THEN errs \cup {i} ELSE errs
          /\ imports' = [imports EXCEPT ![s] = AddAll(i, @, got)]
          /\ note_refs(i, ({m} \cup IF Decls[i].name = "*" THEN {} ELSE ToSet(got)) \ {NULL})
    /\ todo' = Tail(todo)
    /\ UNCHANGED <<written, phase, table, walk>>

\* check_c_name_collisions judges a program that is otherwise clean.
BeginWalk ==
    /\ Begin("imports", "walk", All("enter", IsModule) \o All("check", IsLet))
    /\ errs' = IF errs = {} THEN Colliding ELSE errs
    /\ UNCHANGED <<written, tables, walk, refs>>

\* check_module_members: one module after the other, nested ones in place.
Walking == phase = "walk" /\ errs = {} /\ frames = <<>> /\ todo # <<>>
Enter ==
    /\ Walking /\ Head(todo).op = "enter"
    /\ \E m \in {Head(todo).d} :
          /\ ctx' = IF Owner(m) = NULL THEN enter_module_scope(m) ELSE enter_submodule(ctx, m)
          /\ saved' = <<ctx>> \o saved
          /\ todo' = FlattenSeq([k \in DOMAIN text[m] |->
                         LET d == text[m][k]
                         IN CASE IsLet(d)    -> <<Item("check", d, m)>>
                              [] IsModule(d) -> <<Item("enter", d, m)>>
                              [] OTHER       -> <<>>])
                     \o <<Item("leave", m, Global)>> \o Tail(todo)
    /\ UNCHANGED <<written, phase, tables, typ, frames, bound, refs, errs>>
Leave ==
    /\ Walking /\ Head(todo).op = "leave"
    /\ ctx' = Head(saved) /\ saved' = Tail(saved)
    /\ todo' = Tail(todo)
    /\ UNCHANGED <<written, phase, tables, typ, frames, bound, refs, errs>>

Untyped(sym) == sym # NULL /\ IsLet(sym) /\ typ[sym] = NULL
\* check_decl_let: a function's own symbol gets a partial type first.
Begun(d, c, demanded) ==
    \E sym \in {resolve_name(c, Decls[d].name, Kinds).sym} :
       /\ frames' = <<[let |-> d, sym |-> sym, next |-> 1, ctx |-> c, demanded |-> demanded]>> \o frames
       /\ typ' = IF Decls[d].fun /\ Untyped(sym) THEN [typ EXCEPT ![sym] = d] ELSE typ
Check ==
    /\ Walking /\ Head(todo).op = "check"
    /\ \E d \in {Head(todo).d} :
       \E c \in {IF Owner(d) = NULL THEN enter_global_scope(d, ctx.seen) ELSE ctx} : Begun(d, c, FALSE)
    /\ UNCHANGED <<written, phase, todo, tables, ctx, saved, bound, refs, errs>>

Using == phase = "walk" /\ frames # <<>> /\ Head(frames).next <= Len(uses[Head(frames).let])
NextUse == uses[Head(frames).let][Head(frames).next]
Used == frames' = <<[Head(frames) EXCEPT !.next = @ + 1]>> \o Tail(frames)
\* Faulty: the lets being checked on demand are not remembered.
Faulty_on_demand_visited == {}
on_demand_visited == {f.let : f \in {f \in ToSet(frames) : f.demanded}}

Bind(r) ==
    /\ ~Untyped(r.sym)
    /\ \E l \in {Head(frames).let} :
          /\ IF r.sym = NULL THEN errs' = errs \cup {l} /\ UNCHANGED bound
             ELSE bound' = bound \cup {[let |-> l, use |-> NextUse, sym |-> r.sym]} /\ UNCHANGED errs
          /\ note_refs(l, r.noted)
    /\ Used /\ UNCHANGED typ
check_let_on_demand(r) ==
    /\ Untyped(r.sym) /\ r.sym \notin on_demand_visited
    /\ \E c \in {enter_scope_on_demand(r.sym)} : Begun(r.sym, c, TRUE)
    /\ UNCHANGED <<bound, refs, errs>>
report_let_cycle(r) ==
    /\ Untyped(r.sym) /\ r.sym \in on_demand_visited
    /\ errs' = errs \cup {Head(frames).let}
    /\ Used /\ UNCHANGED <<typ, bound, refs>>
Use ==
    /\ Using
    /\ \E r \in {Denotes(Head(frames).ctx, NextUse)} :
          Bind(r) \/ check_let_on_demand(r) \/ report_let_cycle(r)
    /\ UNCHANGED <<written, phase, todo, tables, ctx, saved>>

Checked ==
    /\ phase = "walk" /\ frames # <<>> /\ Head(frames).next > Len(uses[Head(frames).let])
    /\ \E f \in {Head(frames)} :
          /\ typ' = [sym \in DOMAIN typ |-> IF sym = f.sym THEN f.let ELSE typ[sym]]
          /\ frames' = Tail(frames)
          /\ IF f.demanded THEN UNCHANGED <<ctx, todo>>
             ELSE ctx' = [ctx EXCEPT !.seen = Append(@, f.let)] /\ todo' = Tail(todo)
    /\ UNCHANGED <<written, phase, tables, saved, bound, refs, errs>>

\* The dependency graph of the top-level modules must be acyclic.
Circular(R) == \E S \in SUBSET {r[1] : r \in R} :
                  S # {} /\ \A a \in S : \E b \in S : <<a, b>> \in R
check_module_cycles ==
    /\ phase = "walk" /\ frames = <<>> /\ (todo = <<>> \/ errs # {})
    /\ phase' = "done" /\ todo' = <<>>
    /\ errs' = IF Circular(refs) THEN errs \cup {NULL} ELSE errs
    /\ UNCHANGED <<written, tables, walk, refs>>

Next ==
    \/ Write \/ BeginModules \/ BeginTopLevel \/ Register \/ BeginImports \/ Import
    \/ BeginWalk \/ Enter \/ Leave \/ Check \/ Use \/ Checked \/ check_module_cycles
Spec == Init /\ [][Next]_vars

(* No let is being checked on demand twice at once, so going back and forth *)
(* between lets ends (check_let_on_demand).                                 *)
OnDemandOnce ==
    \A j, k \in DOMAIN frames :
       (frames[j].demanded /\ frames[k].demanded /\ frames[j].let = frames[k].let) => j = k
=============================================================================
