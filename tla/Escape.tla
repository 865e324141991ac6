------------------------------- MODULE Escape -------------------------------
(***************************************************************************)
(* Escape analysis (pass2.c): a function body is checked statement by      *)
(* statement, each expression getting two tags, where its value lives      *)
(* (prov) and where what it holds lives (elem).  A loop body is checked    *)
(* once, after a syntactic sweep has tainted whatever its iterations may   *)
(* carry over.  The machine writes a function, checks each statement as    *)
(* the checker does and, when it is accepted, runs it on a memory in which *)
(* a pointer is known only by what it points into.  A rejected statement   *)
(* has no step.                                                            *)
(*                                                                         *)
(* One kind of expression stands for the source forms treated alike: a     *)
(* "join" is an if, a match or the breaks of a loop, a "value" any form    *)
(* that passes its operand on (unwrap, cast, block, guard, ptr + n), and   *)
(* a let any construct that binds a piece of a value.                      *)
(***************************************************************************)
EXTENDS Naturals, Sequences

CONSTANTS
    Shapes,     \* what functions are written: their local names, how many
                \* statements they have, and how many a loop of theirs has
    Features    \* the constructs allowed beyond the tracked core (see Fits)

ASSUME ShapesAssumption ==
    Shapes \subseteq [names : SUBSET {"p", "q", "r", "s", "t", "b", "h", "f", "d"},
                      line : Nat, loop : Nat]
ASSUME FeaturesAssumption ==
    Features \subseteq {"carried", "handles", "fields", "inline", "aliases"}

VARIABLES
    shape,      \* of this function
    scope,      \* <<bindings>>, or <<bindings, bindings of the loop body>>
    body,       \* the statements of the loop
    at,         \* "line", "body" (being written), "turn" (running), "stop"
    pc,         \* the next statement of the running loop
    count,      \* statements written outside the loop
    mem,        \* what each variable holds
    cell,       \* what each block of memory holds
    freed,      \* what the last free was given
    out         \* what the returned value reaches

vars == <<shape, scope, body, at, pc, count, mem, cell, freed, out>>

-----------------------------------------------------------------------------
(* Tags and bindings *)

Tags(p, e) == [prov |-> p, elem |-> e]
Unknown == Tags("UNKNOWN", "UNKNOWN")

\* STACK wins, equal tags stay, anything else is UNKNOWN.
Merge(a, b) ==
    IF a = b THEN a ELSE IF "STACK" \in {a, b} THEN "STACK" ELSE "UNKNOWN"

Join(s, t) == Tags(Merge(s.prov, t.prov), Merge(s.elem, t.elem))

\* The names of a function are distinct, so one level binds each.
Bound(sc) == UNION {DOMAIN sc[i] : i \in DOMAIN sc}
Level(sc, x) == IF x \in DOMAIN sc[1] THEN 1 ELSE 2
Look(sc, x) == sc[Level(sc, x)][x].t

With(f, x, v) == [y \in DOMAIN f \cup {x} |-> IF y = x THEN v ELSE f[y]]

Bind(sc, x, tags, mut) == [sc EXCEPT ![Len(sc)] = With(@, x, [t |-> tags, mut |-> mut])]

\* A binding keeps every taint it ever had.
Taint(sc, x, tags) == [sc EXCEPT ![Level(sc, x)][x].t = Join(@, tags)]
TaintElem(sc, x, p) == [sc EXCEPT ![Level(sc, x)][x].t.elem = Merge(@, p)]

-----------------------------------------------------------------------------
(* Expressions.  Parameters a (a pointer) and c (a slice), a global pointer *)
(* g, an integer x; p, q, r are pointers, s and t slices of pointers, b a   *)
(* struct holding a pointer, h a pointer to such a struct, d a struct with  *)
(* an inline array of pointers, f a closure.                                *)

Pointers == {"p", "q", "r", "a", "g"}
Slices == {"s", "t", "c"}
Mutable == {"p", "r", "t", "b", "g"} \cup (IF "handles" \in Features THEN {"h"} ELSE {})

NoName == ""

\* Pointer-valued atoms over the names in scope.
Atoms(ns) ==
    {[k |-> k, v |-> NoName] : k \in {"addr", "static"}}
    \cup {[k |-> "name", v |-> v] : v \in Pointers \cap ns}
    \cup {[k |-> "elem", v |-> v] : v \in (Slices \cup {"d"}) \cap ns}
    \cup {[k |-> k, v |-> v] : k \in {"field", "addrin"}, v \in {"b", "h"} \cap ns}

Whole(v) == [k |-> "name", v |-> v]
Of(kinds, atoms) == {[k |-> k, of |-> o] : k \in kinds, o \in atoms}

\* The expressions a name of each type may be given.
Inits(ns, x) ==
    CASE x \in Pointers -> Of({"value"}, Atoms(ns))
                           \cup Of({"join"}, {a \in Atoms(ns) : a.k = "addr"})
      [] x \in Slices -> Of({"slice", "copyof"}, Atoms(ns))
                         \cup Of({"empty"}, {Whole(NoName)})
                         \cup Of({"copy"}, {Whole(v) : v \in Slices \cap ns})
                         \cup (IF x = "t" THEN Of({"value"}, {Whole(v) : v \in Slices \cap ns})
                                          ELSE {})
      [] x = "b" -> Of({"box"}, Atoms(ns))
      [] x = "h" -> Of({"newbox"}, Atoms(ns))
                    \cup (IF "handles" \in Features
                          THEN Of({"nobox", "joinbox"}, {Whole(NoName)}) ELSE {})
      [] x = "d" -> Of({"inline"}, Atoms(ns))
      [] x = "f" -> Of({"fun", "newfun"}, {Whole(v) : v \in {"q", "s", "f"} \cap ns})

\* What may be returned: any of these, or any variable.
Results(ns, ws) ==
    (UNION {Inits(ns, x) : x \in ws})
    \cup Of({"value"}, {Whole(v) : v \in (ws \cup {"a", "c", "g"}) \cap ns} \cup Atoms(ns))

\* The storage an lvalue path is rooted in: the frame for a local held by
\* value, what the pointer or slice refers to otherwise.
lvalue_storage_prov(sc, v) ==
    IF v \in Slices \cup {"h"} THEN Look(sc, v).prov ELSE "STACK"

\* The address of a binding, or of a part of what one holds.
check_address_of(o, sc) ==
    CASE o.k = "addr"   -> Tags("STACK", "UNKNOWN")
      [] o.k = "static" -> Tags("STATIC", "UNKNOWN")
      [] o.k = "addrin" -> Tags(lvalue_storage_prov(sc, o.v), "UNKNOWN")

\* An element is what the container holds, and holds the same.
check_index(o, sc) == LET e == Look(sc, o.v).elem IN Tags(e, e)

AtomTags(o, sc) ==
    CASE o.k \in {"addr", "static", "addrin"} -> check_address_of(o, sc)
      [] o.k = "elem" -> check_index(o, sc)
      [] o.k \in {"name", "field"} -> Look(sc, o.v)

\* A slice literal lives in the frame and holds its elements.
check_array_lit(e, i) == Tags("STACK", IF e.k = "empty" THEN "UNKNOWN" ELSE i.prov)

StackOrUnknown(p) == IF p = "STACK" THEN "STACK" ELSE "UNKNOWN"

\* A struct is STACK when a field is, and holds what its fields hold; an
\* inline array is a copy of the elements.
field_init_prov(e, i) == IF e.k = "inline" THEN Tags(i.prov, "UNKNOWN") ELSE i
check_struct_lit(e, i) ==
    LET c == field_init_prov(e, i)
    IN Tags(StackOrUnknown(c.prov), Merge("UNKNOWN", c.elem))

\* A promotion is HEAP and holds what it copied one level of.
check_alloc_value(e, i) ==
    CASE e.k = "copy"   -> Tags("HEAP", i.elem)
      [] e.k = "copyof" -> Tags("HEAP", i.prov)
      [] e.k = "newbox" -> Tags("HEAP", Merge("UNKNOWN", i.elem))
      [] e.k = "newfun" -> Tags("HEAP", "UNKNOWN")

\* One branch gives i, the other a value of unknown provenance, or for
\* "joinbox" a heap box and a static one.
JoinOfBranches(e, i) ==
    IF e.k = "join" THEN Join(i, Unknown)
    ELSE Join(Tags("HEAP", "UNKNOWN"), Tags("STATIC", "UNKNOWN"))

ExprTags(e, sc) ==
    LET i == IF e.of.k = "name" /\ e.of.v = NoName THEN Unknown ELSE AtomTags(e.of, sc)
    IN CASE e.k \in {"value", "nobox"}    -> i
         [] e.k \in {"join", "joinbox"}   -> JoinOfBranches(e, i)
         [] e.k \in {"slice", "empty"}    -> check_array_lit(e, i)
         [] e.k \in {"box", "inline"}     -> check_struct_lit(e, i)
         [] e.k \in {"copy", "copyof", "newbox", "newfun"} -> check_alloc_value(e, i)
         [] e.k = "fun" -> Tags("STACK", "UNKNOWN")

\* A mutant: what a copied slice holds is not looked at.
FaultyCopiesStack(e, sc) ==
    e.k \in {"newbox", "copyof", "newfun"} /\ AtomTags(e.of, sc).prov = "STACK"

\* A promotion to the heap copies one level: what it copies must not be, or
\* for a slice or a capture hold, stack data.
CopiesStack(e, sc) ==
    LET i == AtomTags(e.of, sc)
    IN \/ e.k \in {"newbox", "copyof"} /\ i.prov = "STACK"
       \/ e.k = "copy" /\ i.elem = "STACK"
       \/ e.k = "newfun" /\ "STACK" \in {i.prov, i.elem}

-----------------------------------------------------------------------------
(* Statements: let and set x = e, seti x[0] = e, setf x.field = e, free(e), *)
(* and ret, a return under a condition.                                     *)

St(k, v, e) == [k |-> k, v |-> v, e |-> e]

Verdict(ok, sc) == [ok |-> ok, sc |-> sc]

check_let(st, sc) ==
    Verdict(~CopiesStack(st.e, sc), Bind(sc, st.v, ExprTags(st.e, sc), st.v \in Mutable))

\* The value may not be stack data where what it is stored in outlives the
\* frame; a local that takes it is tainted, the contents of a slice too.
check_assign(st, sc) ==
    LET tg == ExprTags(st.e, sc)
        dest == IF st.k = "set" THEN IF st.v = "g" THEN "STATIC" ELSE "STACK"
                ELSE lvalue_storage_prov(sc, st.v)
    IN Verdict(~CopiesStack(st.e, sc) /\ ~(tg.prov = "STACK" /\ dest \in {"HEAP", "STATIC"}),
               CASE st.k = "set" /\ st.v # "g" -> Taint(sc, st.v, tg)
                 [] st.k = "seti" -> TaintElem(sc, st.v, tg.prov)
                 [] OTHER -> sc)

check_returned_value(st, sc) ==
    Verdict(~CopiesStack(st.e, sc) /\ ExprTags(st.e, sc).prov # "STACK", sc)

\* A mutant: only static memory is refused.
Faulty_check_free(st, sc) == Verdict(ExprTags(st.e, sc).prov # "STATIC", sc)

\* free takes heap memory, or memory of unknown provenance.
check_free(st, sc) == Verdict(ExprTags(st.e, sc).prov \notin {"STACK", "STATIC"}, sc)

\* What the checker makes of a statement: whether it accepts it, and the
\* bindings after it.
Check(st, sc) ==
    CASE st.k = "let"  -> check_let(st, sc)
      [] st.k = "free" -> check_free(st, sc)
      [] st.k = "ret"  -> check_returned_value(st, sc)
      [] st.k \in {"set", "seti", "setf"} -> check_assign(st, sc)

\* A block, with its own scope when it is a loop body: the verdict after each
\* of its statements, and at its end.
Checks(stmts, sc) ==
    LET c[n \in 0 .. Len(stmts)] ==
            IF n = 0 THEN Verdict(TRUE, sc)
            ELSE LET now == Check(stmts[n], c[n - 1].sc)
                 IN  Verdict(c[n - 1].ok /\ now.ok, now.sc)
    IN  c

CheckAll(stmts, sc) == Checks(stmts, sc)[Len(stmts)]

-----------------------------------------------------------------------------
(* The sweep before a loop body is checked.  It sees names, not bindings:   *)
(* the body's own are in no scope yet.                                      *)

\* Tags of the outer binding of a name, if there is one.
Outer(pt, x) == IF x \in DOMAIN pt.sc[1] THEN pt.sc[1][x].t ELSE Unknown

AtomMayYield(pt, o) ==
    LET named == o.v \in pt.names \/ Outer(pt, o.v).prov = "STACK"
    IN CASE o.k \in {"addr", "static", "addrin"} -> TRUE
         [] o.k \in {"name", "field"} -> named
         [] o.k = "elem" -> named \/ (o.v # "d" /\ Outer(pt, o.v).elem = "STACK")

expr_may_yield_stack(pt, e) ==
    CASE e.k \in {"slice", "empty", "inline", "fun", "joinbox"} -> TRUE
      [] e.k \in {"copy", "copyof", "newbox", "newfun", "nobox"} -> FALSE
      [] e.k \in {"value", "join", "box"} -> AtomMayYield(pt, e.of)

pretaint_walk(pt, st) ==
    LET x == st.v
        named == [pt EXCEPT !.names = @ \cup {x}]
        outer == x \in DOMAIN pt.sc[1]
    IN IF st.k \notin {"let", "set", "seti"} \/ ~expr_may_yield_stack(pt, st.e) THEN pt
       ELSE IF st.k = "let" \/ ~outer THEN named
       ELSE IF st.k = "seti" THEN [pt EXCEPT !.sc[1][x].t.elem = "STACK"]
       ELSE IF pt.sc[1][x].mut THEN [pt EXCEPT !.sc[1][x].t.prov = "STACK"]
       ELSE pt

\* One sweep over the body.
Walks(pt, stmts) ==
    LET w[n \in 0 .. Len(stmts)] == IF n = 0 THEN pt ELSE pretaint_walk(w[n - 1], stmts[n])
    IN  w

\* A mutant: one sweep only.
Faulty_pretaint_loop_body(sc, stmts) ==
    Walks([sc |-> sc, names |-> {}], stmts)[Len(stmts)].sc

\* Sweeps repeat until nothing changes; each changes a name or a tag.
Sweeps(sc, stmts) ==
    LET sweep[n \in 0 .. 3 * Len(stmts)] ==
            IF n = 0 THEN [sc |-> sc, names |-> {}]
            ELSE Walks(sweep[n - 1], stmts)[Len(stmts)]
    IN  sweep

pretaint_loop_body(sc, stmts) == Sweeps(sc, stmts)[3 * Len(stmts)].sc

-----------------------------------------------------------------------------
(* Memory.  A pointer is what it points into.  Arrays and boxes are cells:  *)
(* "S" and "T" the arrays of the slice literals given to s and t, "SH" and  *)
(* "TH" their heap copies, "C" the caller's array, "HB" a heap box, "GB" a  *)
(* static one, "FX" and "HX" the contexts of closures.                      *)

Places == {"null", "frame", "caller", "heap", "static"}
Cells == {"S", "T", "SH", "TH", "C", "HB", "GB", "FX", "HX"}
Outliving == {"SH", "TH", "C", "HB", "GB", "HX"}

PlaceOf(c) ==
    CASE c \in {"S", "T", "FX"} -> "frame"
      [] c \in {"SH", "TH", "HB", "HX"} -> "heap"
      [] c = "C" -> "caller"
      [] c = "GB" -> "static"
      [] OTHER -> "null"

InCell(c) == IF c \in Cells THEN CHOOSE p \in cell[c] : TRUE ELSE "null"

AtomValue(o) ==
    CASE o.k = "addr"   -> "frame"
      [] o.k = "static" -> "static"
      [] o.k = "addrin" -> IF o.v = "b" THEN "frame" ELSE PlaceOf(mem[o.v])
      [] o.k \in {"elem", "field"} /\ o.v \in Slices \cup {"h"} -> InCell(mem[o.v])
      [] OTHER -> mem[o.v]

\* Everything a variable's value leads to.
Reach(v) ==
    IF v \in Slices \cup {"h", "f"}
    THEN {PlaceOf(mem[v])} \cup (IF mem[v] \in Cells THEN cell[mem[v]] ELSE {})
    ELSE {mem[v]}

\* The possible outcomes of an expression given to x: a value, and the cell
\* it fills, if any, with its contents.
Out(val, c, holds) == [val |-> val, c |-> c, holds |-> holds]

Outcomes(x, e) ==
    LET v == AtomValue(e.of)
        stack == IF x = "t" THEN "T" ELSE "S"
        heap == IF x = "t" THEN "TH" ELSE "SH"
    IN CASE e.k \in {"value", "box", "inline"} -> {Out(v, "none", {})}
         [] e.k = "join"   -> {Out(v, "none", {}), Out("caller", "none", {})}
         [] e.k = "slice"  -> {Out(stack, stack, {v})}
         [] e.k = "empty"  -> {Out(stack, stack, {"null"})}
         [] e.k = "copyof" -> {Out(heap, heap, {v})}
         [] e.k = "copy"   -> {Out(heap, heap, {InCell(v)})}
         [] e.k = "newbox" -> {Out("HB", "HB", {v})}
         [] e.k = "nobox"  -> {Out("null", "none", {})}
         [] e.k = "joinbox" -> {Out("HB", "HB", {"null"}), Out("GB", "none", {})}
         [] e.k = "fun"    -> {Out("FX", "FX", Reach(e.of.v))}
         [] e.k = "newfun" -> {Out("HX", "HX", Reach(e.of.v))}

Filled(o) == IF o.c = "none" THEN cell ELSE [cell EXCEPT ![o.c] = o.holds]

\* What returning an expression hands to the caller.
Returned(e) ==
    IF e.k = "value" /\ e.of.k = "name" THEN Reach(e.of.v)
    ELSE UNION {(IF o.val \in Cells THEN {PlaceOf(o.val)} ELSE {o.val}) \cup o.holds
                : o \in Outcomes("s", e)}

\* One statement executed.  A return is decided by Write and Turn.
Execute(st) ==
    /\ \E o \in Outcomes(st.v, st.e) :
        \/ st.k \in {"let", "set"} /\ mem' = With(mem, st.v, o.val) /\ cell' = Filled(o)
        \/ /\ st.k = "setf" /\ st.v = "b"
           /\ mem' = [mem EXCEPT ![st.v] = o.val] /\ UNCHANGED cell
        \/ /\ st.k \in {"seti", "setf"} /\ st.v # "b"
           /\ cell' = IF mem[st.v] \in Cells THEN [cell EXCEPT ![mem[st.v]] = {o.val}] ELSE cell
           /\ UNCHANGED mem
        \/ st.k = "free" /\ UNCHANGED <<mem, cell>>
    /\ freed' = IF st.k # "free" THEN "null"
                ELSE IF st.e.of.v \in Pointers THEN mem[st.e.of.v] ELSE PlaceOf(mem[st.e.of.v])
    /\ UNCHANGED out

Return(e) ==
    /\ out' = Returned(e) /\ at' = "stop"
    /\ UNCHANGED <<mem, cell, freed>>

-----------------------------------------------------------------------------
(* The function *)

\* What the tracked core leaves out, unless the feature is on; and in a
\* loop, the operands no taint can reach.
Fits(st, ns, loop) ==
    /\ st.k = "let" => st.v \notin ns
    /\ st.k = "set" /\ st.v = "t" /\ loop => "carried" \in Features
    /\ st.k = "seti" => "t" \notin shape.names \/ "aliases" \in Features
    /\ st.k = "setf" /\ st.v = "b" => "fields" \in Features
    /\ st.v = "d" => "inline" \in Features
    /\ loop => st.e.k # "join" /\ st.e.of.k # "static" /\ st.e.of.v \notin {"a", "c"}

Statements(ns, loop) ==
    LET mine(S) == S \cap ns
        values == Of({"value"}, Atoms(ns))
        written == (UNION {{St("let", x, e) : e \in Inits(ns, x)} : x \in shape.names})
              \cup (UNION {{St("set", x, e) : e \in Inits(ns, x)} : x \in mine(Mutable)})
              \cup {St("seti", v, e) : v \in mine({"s"}), e \in values}
              \cup {St("setf", v, e) : v \in mine({"h", "b"}), e \in values}
              \cup {St("free", NoName, [k |-> "value", of |-> Whole(v)])
                        : v \in mine({"p", "q", "s", "t", "h", "f"})}
              \cup {St("ret", NoName, e) : e \in Results(ns, shape.names)}
    IN {st \in written :
            /\ Fits(st, ns, loop)
            /\ ~(st.k = "set" /\ st.e = [k |-> "value", of |-> Whole(st.v)])}

Params == [x \in {"a", "c", "g"} |-> [t |-> Unknown, mut |-> x = "g"]]

Init ==
    /\ shape \in Shapes
    /\ scope = <<Params>>
    /\ body = <<>> /\ at = "line" /\ pc = 0 /\ count = 0
    /\ mem = [x \in {"a", "c", "g"} |-> IF x = "a" THEN "caller" ELSE IF x = "c" THEN "C" ELSE "null"]
    /\ cell = [c \in Cells |-> IF c = "C" THEN {"caller"} ELSE {"null"}]
    /\ freed = "null" /\ out = {}

\* A statement outside the loop: checked, then run.  A return or a free is
\* not counted; a return not reached is a statement not there.
Write ==
    /\ at = "line"
    /\ \E st \in Statements(Bound(scope), FALSE) :
        /\ count < shape.line \/ st.k \in {"ret", "free"}
        /\ \E c \in {Check(st, scope)} :
            /\ c.ok
            /\ scope' = c.sc
            /\ IF st.k = "ret" THEN Return(st.e) ELSE Execute(st) /\ UNCHANGED at
            /\ count' = IF st.k \in {"ret", "free"} THEN count ELSE count + 1
    /\ UNCHANGED <<shape, body, pc>>

\* A loop begins: its body is written before any of it is checked.
OpenLoop ==
    /\ at = "line" /\ count < shape.line
    /\ at' = "body" /\ count' = count + 1 /\ freed' = "null"
    /\ scope' = Append(scope, <<>>)
    /\ UNCHANGED <<shape, body, pc, mem, cell, out>>

WriteBody ==
    /\ at = "body" /\ Len(body) < shape.loop
    /\ \E st \in Statements(Bound(scope), TRUE) :
        /\ body' = Append(body, st)
        /\ scope' = IF st.k = "let" THEN Bind(scope, st.v, Unknown, FALSE) ELSE scope
    /\ UNCHANGED <<shape, at, pc, count, mem, cell, freed, out>>

CloseLoop ==
    /\ at = "body" /\ body # <<>>
    /\ \E c \in {CheckAll(body, Append(pretaint_loop_body(<<scope[1]>>, body), <<>>))} :
        /\ c.ok
        /\ scope' = c.sc
    /\ at' = "turn" /\ pc' = 1
    /\ UNCHANGED <<shape, body, count, mem, cell, freed, out>>

\* One statement of an iteration; a return is taken or not.
Turn ==
    /\ at = "turn" /\ pc <= Len(body)
    /\ \/ body[pc].k # "ret" /\ Execute(body[pc]) /\ pc' = pc + 1 /\ UNCHANGED at
       \/ body[pc].k = "ret" /\ Return(body[pc].e) /\ UNCHANGED pc
       \/ body[pc].k = "ret" /\ pc' = pc + 1 /\ UNCHANGED <<at, mem, cell, freed, out>>
    /\ UNCHANGED <<shape, scope, body, count>>

\* Between iterations: another one, or the end of the loop.
Again == at = "turn" /\ pc > Len(body) /\ pc' = 1
         /\ UNCHANGED <<shape, scope, body, at, count, mem, cell, freed, out>>

Leave ==
    /\ at = "turn" /\ pc > Len(body)
    /\ at' = "line" /\ pc' = 0 /\ body' = <<>> /\ scope' = <<scope[1]>>
    /\ mem' = [x \in DOMAIN scope[1] |-> mem[x]]
    /\ UNCHANGED <<shape, count, cell, freed, out>>

\* The frame is gone.
Done == at = "stop" /\ UNCHANGED vars

Next == Write \/ OpenLoop \/ WriteBody \/ CloseLoop \/ Turn \/ Again \/ Leave \/ Done

Spec == Init /\ [][Next]_vars

-----------------------------------------------------------------------------
(* Properties *)

TypeOK ==
    /\ shape \in Shapes
    /\ at \in {"line", "body", "turn", "stop"}
    /\ at # "stop" => (Len(scope) = 2) = (at \in {"body", "turn"})
    /\ Len(body) <= shape.loop /\ count <= shape.line /\ pc \in 0..(shape.loop + 1)
    /\ cell \in [Cells -> SUBSET Places]
    /\ freed \in Places /\ out \subseteq Places

\* What outlives the frame never holds a pointer into it: not the global,
\* not a heap block, not the returned value (check_returned_value, the
\* escape check of check_assign, the copies of check_alloc_value).
NothingEscapes ==
    /\ mem["g"] # "frame"
    /\ \A c \in Outliving : "frame" \notin cell[c]
    /\ at = "stop" => "frame" \notin out

\* free is never given the frame's memory (EXPR_FREE).
FreesNoFrame == freed # "frame"

\* One check of a loop body is enough: the taints it ends with would not
\* make it reject the next iteration (pretaint_loop_body).
OnePassIsEnough ==
    at = "turn" => CheckAll(body, <<scope[1], <<>>>>).ok
=============================================================================
