------------------------------- MODULE Lower --------------------------------
(***************************************************************************)
(* The C that codegen emits for a function body.  FC's blocks, branches    *)
(* and matches are expressions and C's are not, so each is emitted as a C  *)
(* statement where its value is not used, and else as a ternary or a GCC   *)
(* statement expression; and deferred expressions, which FC runs at the    *)
(* exits of their block, are copied to each of those exits.                *)
(*                                                                         *)
(* A node of the C tree has the fields                                     *)
(*   c   its kind                                                          *)
(*   xs  the C expressions in it                                           *)
(*   ss  the C statement sequences in it                                   *)
(*   x   the name it declares, reads or assigns                            *)
(*   n   a call's effect; whether an operation has its guard               *)
(*   t   the FC type that is declared or returned                          *)
(*                                                                         *)
(* The emitter's globals are one record: the defer scopes, innermost       *)
(* first, whether guards are on, and how many temporaries are around the   *)
(* code being emitted.                                                     *)
(***************************************************************************)
EXTENDS Tree

LOCAL INSTANCE SequencesExt

CNode(c, xs, ss) == [c |-> c, xs |-> xs, ss |-> ss, x |-> <<>>, n |-> 0, t |-> "void"]

CTemp(x) == [CNode("temp", <<>>, <<>>) EXCEPT !.x = x]
CVoid(x) == CNode("void", <<x>>, <<>>)
CStmt(x) == CNode("expr", <<x>>, <<>>)
CDecl(t, x, xs) == [CNode("decl", xs, <<>>) EXCEPT !.x = x, !.t = t]
CAssign(x, v) == [CNode("assign", <<v>>, <<>>) EXCEPT !.x = x]
CIf(c, ss) == CNode("if", <<c>>, ss)
CReturn(xs) == CNode("return", xs, <<>>)
StmtExpr(ss) == CNode("stmtexpr", <<>>, <<ss>>)
internal_error == CNode("ice", <<>>, <<>>)

\* `_loop_result` is one name: the innermost that is declared is meant.
LoopResult == <<"_loop_result">>

Valueless(t) == t \in {"void", "never"}

-----------------------------------------------------------------------------
(* Operands *)

\* A conservative test for an effect.
RECURSIVE expr_has_side_effects(_)
expr_has_side_effects(e) ==
    CASE e.k \in {"lit", "read"} -> FALSE
      [] e.k \in {"op", "and", "index"} -> \E i \in DOMAIN e.xs : expr_has_side_effects(e.xs[i])
      [] e.k = "mark" -> expr_has_side_effects(block_or_single(e.ss[1]))
      [] OTHER -> TRUE

seq_is_atom(e) == e.k = "lit"

seq_needed(xs) == Len(xs) >= 2 /\ \E i \in DOMAIN xs : expr_has_side_effects(xs[i])

-----------------------------------------------------------------------------
(* Defer scopes *)

defer_scope_push(f, is_loop) ==
    [f EXCEPT !.scopes = <<[loop |-> is_loop, ds |-> <<>>]>> \o @]

defer_scope_add(f, d) == [f EXCEPT !.scopes[1].ds = Append(@, d)]

has_pending_defers(f) == \E i \in DOMAIN f.scopes : f.scopes[i].ds # <<>>

Deeper(f) == [f EXCEPT !.depth = @ + 1]

RECURSIVE Emit(_, _), emit_block_stmts(_, _, _, _)

\* The deferred expression is emitted as a C statement, not as an expression.
RECURSIVE defer_emits_statement(_)
defer_emits_statement(e) ==
    CASE e.k = "for" -> TRUE
      [] e.k \in {"loop", "if"} -> Valueless(e.t)
      [] e.k = "mark" -> defer_emits_statement(block_or_single(e.ss[1]))
      [] OTHER -> FALSE

\* Faulty: first registered first.
Faulty_emit_scope_defers(ds, f) == [i \in DOMAIN ds |-> CStmt(CVoid(Emit(ds[i], f)))]

\* One scope's defers, last registered first, as guards are here.
emit_scope_defers(ds, f) ==
    [i \in DOMAIN ds |-> LET d == Reverse(ds)[i]
                         IN  IF defer_emits_statement(d) THEN Emit(d, f)
                             ELSE CStmt(CVoid(Emit(d, f)))]

\* The defers of the n innermost scopes.
DefersOf(n, f) ==
    FlattenSeq([i \in 1..n |-> emit_scope_defers(f.scopes[i].ds, f)])

emit_defers_to_loop(f) ==
    DefersOf(CHOOSE n \in DOMAIN f.scopes :
                 f.scopes[n].loop /\ \A m \in 1..(n - 1) : ~f.scopes[m].loop, f)

emit_defers_to_func(f) == DefersOf(Len(f.scopes), f)

-----------------------------------------------------------------------------
(* Statements *)

\* The value first, then the defers, then the transfer.
Through(prefix, e, f, defers, transfer(_)) ==
    LET x == <<prefix, f.depth>> IN
    <<CDecl(e.t, x, <<Emit(e, Deeper(f))>>)>> \o defers \o transfer(CTemp(x))

emit_return_through_defers(e, f) ==
    Through("_ret", e, f, emit_defers_to_func(Deeper(f)), LAMBDA x : <<CReturn(<<x>>)>>)

EmitReturn(s, f) ==
    CASE s.xs # <<>> /\ has_pending_defers(f) -> emit_return_through_defers(s.xs[1], f)
      [] s.xs # <<>> -> <<CReturn(<<Emit(s.xs[1], f)>>)>>
      [] OTHER -> Append(emit_defers_to_func(f), CReturn(<<>>))

EmitBreak(s, f) ==
    LET Leave(x) == <<CAssign(LoopResult, x), CNode("break", <<>>, <<>>)>> IN
    CASE s.xs # <<>> /\ has_pending_defers(f) ->
             Through("_brk", s.xs[1], f, emit_defers_to_loop(Deeper(f)), Leave)
      [] s.xs # <<>> -> Leave(Emit(s.xs[1], f))
      [] OTHER -> Append(emit_defers_to_loop(f), CNode("break", <<>>, <<>>))

\* A statement other than a defer; `final` where it is its block's last one.
\* The block's value is used ("value"), dropped ("discard"), returned
\* ("return") or stored in the temporary x ("assign").
EmitStmt(s, final, f, tail, x) ==
    LET own == f.scopes[1].ds IN
    CASE s.k = "return" -> EmitReturn(s, f)
      [] s.k = "break" -> EmitBreak(s, f)
      [] s.k = "continue" -> Append(emit_defers_to_loop(f), CNode("continue", <<>>, <<>>))
      [] s.k \in {"let", "for"} -> <<Emit(s, f)>>
      [] s.k \in {"if", "loop"} /\ Valueless(s.t) -> <<Emit(s, f)>>
      [] final /\ tail = "assign" /\ ~Valueless(s.t) ->
             IF own = <<>> THEN <<CAssign(x, Emit(s, f))>>
             ELSE Through("_mret", s, f, emit_scope_defers(own, Deeper(f)),
                          LAMBDA v : <<CAssign(x, v)>>)
      [] final /\ tail = "return" /\ ~Valueless(s.t) ->
             IF has_pending_defers(f) THEN emit_return_through_defers(s, f)
             ELSE <<CReturn(<<Emit(s, f)>>)>>
      [] final /\ tail # "return" /\ s.t # "void" /\ own # <<>> ->
             Through("_blk", s, f, emit_scope_defers(own, Deeper(f)),
                     LAMBDA v : <<CStmt(IF tail = "value" THEN v ELSE CVoid(v))>>)
      [] OTHER ->
             <<CStmt(IF s.t # "void" /\ (~final \/ tail # "value") THEN CVoid(Emit(s, f))
                     ELSE Emit(s, f))>>

\* The defers at the end of a block, where its value has not taken them.
EndDefers(last, f, tail) ==
    LET already_handled == /\ last.k # "defer"
                           /\ last.t # "void"
                           /\ tail = "return" => last.k # "return"
    IN  IF already_handled THEN <<>> ELSE emit_scope_defers(f.scopes[1].ds, f)

emit_block_stmts(ss, f, tail, x) ==
    LET s == Head(ss)
        g == IF s.k = "defer" THEN defer_scope_add(f, s.xs[1]) ELSE f
    IN  (IF s.k = "defer" THEN <<>> ELSE EmitStmt(s, Len(ss) = 1, f, tail, x))
        \o (IF Len(ss) = 1 THEN EndDefers(s, g, tail) ELSE emit_block_stmts(Tail(ss), g, tail, x))

EmitBlock(ss, f, tail, x) == emit_block_stmts(ss, defer_scope_push(f, FALSE), tail, x)

emit_fn_body(body) ==
    EmitBlock(body, [scopes |-> <<>>, on |-> TRUE, depth |-> 0], "return", <<>>)

-----------------------------------------------------------------------------
(* Branches, arms and loops *)

\* A branch is a scope, whether it is one expression or a block.
emit_branch_stmts(ss, f) ==
    EmitBlock(IF Len(ss) = 1 /\ ss[1].k = "block" THEN ss[1].ss[1] ELSE ss, f, "discard", <<>>)

\* Faulty: a branch that diverges is taken for a value.
Faulty_emit_branch_into(ss, x, f) == <<CAssign(x, Emit(block_or_single(ss), f))>>

\* A branch of an `if` that has a value: it is stored, unless the branch
\* diverges.
emit_branch_into(ss, x, f) ==
    IF Final(ss).t = "never"
    THEN emit_branch_stmts(ss, f)
    ELSE <<CAssign(x, Emit(block_or_single(ss), f))>>

emit_if_stmt(e, f) ==
    CIf(Emit(e.xs[1], f), [i \in DOMAIN e.ss |-> emit_branch_stmts(e.ss[i], f)])

EmitIf(e, f) ==
    LET Never(i) == Final(e.ss[i]).t = "never"
        x == <<"_ifres", f.depth>>
        cond == Emit(e.xs[1], f)
    IN
    CASE Valueless(e.t) -> emit_if_stmt(e, f)
      [] Len(e.ss) = 2 /\ ~Never(1) /\ ~Never(2) ->
             CNode("cond", <<cond>> \o [i \in 1..2 |-> Emit(block_or_single(e.ss[i]), f)], <<>>)
      [] OTHER ->
             StmtExpr(<<CDecl(e.t, x, <<>>),
                        CIf(cond, [i \in DOMAIN e.ss |-> emit_branch_into(e.ss[i], x, Deeper(f))]),
                        CStmt(CTemp(x))>>)

CMatches == CNode("matches", <<>>, <<>>)

\* Arms as a chain of tests, the last arm's left out.
ArmChain(arms) ==
    FoldRight(LAMBDA arm, rest : <<CIf(CMatches, <<arm, rest>>)>>, Front(arms), Final(arms))

\* With a guard in an arm, each arm runs where no arm before it is done.
GuardedArms(e, f, arms) ==
    LET done == <<"_matchdone", f.depth>>
        undone == [CNode("undone", <<>>, <<>>) EXCEPT !.x = done]
        Tested(i) ==
            LET body == Append(arms[i], CAssign(done, CNode("true", <<>>, <<>>)))
                guarded == IF e.n = i THEN <<CIf(Emit(e.xs[2], Deeper(f)), <<body>>)>> ELSE body
            IN  IF i = Len(e.ss) THEN guarded ELSE <<CIf(CMatches, <<guarded>>)>>
    IN  <<CDecl("int", done, <<CNode("lit", <<>>, <<>>)>>)>>
        \o [i \in DOMAIN e.ss |-> CIf(undone, <<Tested(i)>>)]
        \o <<CIf(undone, <<<<CNode("abort", <<>>, <<>>)>>>>)>>

emit_match(e, f) ==
    LET void == Valueless(e.t)
        x == <<"_match", f.depth>>
        arms == [i \in DOMAIN e.ss |->
                    EmitBlock(e.ss[i], Deeper(f), IF void THEN "discard" ELSE "assign", x)]
    IN  StmtExpr(<<CDecl(e.xs[1].t, <<"_subj", f.depth>>, <<Emit(e.xs[1], Deeper(f))>>)>>
                 \o (IF void THEN <<>> ELSE <<CDecl(e.t, x, <<>>)>>)
                 \o (IF e.n = 0 THEN ArmChain(arms) ELSE GuardedArms(e, f, arms))
                 \o (IF void THEN <<>> ELSE <<CStmt(CTemp(x))>>))

LoopBody(e, f) == emit_block_stmts(e.ss[1], defer_scope_push(f, TRUE), "discard", <<>>)

EmitLoop(e, f) ==
    LET while == CNode("while", <<>>, <<LoopBody(e, f)>>)
    IN  IF e.t = "void" THEN while
        ELSE StmtExpr(<<CDecl(e.t, LoopResult, <<>>), while, CStmt(CTemp(LoopResult))>>)

\* The end of a range goes into a temporary before its start is evaluated.
emit_for(e, f) ==
    CNode("for", [i \in DOMAIN e.xs |-> Emit(Reverse(e.xs)[i], f)], <<LoopBody(e, f)>>)

-----------------------------------------------------------------------------
(* Expressions *)

\* Operands an effect makes the order of visible: all but the last go into
\* temporaries, in the order of the source, except where they are constants.
seq_hoist(xs, f, use(_)) ==
    LET x == <<"_sq", f.depth>>
        g == Deeper(f)
    IN  IF seq_is_atom(xs[1]) THEN use([i \in DOMAIN xs |-> Emit(xs[i], g)])
        ELSE StmtExpr(<<CDecl(xs[1].t, x, <<Emit(xs[1], g)>>),
                        CStmt(use(<<CTemp(x), Emit(xs[2], g)>>))>>)

EmitOperands(xs, f, use(_)) ==
    IF seq_needed(xs) THEN seq_hoist(xs, f, use) ELSE use([i \in DOMAIN xs |-> Emit(xs[i], f)])

\* The target's address, then the value, then the store.
emit_assign(e, f) ==
    LET at == <<"_at", f.depth>>
        av == <<"_av", f.depth>>
        Into(i, v) == CNode("store", <<i, v>>, <<>>)
        xs == [i \in DOMAIN e.xs |-> Emit(e.xs[i], Deeper(f))]
    IN  IF \E i \in DOMAIN e.xs : expr_has_side_effects(e.xs[i])
        THEN StmtExpr(<<CDecl("int", at, <<xs[1]>>),
                        CDecl(e.xs[2].t, av, <<xs[2]>>),
                        CStmt(Into(CTemp(at), CTemp(av)))>>)
        ELSE Into(xs[1], xs[2])

\* A failure runs every pending defer and is returned.
EmitPropagate(e, f) ==
    LET x == <<"_pr", f.depth>>
        g == Deeper(f)
    IN  StmtExpr(<<CDecl(e.xs[1].t, x, <<Emit(e.xs[1], g)>>),
                   CIf([CTemp(x) EXCEPT !.c = "failed"],
                       <<Append(emit_defers_to_func(g), CReturn(<<[CTemp(x) EXCEPT !.c = "failure"]>>))>>),
                   CStmt(CTemp(x))>>)

EmitMark(e, f) == Emit(block_or_single(e.ss[1]), [f EXCEPT !.on = e.n = 1])

EmitLet(e, f) ==
    CDecl(e.xs[1].t, <<"let", f.depth>>, <<Emit(e.xs[1], Deeper(f))>>)

Emit(e, f) ==
    CASE e.k \in {"lit", "read"} -> CNode(e.k, <<>>, <<>>)
      [] e.k = "index" -> [CNode("index", <<>>, <<>>) EXCEPT !.n = IF f.on THEN 1 ELSE 0]
      [] e.k = "op" -> EmitOperands(e.xs, f, LAMBDA xs : CNode("op", xs, <<>>))
      [] e.k = "and" -> CNode("and", [i \in 1..2 |-> Emit(e.xs[i], f)], <<>>)
      [] e.k \in {"call", "self"} ->
             EmitOperands(e.xs, f, LAMBDA xs :
                 [CNode("call", xs, <<>>) EXCEPT !.n = e.n, !.t = e.t])
      [] e.k = "set" -> emit_assign(e, f)
      [] e.k = "try" -> EmitPropagate(e, f)
      [] e.k = "if" -> EmitIf(e, f)
      [] e.k = "match" -> emit_match(e, f)
      [] e.k = "loop" -> EmitLoop(e, f)
      [] e.k = "for" -> emit_for(e, f)
      [] e.k = "block" -> StmtExpr(EmitBlock(e.ss[1], f, "value", <<>>))
      [] e.k = "mark" -> EmitMark(e, f)
      [] e.k = "let" -> EmitLet(e, f)
      [] e.k = "ignore" -> CVoid(Emit(e.xs[1], f))
      [] OTHER -> internal_error
=============================================================================
