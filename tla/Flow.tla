-------------------------------- MODULE Flow --------------------------------
(***************************************************************************)
(* What pass2 says of a function body: the type of every statement and     *)
(* expression, as far as control flow decides it, the type the function    *)
(* returns, inferred from its branches when it calls itself, and whether   *)
(* the body is accepted.                                                   *)
(*                                                                         *)
(* The checker carries one record through the body:                        *)
(*   t     the type of what was just checked                               *)
(*   anc   the function's own return type, "unresolved" until a branch     *)
(*         anchors it; a self-call has the type "self", which is read as   *)
(*         anc at the moment it is needed (the code shares one cell)       *)
(*   ok    no error was reported                                           *)
(*   rets  the type of each `return` so far, in order                      *)
(*   brk   the type the `break`s of the enclosing loop agree on, or "none" *)
(*   prop  an `x?` occurs                                                  *)
(* and a context: in what loop it is, and whether guards are on.           *)
(***************************************************************************)
EXTENDS Tree

LOCAL INSTANCE SequencesExt

Top == [loop |-> "none", on |-> 1]

Unchecked(anc) ==
    [t |-> "void", anc |-> anc, ok |-> TRUE, rets |-> <<>>, brk |-> "none", prop |-> FALSE]

Typed(a, t) == [a EXCEPT !.t = t]
Bad(a) == [a EXCEPT !.t = "error", !.ok = FALSE]

\* The type behind the function's own placeholder, as it stands.
Resolved(a, t) == IF t = "self" THEN a.anc ELSE t

-----------------------------------------------------------------------------
(* Which branch to check first *)

\* The branch has a tail value that does not depend on a self-call.
RECURSIVE branch_can_anchor(_)
branch_can_anchor(e) ==
    CASE e.k = "if" ->
             \/ branch_can_anchor(Final(e.ss[1]))
             \/ Len(e.ss) = 1
             \/ branch_can_anchor(Final(e.ss[Len(e.ss)]))
      [] e.k = "match" -> \E i \in DOMAIN e.ss : branch_can_anchor(Final(e.ss[i]))
      [] e.k \in {"block", "mark"} -> branch_can_anchor(Final(e.ss[1]))
      [] OTHER -> ~Has(e, {"self"})

maybe_anchor_recursive(a, t) ==
    IF /\ a.anc = "unresolved"
       /\ Resolved(a, t) \notin {"void", "never", "unresolved", "error"}
    THEN [a EXCEPT !.anc = t]
    ELSE a

\* The type two branches agree on, "none" where they do not.
unify_branch(a, s, t) ==
    CASE Resolved(a, s) \in {"unresolved", "never"} /\ Resolved(a, s) = Resolved(a, t) -> s
      [] Resolved(a, s) = "unresolved" -> t
      [] Resolved(a, t) = "unresolved" -> s
      [] Resolved(a, s) = "never" -> t
      [] Resolved(a, t) = "never" -> s
      [] Resolved(a, s) = Resolved(a, t) -> s
      [] OTHER -> "none"

-----------------------------------------------------------------------------
(* What a deferred expression and a marker's body may hold *)

\* Control flow in e would leave the scope of a defer.
RECURSIVE expr_contains_control_flow(_, _)
expr_contains_control_flow(e, in_loop) ==
    CASE e.k \in {"return", "try"} -> TRUE
      [] e.k \in {"break", "continue"} /\ ~in_loop -> TRUE
      [] OTHER ->
             \/ \E i \in DOMAIN e.xs :
                    expr_contains_control_flow(e.xs[i], in_loop)
             \/ \E i \in DOMAIN e.ss : \E j \in DOMAIN e.ss[i] :
                    expr_contains_control_flow(e.ss[i][j],
                                               in_loop \/ e.k \in {"loop", "for"})

\* An operation the marker around e would toggle: not one under a marker of
\* its own.
RECURSIVE governed_effect_walk(_)
governed_effect_walk(e) ==
    CASE e.k = "mark" -> FALSE
      [] e.k = "index" -> TRUE
      [] OTHER -> \E i \in DOMAIN Kids(e) : governed_effect_walk(Kids(e)[i])

-----------------------------------------------------------------------------
(* Statements and expressions *)

RECURSIVE check_expr(_, _, _), check_block(_, _, _, _)

reject_unresolved_recursive_value(a) ==
    IF Resolved(a, a.t) = "unresolved" THEN Bad(a) ELSE a

check_operand(e, c, a) == reject_unresolved_recursive_value(check_expr(e, c, a))

\* Operands that must all have the type `want`.
Operands(xs, want, c, a) ==
    FoldLeft(LAMBDA b, x : LET d == check_operand(x, c, b)
                           IN  IF Resolved(d, d.t) = want THEN d ELSE Bad(d), a, xs)

\* A result whose failure would be silently dropped.
check_result_ignore(a) == IF Resolved(a, a.t) = "result" THEN Bad(a) ELSE a

\* The statements ss; the value of the last one is used or dropped.
check_block(ss, tail_used, c, a) ==
    LET b == check_expr(Head(ss), c, a) IN
    IF Len(ss) = 1
    THEN IF tail_used THEN b ELSE check_result_ignore(b)
    ELSE check_block(Tail(ss), tail_used, c, check_result_ignore(b))

\* A branch: one expression, or a block.
Branch(ss, c, a) == check_block(ss, TRUE, c, a)

check_if(e, c, a) ==
    LET cond == Operands(e.xs, "bool", c, a)
        reorder == /\ cond.anc = "unresolved"
                   /\ Len(e.ss) = 2
                   /\ ~branch_can_anchor(block_or_single(e.ss[1]))
                   /\ branch_can_anchor(block_or_single(e.ss[2]))
        first == Branch(e.ss[IF reorder THEN 2 ELSE 1], c, cond)
        anchored == maybe_anchor_recursive(first, first.t)
    IN  IF Len(e.ss) = 1
        THEN Typed(check_result_ignore(anchored), "void")
        ELSE LET second == Branch(e.ss[IF reorder THEN 1 ELSE 2], c, anchored)
                 t == IF reorder THEN unify_branch(second, second.t, first.t)
                      ELSE unify_branch(second, first.t, second.t)
             IN  IF t = "none" THEN Bad(second) ELSE Typed(second, t)

\* Faulty: in the order of the source.
Faulty_ArmOrder(e, a) == [i \in DOMAIN e.ss |-> i]

\* The arms in the order they are checked: while the return type is open,
\* those that can anchor it come first.
ArmOrder(e, a) ==
    LET arms == [i \in DOMAIN e.ss |-> i]
        Anchors(i) == branch_can_anchor(Final(e.ss[i]))
    IN  IF a.anc # "unresolved" THEN arms
        ELSE SelectSeq(arms, Anchors) \o SelectSeq(arms, LAMBDA i : ~Anchors(i))

check_arm(e, i, c, a) ==
    LET guard == IF e.n = i THEN Operands(<<e.xs[2]>>, "bool", c, a) ELSE a
        body == Branch(e.ss[i], c, guard)
        t == IF a.t = "none" THEN body.t ELSE unify_branch(body, a.t, body.t)
    IN  IF t = "none" THEN [Bad(body) EXCEPT !.t = a.t]
        ELSE maybe_anchor_recursive(Typed(body, t), t)

check_match(e, c, a) ==
    LET subject == check_operand(e.xs[1], c, a)
        arms == FoldLeft(LAMBDA b, i : check_arm(e, i, c, b), Typed(subject, "none"),
                         ArmOrder(e, subject))
    IN  IF subject.t = "void" THEN Bad(subject) ELSE arms

\* A loop's own `break`s say its type: void without one that has a value.
check_loop(e, c, a) ==
    LET header == Operands(e.xs, "int", c, a)
        body == check_block(e.ss[1], FALSE, [c EXCEPT !.loop = e.k],
                            [header EXCEPT !.brk = "none"])
    IN  [body EXCEPT !.brk = a.brk,
                     !.t = IF e.k = "for" \/ body.brk = "none" THEN "void" ELSE body.brk]

check_break(e, c, a) ==
    LET b == IF e.xs = <<>> THEN Typed(a, "void") ELSE check_expr(e.xs[1], c, a) IN
    CASE c.loop = "none" -> Bad(a)
      [] c.loop = "for" /\ e.xs # <<>> -> Bad(a)
      [] b.brk = "none" -> [b EXCEPT !.brk = b.t, !.t = "never"]
      [] Resolved(b, b.brk) # Resolved(b, b.t) -> Bad(b)
      [] OTHER -> Typed(b, "never")

check_return(e, c, a) ==
    LET b == IF e.xs = <<>> THEN Typed(a, "none") ELSE check_expr(e.xs[1], c, a) IN
    [maybe_anchor_recursive(b, IF e.xs = <<>> THEN "void" ELSE b.t)
        EXCEPT !.rets = Append(b.rets, b.t), !.t = "never"]

check_let(e, c, a) ==
    LET b == check_expr(e.xs[1], c, a) IN
    IF Resolved(b, b.t) \in {"void", "never", "unresolved"} THEN Bad(b) ELSE Typed(b, "void")

check_ignore(e, c, a) ==
    LET b == check_operand(e.xs[1], c, a) IN
    IF Resolved(b, b.t) \in {"void", "never"} THEN Bad(b) ELSE Typed(b, "void")

check_defer(e, c, a) ==
    LET b == check_operand(e.xs[1], c, a) IN
    IF expr_contains_control_flow(e.xs[1], FALSE) THEN Bad(b) ELSE Typed(b, "void")

\* A marker must change something: the context, and an operation in its body.
check_mark(e, c, a) ==
    LET b == Branch(e.ss[1], [c EXCEPT !.on = e.n], a) IN
    IF e.n = c.on \/ ~governed_effect_walk(block_or_single(e.ss[1])) THEN Bad(b) ELSE b

check_propagation(e, c, a) ==
    [Typed(Operands(e.xs, "result", c, a), "int") EXCEPT !.prop = TRUE]

check_expr(e, c, a) ==
    CASE e.k \in {"lit", "read", "index"} -> Typed(a, "int")
      [] e.k = "op" -> Typed(Operands(e.xs, "int", c, a), "int")
      [] e.k = "and" -> Typed(Operands(e.xs, "bool", c, a), "bool")
      [] e.k = "call" -> Typed(Operands(e.xs, "int", c, a), e.t)
      [] e.k = "self" -> Typed(Operands(e.xs, "int", c, a), "self")
      [] e.k = "set" -> Typed(Operands(e.xs, "int", c, a), "void")
      [] e.k = "try" -> check_propagation(e, c, a)
      [] e.k = "if" -> check_if(e, c, a)
      [] e.k = "match" -> check_match(e, c, a)
      [] e.k \in {"loop", "for"} -> check_loop(e, c, a)
      [] e.k = "block" -> Branch(e.ss[1], c, a)
      [] e.k = "mark" -> check_mark(e, c, a)
      [] e.k = "let" -> check_let(e, c, a)
      [] e.k = "return" -> check_return(e, c, a)
      [] e.k = "break" -> check_break(e, c, a)
      [] e.k = "continue" -> IF c.loop = "none" THEN Bad(a) ELSE Typed(a, "never")
      [] e.k = "defer" -> check_defer(e, c, a)
      [] OTHER -> check_ignore(e, c, a)

-----------------------------------------------------------------------------
(* Recursion without a base case *)

Exits == {"return", "break", "continue"}

RECURSIVE sr_flow(_), sr_flow_block(_)

\* Faulty: operands open none.
Faulty_sr_operand_exits(e) == {}

\* The ways out that evaluating the operands of e opens.
sr_operand_exits(e) == UNION {sr_flow(e.xs[i]) : i \in DOMAIN e.xs} \cap Exits

\* The ways control can leave e: "complete", a self-call, or an exit.
sr_flow(e) ==
    CASE e.k = "self" -> {"self"} \cup sr_operand_exits(e)
      [] e.k = "return" ->
             IF e.xs # <<>> /\ "self" \in sr_flow(e.xs[1]) /\ "complete" \notin sr_flow(e.xs[1])
             THEN {"self"} ELSE {"return"}
      [] e.k \in {"break", "continue"} -> {e.k} \cup sr_operand_exits(e)
      [] e.k \in {"block", "mark"} -> sr_flow_block(e.ss[1])
      [] e.k = "if" ->
             UNION {sr_flow_block(e.ss[i]) : i \in DOMAIN e.ss}
             \cup (IF Len(e.ss) = 1 THEN {"complete"} ELSE {})
             \cup sr_operand_exits(e)
      [] e.k = "match" ->
             LET acc == UNION {sr_flow_block(e.ss[i]) : i \in DOMAIN e.ss}
                        \cup (sr_flow(e.xs[1]) \cap Exits)
             IN  IF acc = {} THEN {"complete"} ELSE acc
      [] e.k = "loop" ->
             LET f == sr_flow_block(e.ss[1]) IN
             (f \cap {"return", "self"}) \cup (IF "break" \in f THEN {"complete"} ELSE {})
      [] e.k = "for" ->
             {"complete"} \cup (sr_flow_block(e.ss[1]) \cap {"return"}) \cup sr_operand_exits(e)
      [] e.k = "try" -> {"complete", "return"} \cup sr_operand_exits(e)
      [] e.k = "defer" -> {"complete"}
      [] OTHER -> {"complete"} \cup sr_operand_exits(e)

\* Control threads the statements until one cannot complete.
sr_flow_block(ss) ==
    LET f == sr_flow(Head(ss)) IN
    IF Len(ss) = 1 THEN f
    ELSE IF "complete" \in f THEN (f \ {"complete"}) \cup sr_flow_block(Tail(ss))
    ELSE f

body_always_self_recurses(body) ==
    LET out == sr_flow_block(body) IN "self" \in out /\ out \subseteq {"self"}

-----------------------------------------------------------------------------
(* The function *)

\* The type of a body whose tail yields none: the first valued return's.
DerivedReturn(a, own_marker) ==
    LET valued == SelectSeq(a.rets, LAMBDA t : t # "none" /\ t # "error") IN
    CASE valued # <<>> -> Head(valued)
      [] a.rets # <<>> -> "void"
      [] own_marker -> "never"
      [] OTHER -> "void"

\* Every return agrees with the type the function returns.
check_returns(a, ret) ==
    \A i \in DOMAIN a.rets :
        Resolved(a, IF a.rets[i] = "none" THEN "void" ELSE a.rets[i]) = Resolved(a, ret)

ReturnType(a) ==
    IF Resolved(a, a.t) \in {"never", "unresolved"} /\ a.t # "error"
    THEN Resolved(a, DerivedReturn(a, Resolved(a, a.t) = "unresolved"))
    ELSE Resolved(a, a.t)

\* The checked body a of a function returning `ret`.
Function(body, a, ret) ==
    [ret |-> ret,
     ok |-> /\ a.ok
            /\ ~body_always_self_recurses(body)
            /\ a.prop => ret = "result"
            /\ check_returns(a, ret)]

Checked(body, a) == Function(body, a, ReturnType(a))

check_func(body) == Checked(body, check_block(body, TRUE, Top, Unchecked("unresolved")))

\* The type of what was checked.
Left(a) == Resolved(a, a.t)

\* The nodes with the types pass2 leaves on them in a function returning
\* `ret`, whatever loop and markers are around them.
RECURSIVE Stamped(_, _)
Stamped(ss, ret) ==
    [i \in DOMAIN ss |->
        [ss[i] EXCEPT
            !.t = Left(check_expr(ss[i], [loop |-> "loop", on |-> 2], Unchecked(ret))),
            !.xs = Stamped(@, ret),
            !.ss = [j \in DOMAIN @ |-> Stamped(@[j], ret)]]]
=============================================================================
