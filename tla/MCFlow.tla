------------------------------- MODULE MCFlow -------------------------------
(***************************************************************************)
(* Function bodies, built from a statement by putting statements after it  *)
(* and before it and by wrapping what there is in a construct, Size steps  *)
(* deep, for one Topic at a time.  A state is a body; its properties       *)
(* compare what pass2 says of it, what codegen emits for it, and what it   *)
(* means.                                                                  *)
(***************************************************************************)
EXTENDS Flow, Emitted

CONSTANTS Topics, Size

VARIABLES topic, body, size

vars == <<topic, body, size>>

\* Calls, each with an effect of its own in the bodies of one size.
Gives(xs) == Call(size + 1, "int", xs)
Bool == Call(size + 21, "bool", <<>>)
Result(xs) == Call(size + 31, "result", xs)
Void(xs) == Call(size + 41, "void", xs)

\* One effect, as an expression and as a branch; and what there is, as one
\* expression.
Effect == Gives(<<>>)
Other == <<Effect>>
Group == block_or_single(body)

Statements ==
    CASE topic = "exits" ->
             {Effect, Void(<<>>), Return(Other), Return(<<>>), Break(<<>>), Break(Other),
              Continue, Propagate(Result(<<>>))}
      [] topic = "order" -> {Lit, Read, Effect, Result(<<>>)}
      [] topic = "self" -> {Lit, Self(<<>>), Return(<<Lit>>), Return(<<Self(<<>>)>>), Void(<<>>)}
      [] topic = "marks" -> {Index, Gives(<<Index>>), Return(<<Index>>)}

Firsts ==
    CASE topic = "exits" -> {Defer(Effect)}
      [] topic = "marks" -> {Defer(Gives(<<Index>>))}
      [] OTHER -> {}

Wrapped ==
    CASE topic = "exits" ->
             {If(Bool, body), IfElse(Bool, body, Other), Loop(body), ForEach(Effect, body),
              Match(Effect, <<body, Other>>), MatchWhen(Lit, 1, Bool, <<body, Other>>),
              Let(Group), Group}
      [] topic = "order" ->
             {Op(<<Group, Read>>), Op(<<Read, Group>>), Op(<<Effect, Group>>), Gives(<<Group, Read>>),
              Set(Group, Read), Set(Read, Group), Both(Bool, Group), Propagate(Group),
              IfElse(Group, <<Lit>>, Other), IfElse(Bool, body, <<Lit>>),
              Match(Group, <<<<Lit>>, Other>>), MatchWhen(Group, 1, Bool, <<body, <<Lit>>>>),
              Let(Group), Ignore(Group), For(Lit, Group, <<Void(<<>>)>>)}
      [] topic = "self" ->
             {If(Bool, body), IfElse(Bool, body, <<Lit>>), IfElse(Bool, body, <<Self(<<>>)>>),
              Match(Lit, <<<<Op(<<Self(<<>>), Lit>>)>>, body>>), Match(Lit, <<body, <<Lit>>>>),
              Loop(body), Let(Group), Op(<<Group, Lit>>), Break(<<Group>>)}
      [] topic = "marks" ->
             {Mark(0, body), Mark(1, body), If(Bool, body), IfElse(Bool, body, Other),
              ForEach(Lit, body)}

Init ==
    /\ topic \in Topics
    /\ size = 0
    /\ body \in {<<s>> : s \in Statements}

Extended(b) ==
    /\ size < Size
    /\ size' = size + 1
    /\ body' = b
    /\ UNCHANGED topic

After == \E s \in Statements : Extended(Append(body, s))
Before == \E s \in Firsts : Extended(<<s>> \o body)
Wrap == \E e \in Wrapped : Extended(<<e>>)

\* Bodies that are rejected anywhere stay rejected.
Open == check_block(body, TRUE, [loop |-> "loop", on |-> 2], Unchecked("unresolved")).ok

Next == Open /\ (After \/ Before \/ Wrap)

Spec == Init /\ [][Next]_vars

-----------------------------------------------------------------------------
(* Bodies pass2 accepts and codegen has no C for *)

\* An operand that never has a value, a marker over a transfer, a loop that
\* is only left by transfers out of its function, and a match or a block that
\* is, where defers are pending.
RECURSIVE Unemittable(_)
Unemittable(e) ==
    \/ e.k # "defer" /\ \E i \in DOMAIN e.xs : Valueless(e.xs[i].t)
    \/ e.k \in {"block", "mark", "loop", "match"} /\ e.t = "never"
    \/ \E i \in DOMAIN Kids(e) : Unemittable(Kids(e)[i])

\* And a branch that was found to agree with a self-call before the type that
\* call has was known.
Emittable(ss, ret) ==
    /\ check_block(ss, TRUE, Top, Unchecked(ret)).ok
    /\ \A i \in DOMAIN ss : ~Unemittable(ss[i])

\* The value comes from the tails of branches: no other statement, and
\* nothing in an operand, branches, returns or uses a self-call's value.
Branching == {"if", "match", "loop", "block", "return"}

RECURSIVE ValueAtTails(_)
ValueAtTails(ss) ==
    LET e == Final(ss)
        Within(ks) == \E i \in DOMAIN e.xs : Has(e.xs[i], ks)
    IN
    /\ \A i \in 1..(Len(ss) - 1) : ss[i].k = "self" \/ ~Has(ss[i], Branching \cup {"self"})
    /\ ~Within(Branching)
    /\ e.k # "loop"
    /\ e.k \in {"if", "match"} => ~Within({"self"})
    /\ \A i \in DOMAIN e.ss : ValueAtTails(e.ss[i])

\* An exit under a marker may run a deferred operation that is outside it.
RECURSIVE ExitsMarker(_)
ExitsMarker(e) ==
    IF e.k = "mark" THEN HasAny(e.ss[1], {"return", "break", "continue", "try"})
    ELSE \E i \in DOMAIN Kids(e) : ExitsMarker(Kids(e)[i])

RECURSIVE DefersAcrossMarker(_)
DefersAcrossMarker(ss) ==
    \/ \E i, j \in DOMAIN ss :
           i < j /\ ss[i].k = "defer" /\ Has(ss[i], {"index"}) /\ ExitsMarker(ss[j])
    \/ \E i \in DOMAIN ss : \E j \in DOMAIN ss[i].ss : DefersAcrossMarker(ss[i].ss[j])

-----------------------------------------------------------------------------

SameRuns(ss, ret) ==
    Emittable(ss, ret) => Does(emit_fn_body(ss), Valueless(ret)) = Means(body, Valueless(ret))

Faithful(f) == f.ok => SameRuns(Stamped(body, f.ret), f.ret)

\* The emitted C has the effects of the source, in its order, whatever exits
\* it takes: every deferred expression once, last registered first, operands
\* and their failures left to right, and the value of the branch that is
\* taken (codegen's emit_block_stmts, seq_hoist and EXPR_IF).  Left out is a
\* deferred operation that an exit under a marker runs: its guard is the exit's.
RunsAsWritten == DefersAcrossMarker(body) \/ Faithful(check_func(body))

HasC(ss, ret) == Emittable(ss, ret) => StmtsCompile(emit_fn_body(ss), FALSE)

Builds(f) == f.ok => HasC(Stamped(body, f.ret), f.ret)

\* What pass2 accepts, codegen can emit, and the C compiles: no transfer is
\* emitted as an expression, no temporary is void, no void is used as a value
\* (codegen's TailMode, emit_branch_into and internal_error).
CompilesToC == Builds(check_func(body))

\* The body with the branches of each `if` and the arms of each match
\* exchanged.
RECURSIVE Swapped(_)
SwapAll(ss) == [i \in DOMAIN ss |-> Swapped(ss[i])]
Exchanged(e, ss) ==
    [e EXCEPT !.ss = IF e.k \in {"if", "match"} /\ Len(ss) = 2 THEN <<ss[2], ss[1]>> ELSE ss,
              !.xs = SwapAll(@)]
Swapped(e) == Exchanged(e, [i \in DOMAIN e.ss |-> SwapAll(e.ss[i])])

\* Whether a recursive function is accepted does not depend on which branch
\* has its base case (pass2's branch_can_anchor and maybe_anchor_recursive).
BranchOrderFree ==
    ValueAtTails(body) => check_func(body).ok = check_func(SwapAll(body)).ok

\* A self-call is an operand, rather than a statement or what is returned.
RECURSIVE SelfInOperand(_)
SelfInOperand(e) ==
    \/ e.k # "return" /\ HasAny(e.xs, {"self"})
    \/ \E i \in DOMAIN Kids(e) : SelfInOperand(Kids(e)[i])

\* A function is rejected for calling itself on every path only if each of
\* its runs that ends does call itself (pass2's body_always_self_recurses).
\* Otherwise some run of it never does, unless an operand calls it: the flow
\* leaves those to the check of the operand's value.
BaseCaseKept ==
    LET Recurses(r) == \E i \in DOMAIN r.log : Head(r.log[i]) = SelfEvent
    IN IF body_always_self_recurses(body)
       THEN \A r \in Means(body, FALSE) : r.cut \/ Recurses(r)
       ELSE \/ \E i \in DOMAIN body : SelfInOperand(body[i])
            \/ \E r \in Means(body, FALSE) : ~Recurses(r)
=============================================================================
