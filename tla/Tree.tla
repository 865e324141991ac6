-------------------------------- MODULE Tree --------------------------------
(***************************************************************************)
(* The statements and expressions of a function body, as the parser hands  *)
(* them to the checker and the emitter (Flow, Lower).  Names, values and   *)
(* the types of data are left out: what remains is what can transfer       *)
(* control, have an effect, or decide when an effect happens.              *)
(*                                                                         *)
(* Every node has the same fields:                                         *)
(*   k   its kind                                                          *)
(*   xs  the expressions it evaluates: operands, arguments, a condition    *)
(*   ss  the statement sequences in it: branches, arms, a loop's body      *)
(*   n   a number: which effect a call has, which arm has a guard, whether *)
(*       a marker turns guards on                                          *)
(*   t   the type a call returns; of any node, once pass2 has stamped it   *)
(***************************************************************************)
EXTENDS Integers, Sequences

LOCAL INSTANCE SequencesExt

Node(k, xs, ss) == [k |-> k, xs |-> xs, ss |-> ss, n |-> 0, t |-> "void"]

-----------------------------------------------------------------------------
(* Expressions *)

\* A value that never changes, and a read of a variable that may.
Lit == Node("lit", <<>>, <<>>)
Read == Node("read", <<>>, <<>>)

\* A call of another function, whose effect is the n-th of the body, and a
\* call of the function the body belongs to.
Call(n, t, xs) == [Node("call", xs, <<>>) EXCEPT !.n = n, !.t = t]
SelfEvent == 99
Self(xs) == [Node("self", xs, <<>>) EXCEPT !.n = SelfEvent]

\* An operator or an aggregate literal, `a && b`, and an operation that the
\* markers `guarded` and `unguarded` govern.
Op(xs) == Node("op", xs, <<>>)
Both(x, y) == Node("and", <<x, y>>, <<>>)
Index == Node("index", <<>>, <<>>)

\* `x?`.
Propagate(x) == Node("try", <<x>>, <<>>)

\* One item stands for itself, several are a block.
block_or_single(ss) ==
    IF Len(ss) = 1 THEN ss[1]
    ELSE [Node("block", <<>>, <<ss>>) EXCEPT !.t = ss[Len(ss)].t]

If(c, then) == Node("if", <<c>>, <<then>>)
IfElse(c, then, else) == Node("if", <<c>>, <<then, else>>)
Loop(ss) == Node("loop", <<>>, <<ss>>)
For(lo, hi, ss) == Node("for", <<lo, hi>>, <<ss>>)
ForEach(x, ss) == Node("for", <<x>>, <<ss>>)
Mark(on, ss) == [Node("mark", <<>>, <<ss>>) EXCEPT !.n = on]

\* The last arm matches what the others leave.  Arm n has the guard g, or no
\* arm has one (n = 0).
Match(x, arms) == Node("match", <<x>>, arms)
MatchWhen(x, n, g, arms) == [Node("match", <<x, g>>, arms) EXCEPT !.n = n]

-----------------------------------------------------------------------------
(* Statements *)

Let(x) == Node("let", <<x>>, <<>>)
Set(i, x) == Node("set", <<i, x>>, <<>>)
Return(xs) == Node("return", xs, <<>>)
Break(xs) == Node("break", xs, <<>>)
Continue == Node("continue", <<>>, <<>>)
Defer(x) == Node("defer", <<x>>, <<>>)
Ignore(x) == Node("ignore", <<x>>, <<>>)

-----------------------------------------------------------------------------

\* The nodes directly under a node.
Kids(e) == e.xs \o FlattenSeq(e.ss)

\* A node of one of the kinds ks occurs in e, e itself included.
RECURSIVE Has(_, _)
Has(e, ks) ==
    \/ e.k \in ks
    \/ \E i \in DOMAIN Kids(e) : Has(Kids(e)[i], ks)

HasAny(ss, ks) == \E i \in DOMAIN ss : Has(ss[i], ks)

Final(ss) == ss[Len(ss)]
=============================================================================
