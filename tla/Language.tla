------------------------------ MODULE Language ------------------------------
(***************************************************************************)
(* What a function body means: the effects it has, in order, how it ends   *)
(* and with which value, for every way its tests may turn out.  This is    *)
(* the reference the emitted C is compared with (Lower, Emitted): operands *)
(* left to right, a deferred expression once at each exit of its block,    *)
(* last registered first, and a marker governing the operations written    *)
(* inside it.                                                              *)
(*                                                                         *)
(* An outcome is the state after a step:                                   *)
(*   how  "on", or why the rest is skipped: "return", "break", "continue", *)
(*        or "cut" where the bound Turns on tests and turns is reached     *)
(*   v    the value, a sequence of numbers that tells different values     *)
(*        apart: an effect's value is its place in the log                 *)
(*   log  the effects so far, each with the values it was given            *)
(*   in   how the tests turned out so far, and the turns of loops          *)
(*   env  the temporaries of the emitted C (Emitted; unused here)          *)
(***************************************************************************)
EXTENDS Tree

CONSTANT Turns

ASSUME TurnsAssumption == Turns \in Nat

Start == [how |-> "on", v |-> <<>>, log |-> <<>>, in |-> <<>>, env |-> <<>>]

With(o, v) == [o EXCEPT !.how = "on", !.v = v]

\* The outcomes of a step and, where it completes, of what follows it.
Bind(S, F(_)) == UNION {IF o.how = "on" THEN F(o) ELSE {o} : o \in S}

Chosen(o, B) ==
    IF Len(o.in) = Turns
    THEN {[o EXCEPT !.how = "cut"]}
    ELSE {[o EXCEPT !.in = Append(@, b), !.v = <<b>>] : b \in B}

\* A test that may turn out either way, and one more turn of a loop.
Test(o) == Chosen(o, {0, 1})
Turn(o) == Chosen(o, {2})

Holds(o) == o.v = <<1>>

\* Effect n happens, given the value of o.
Occur(n, o) ==
    [o EXCEPT !.log = Append(@, <<n>> \o o.v), !.v = <<Len(o.log) + 1>>]

\* The event of a store, and the value a governed operation reads, which tells
\* whether its guard ran.
Store == 90
Governed(on, o) == With(o, <<IF on THEN 91 ELSE 92, Len(o.log)>>)

Drop(S) == Bind(S, LAMBDA o : {With(o, <<>>)})

-----------------------------------------------------------------------------

RECURSIVE Eval(_, _, _), EvalAll(_, _, _), Body(_, _, _), Rounds(_, _, _),
          Arms(_, _, _, _)

\* The operands xs, left to right.  `on` says whether guards are on here.
EvalAll(xs, on, o) ==
    IF xs = <<>>
    THEN {With(o, <<>>)}
    ELSE Bind(Eval(Head(xs), on, o), LAMBDA x :
             Bind(EvalAll(Tail(xs), on, x), LAMBDA y : {With(y, x.v \o y.v)}))

\* The statements of a block.  What a defer registers runs after the rest of
\* its block, however that ends.
Body(ss, on, o) ==
    IF ss = <<>>
    THEN {With(o, <<>>)}
    ELSE IF Head(ss).k = "defer"
    THEN UNION {IF r.how = "cut"
                THEN {r}
                ELSE {IF d.how = "on" THEN [r EXCEPT !.log = d.log, !.in = d.in] ELSE d :
                          d \in Eval(Head(ss).xs[1], on, With(r, <<>>))} :
                    r \in Body(Tail(ss), on, o)}
    ELSE Bind(Eval(Head(ss), on, o), LAMBDA x :
             IF Len(ss) = 1 THEN {x} ELSE Body(Tail(ss), on, x))

\* The turns of a loop from here on; a `for` may end before each.
Rounds(e, on, o) ==
    LET Next(y) ==
            UNION {CASE r.how = "break" -> {With(r, r.v)}
                     [] r.how \in {"on", "continue"} -> Rounds(e, on, With(r, <<>>))
                     [] OTHER -> {r} :
                       r \in Body(e.ss[1], on, y)}
    IN  IF e.k = "loop"
        THEN Bind(Turn(o), Next)
        ELSE Bind(Test(o), LAMBDA y : IF Holds(y) THEN Next(y) ELSE {With(y, <<>>)})

\* The first arm from i on whose pattern matches and whose guard holds.
Arms(e, i, on, o) ==
    IF i = Len(e.ss)
    THEN Body(e.ss[i], on, o)
    ELSE Bind(Test(o), LAMBDA x :
             IF ~Holds(x) THEN Arms(e, i + 1, on, x)
             ELSE IF e.n # i THEN Body(e.ss[i], on, x)
             ELSE Bind(Eval(e.xs[2], on, x), LAMBDA g :
                      Bind(Test(g), LAMBDA y :
                          IF Holds(y) THEN Body(e.ss[i], on, y)
                          ELSE Arms(e, i + 1, on, y))))

Eval(e, on, o) ==
    CASE e.k = "lit" -> {With(o, <<0>>)}
      [] e.k = "read" -> {With(o, <<Len(o.log)>>)}
      [] e.k = "op" -> EvalAll(e.xs, on, o)
      [] e.k = "index" -> {Governed(on, o)}
      [] e.k = "set" -> Bind(EvalAll(e.xs, on, o), LAMBDA x : {Occur(Store, x)})
      [] e.k \in {"call", "self"} ->
             Bind(EvalAll(e.xs, on, o), LAMBDA x : {Occur(e.n, x)})
      [] e.k = "and" ->
             Bind(Eval(e.xs[1], on, o), LAMBDA x :
                 Bind(Test(x), LAMBDA y :
                     IF Holds(y) THEN Eval(e.xs[2], on, y) ELSE {y}))
      [] e.k = "try" ->
             Bind(Eval(e.xs[1], on, o), LAMBDA x :
                 Bind(Test(x), LAMBDA y :
                     {IF Holds(y) THEN With(y, x.v)
                      ELSE [y EXCEPT !.how = "return", !.v = <<0>> \o x.v]}))
      [] e.k = "if" ->
             Bind(Eval(e.xs[1], on, o), LAMBDA x :
                 Bind(Test(x), LAMBDA y :
                     CASE Len(e.ss) = 2 -> Body(e.ss[IF Holds(y) THEN 1 ELSE 2], on, y)
                       [] Holds(y) -> Drop(Body(e.ss[1], on, y))
                       [] OTHER -> {With(y, <<>>)}))
      [] e.k = "match" -> Bind(Eval(e.xs[1], on, o), LAMBDA x : Arms(e, 1, on, x))
      [] e.k = "block" -> Body(e.ss[1], on, o)
      [] e.k = "mark" -> Body(e.ss[1], e.n = 1, o)
      [] e.k \in {"loop", "for"} ->
             Bind(EvalAll(e.xs, on, o), LAMBDA x : Rounds(e, on, x))
      [] e.k \in {"let", "ignore"} -> Drop(Eval(e.xs[1], on, o))
      [] OTHER -> Bind(EvalAll(e.xs, on, o), LAMBDA x : {[x EXCEPT !.how = e.k]})

\* How a function ends: its effects, its value (none when it returns void),
\* and how the tests turned out on the way.
Ending(o, void) ==
    [cut |-> o.how = "cut", v |-> IF void \/ o.how = "cut" THEN <<>> ELSE o.v,
     log |-> o.log, in |-> o.in, lost |-> o.how \in {"break", "continue", "abort"}]

Means(body, void) == {Ending(o, void) : o \in Body(body, TRUE, Start)}
=============================================================================
