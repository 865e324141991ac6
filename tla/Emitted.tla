------------------------------ MODULE Emitted -------------------------------
(***************************************************************************)
(* What the emitted C does: when it compiles, and the effects it has when  *)
(* it runs.  C evaluates the operands of an operator, the arguments of a   *)
(* call and the two sides of a store in either order; statements, `&&`,    *)
(* `?:` and the declarations of a statement expression in order.           *)
(*                                                                         *)
(* Outcomes are those of Language; env holds the values of temporaries.    *)
(***************************************************************************)
EXTENDS Lower, Language, TLC

-----------------------------------------------------------------------------
(* When it compiles *)

RECURSIVE HasValue(_), Compiles(_, _), StmtsCompile(_, _)

\* The C expression has a value: it is neither void nor a statement.
HasValue(c) ==
    CASE c.c = "call" -> ~Valueless(c.t)
      [] c.c = "stmtexpr" -> Final(c.ss[1]).c = "expr" /\ HasValue(Final(c.ss[1]).xs[1])
      [] c.c = "cond" -> HasValue(c.xs[2]) /\ HasValue(c.xs[3])
      [] OTHER -> c.c \in {"lit", "read", "index", "temp", "op", "and", "matches", "undone",
                           "failed", "failure", "true", "store"}

IsStatement(c) == c.c \in {"decl", "assign", "expr", "return", "break", "continue", "if",
                           "while", "for", "abort"}

\* `in`: `_loop_result` is declared here.
StmtsCompile(ss, in) ==
    LET here == in \/ \E i \in DOMAIN ss : ss[i].c = "decl" /\ ss[i].x = LoopResult
    IN  \A i \in DOMAIN ss : IsStatement(ss[i]) /\ Compiles(ss[i], here)

Compiles(c, in) ==
    /\ c.c # "ice"
    /\ \A i \in DOMAIN c.xs : Compiles(c.xs[i], in)
    /\ \A i \in DOMAIN c.ss : StmtsCompile(c.ss[i], in)
    /\ c.c = "decl" => ~Valueless(c.t)
    /\ c.c = "assign" /\ c.x = LoopResult => in
    /\ c.c = "void" => ~IsStatement(c.xs[1])
    /\ c.c \in {"if", "cond"} => HasValue(c.xs[1])
    /\ c.c \in {"decl", "assign", "op", "call", "and", "store", "while", "for"} =>
           \A i \in DOMAIN c.xs : HasValue(c.xs[i])
    /\ c.c = "cond" => \A i \in {2, 3} : ~IsStatement(c.xs[i])

-----------------------------------------------------------------------------
(* What it does *)

Stored(x, S) == Bind(S, LAMBDA o : {[o EXCEPT !.env = (x :> o.v) @@ @, !.v = <<>>]})

RECURSIVE Run(_, _), RunAll(_, _), RunStmts(_, _), Iterate(_, _)

\* Operands one after the other, and in either order.
RunAll(xs, o) ==
    IF xs = <<>>
    THEN {With(o, <<>>)}
    ELSE Bind(Run(Head(xs), o), LAMBDA x :
             Bind(RunAll(Tail(xs), x), LAMBDA y : {With(y, x.v \o y.v)}))

Unsequenced(xs, o) ==
    RunAll(xs, o)
    \cup (IF Len(xs) # 2 THEN {}
          ELSE Bind(Run(xs[2], o), LAMBDA y :
                   Bind(Run(xs[1], y), LAMBDA x : {With(x, x.v \o y.v)})))

RunStmts(ss, o) ==
    IF ss = <<>> THEN {With(o, <<>>)}
    ELSE Bind(Run(Head(ss), o), LAMBDA x :
             IF Len(ss) = 1 THEN {x} ELSE RunStmts(Tail(ss), x))

\* The turns of a loop from here on.
Iterate(c, o) ==
    LET Next(y) ==
            UNION {CASE r.how = "break" -> {With(r, <<>>)}
                     [] r.how \in {"on", "continue"} -> Iterate(c, With(r, <<>>))
                     [] OTHER -> {r} : r \in RunStmts(c.ss[1], y)}
    IN  IF c.c = "while" THEN Bind(Turn(o), Next)
        ELSE Bind(Test(o), LAMBDA y : IF Holds(y) THEN Next(y) ELSE {With(y, <<>>)})

\* A condition: what the code has computed, or a test.
Decide(c, o) ==
    CASE c.c = "undone" -> {With(o, <<IF o.env[c.x] = <<0>> THEN 1 ELSE 0>>)}
      [] c.c = "failed" -> Bind(Test(o), LAMBDA y : {With(y, <<IF Holds(y) THEN 0 ELSE 1>>)})
      [] OTHER -> Bind(Run(c, o), Test)

RunIf(c, o) ==
    Bind(Decide(c.xs[1], o), LAMBDA y :
        CASE Holds(y) -> RunStmts(c.ss[1], y)
          [] Len(c.ss) = 2 -> RunStmts(c.ss[2], y)
          [] OTHER -> {With(y, <<>>)})

Run(c, o) ==
    CASE c.c = "lit" -> {With(o, <<0>>)}
      [] c.c = "true" -> {With(o, <<1>>)}
      [] c.c = "matches" -> {With(o, <<>>)}
      [] c.c = "read" -> {With(o, <<Len(o.log)>>)}
      [] c.c = "index" -> {Governed(c.n = 1, o)}
      [] c.c = "temp" -> {With(o, o.env[c.x])}
      [] c.c = "failure" -> {With(o, <<0>> \o o.env[c.x])}
      [] c.c = "op" -> Unsequenced(c.xs, o)
      [] c.c = "call" -> Bind(Unsequenced(c.xs, o), LAMBDA x : {Occur(c.n, x)})
      [] c.c = "store" -> Bind(Unsequenced(c.xs, o), LAMBDA x : {Occur(Store, x)})
      [] c.c = "and" ->
             Bind(Run(c.xs[1], o), LAMBDA x :
                 Bind(Test(x), LAMBDA y : IF Holds(y) THEN Run(c.xs[2], y) ELSE {y}))
      [] c.c = "cond" ->
             Bind(Decide(c.xs[1], o), LAMBDA y : Run(c.xs[IF Holds(y) THEN 2 ELSE 3], y))
      [] c.c = "stmtexpr" -> RunStmts(c.ss[1], o)
      [] c.c = "void" -> Drop(Run(c.xs[1], o))
      [] c.c = "expr" -> Run(c.xs[1], o)
      [] c.c = "decl" ->
             IF c.xs = <<>> THEN {With(o, <<>>)} ELSE Stored(c.x, Run(c.xs[1], o))
      [] c.c = "assign" -> Stored(c.x, Run(c.xs[1], o))
      [] c.c = "if" -> RunIf(c, o)
      [] c.c \in {"while", "for"} -> Bind(RunAll(c.xs, o), LAMBDA x : Iterate(c, x))
      [] OTHER -> Bind(RunAll(c.xs, o), LAMBDA x : {[x EXCEPT !.how = c.c]})

\* What the emitted body of a function does.
Does(c, void) == {Ending(o, void) : o \in RunStmts(c, Start)}
=============================================================================
