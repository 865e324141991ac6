---------------------------- MODULE Conditionals ----------------------------
(* Conditional compilation (lexer.c): the #if evaluator and the filter that    *)
(* drops the inactive branches from a file's tokens.  The file is taken line   *)
(* by line: a directive with the tokens of its condition, or a text line.      *)
(* What follows #else or #end on its own line is a line here too: the filter   *)
(* drops the newline right after a directive and nothing else, so tokens there *)
(* are copied, and a directive there refused for its column, as on a new line. *)
EXTENDS Naturals, Sequences

CONSTANTS
    Line,            \* the lines of a file: [directive, col, ...]
    Flag,            \* the flags the conditions are read under: [name, value]
    Ident, Literal,  \* flag names and string literals inside conditions
    NoFlag,          \* flag_lookup found nothing
    MaxCondDepth     \* MAX_COND_DEPTH

CondToken == Ident \cup Literal \cup {"(", ")", "!", "&&", "||", "==", "!="}

ASSUME CondAssumption ==
    /\ MaxCondDepth \in Nat \ {0}
    /\ NoFlag \notin Flag

VARIABLES
    flags,           \* the compilation's flags, in their order
    active, done,    \* the filter's stack: the branch is kept; one was taken
    filtered,        \* its output
    fatal,           \* the message it aborted with, or ""
    groups           \* history: the conditions of each open #if, so far

cond == <<flags, active, done, filtered, fatal, groups>>

CondInit ==
    /\ active = <<TRUE>> /\ done = <<TRUE>>
    /\ filtered = <<>> /\ fatal = "" /\ groups = <<>>

-----------------------------------------------------------------------------
flag_lookup(name) ==
    IF \E k \in DOMAIN flags : flags[k].name = name
    THEN flags[CHOOSE k \in DOMAIN flags :
                  /\ flags[k].name = name
                  /\ \A l \in 1 .. k - 1 : flags[l].name # name]
    ELSE NoFlag

Bad == [ok |-> FALSE, value |-> FALSE, pos |-> 0]
Read(value, pos) == [ok |-> TRUE, value |-> value, pos |-> pos]

(* The token at a position of the directive's line, "" at its end.           *)
TokenAt(toks, pos) == IF pos \in DOMAIN toks THEN toks[pos] ELSE ""

Presence(name) == flag_lookup(name) # NoFlag

(* An unset flag is different from nothing.                                  *)
FaultyEquality(name, op, literal) ==
    Presence(name) /\ ((flag_lookup(name).value = literal) = (op = "=="))

(* Unset and bare flags equal no literal.                                    *)
Equality(name, op, literal) ==
    LET equal == Presence(name) /\ flag_lookup(name).value = literal
    IN  equal = (op = "==")

(* The recursive descent over one line.  A rule at a position, with the value *)
(* of the operands already read for the two rules that loop over theirs.     *)
Rule == {"or", "or loop", "and", "and loop", "unary", "primary"}

Descend(toks) ==
    LET eval[rule \in Rule, pos \in 1 .. Len(toks) + 1, left \in BOOLEAN] ==
          LET tok == TokenAt(toks, pos)
              From(sub, loop) ==
                LET r == eval[sub, pos, FALSE]
                IN  IF r.ok THEN eval[loop, r.pos, r.value] ELSE Bad
              Loop(op, sub, Combine(_, _)) ==
                IF tok # op THEN Read(left, pos)
                ELSE LET r == eval[sub, pos + 1, FALSE]
                     IN  IF r.ok THEN eval[rule, r.pos, Combine(left, r.value)] ELSE Bad
          IN  CASE rule = "or" -> From("and", "or loop")
                [] rule = "or loop" -> Loop("||", "and", LAMBDA a, b : a \/ b)
                [] rule = "and" -> From("unary", "and loop")
                [] rule = "and loop" -> Loop("&&", "unary", LAMBDA a, b : a /\ b)
                [] rule = "unary" /\ tok = "!" ->
                     LET r == eval["unary", pos + 1, FALSE]
                     IN  IF r.ok THEN Read(~r.value, r.pos) ELSE Bad
                [] rule = "unary" /\ tok # "!" -> eval["primary", pos, FALSE]
                [] rule = "primary" /\ tok = "(" ->
                     LET r == eval["or", pos + 1, FALSE]
                     IN  IF r.ok /\ TokenAt(toks, r.pos) = ")" THEN Read(r.value, r.pos + 1)
                         ELSE Bad
                [] rule = "primary" /\ tok \in Ident ->
                     LET op == TokenAt(toks, pos + 1)
                     IN  IF op \notin {"==", "!="} THEN Read(Presence(tok), pos + 1)
                         ELSE IF TokenAt(toks, pos + 2) \notin Literal THEN Bad
                         ELSE Read(Equality(tok, op, toks[pos + 2]), pos + 3)
                [] OTHER -> Bad
    IN  eval["or", 1, FALSE]

(* The whole line is the expression.                                         *)
eval_cond_expr(toks) ==
    LET r == Descend(toks)
    IN  [ok |-> r.ok /\ r.pos = Len(toks) + 1, value |-> r.value = TRUE]

-----------------------------------------------------------------------------
(* filter_conditionals, one line at a time                                   *)

Depth == Len(active) - 1
SetLast(s, v) == [s EXCEPT ![Len(s)] = v]
AllButLast(s) == SubSeq(s, 1, Len(s) - 1)

Abort(message) == fatal' = message /\ UNCHANGED <<flags, active, done, filtered, groups>>
Proceed == UNCHANGED <<flags, filtered, fatal>>

(* Off by one: an #if directly inside another is taken for an outermost one.   *)
FaultyParentActive == IF Depth > 2 THEN active[Len(active) - 1] ELSE TRUE

ParentActive == IF Depth >= 2 THEN active[Len(active) - 1] ELSE TRUE

HashIf(line) ==
    /\ line.directive = "if"
    /\ \E c \in {eval_cond_expr(line.cond)} :
         IF line.col # 1 THEN Abort("column")
         ELSE IF Depth + 1 >= MaxCondDepth THEN Abort("too many nested")
         ELSE IF ~c.ok THEN Abort("expression")
         ELSE /\ active' = Append(active, active[Len(active)] /\ c.value)
              /\ done' = Append(done, c.value)
              /\ groups' = Append(groups, <<c.value>>) /\ Proceed

HashElseIf(line) ==
    /\ line.directive = "else if"
    /\ \E c \in {eval_cond_expr(line.cond)} :
         IF line.col # 1 THEN Abort("column")
         ELSE IF Depth = 0 THEN Abort("without matching #if")
         ELSE IF ~c.ok THEN Abort("expression")
         ELSE /\ active' = SetLast(active, ParentActive /\ ~done[Len(done)] /\ c.value)
              /\ done' = SetLast(done, done[Len(done)] \/ c.value)
              /\ groups' = SetLast(groups, Append(groups[Len(groups)], c.value)) /\ Proceed

HashElse(line) ==
    /\ line.directive = "else"
    /\ IF line.col # 1 THEN Abort("column")
       ELSE IF Depth = 0 THEN Abort("without matching #if")
       ELSE /\ active' = SetLast(active, ParentActive /\ ~done[Len(done)])
            /\ done' = SetLast(done, TRUE)
            /\ groups' = SetLast(groups, Append(groups[Len(groups)], TRUE)) /\ Proceed

HashEnd(line) ==
    /\ line.directive = "end"
    /\ IF line.col # 1 THEN Abort("column")
       ELSE IF Depth = 0 THEN Abort("without matching #if")
       ELSE /\ active' = AllButLast(active) /\ done' = AllButLast(done)
            /\ groups' = AllButLast(groups) /\ Proceed

TextLine(line) ==
    /\ line.directive = "none"
    /\ filtered' = IF active[Len(active)] THEN Append(filtered, line) ELSE filtered
    /\ UNCHANGED <<flags, active, done, fatal, groups>>

Filter(line) ==
    /\ fatal = ""
    /\ \/ HashIf(line) \/ HashElseIf(line) \/ HashElse(line) \/ HashEnd(line)
       \/ TextLine(line)

(* The loop has reached the end of the file.                                 *)
Unclosed == fatal = "" /\ Depth # 0 /\ Abort("unclosed #if")

-----------------------------------------------------------------------------
(* Every open #if is on the branch it selects: its condition is true and      *)
(* those before it are false.                                                *)
Selected(branches) ==
    /\ branches[Len(branches)]
    /\ \A k \in 1 .. Len(branches) - 1 : ~branches[k]

(* A line is kept exactly when every #if around it has selected its branch,   *)
(* and no branch after a selected one is; the stacks stay in their arrays.    *)
BranchSelected ==
    /\ Len(done) = Len(active) /\ Len(groups) = Depth /\ Len(active) <= MaxCondDepth
    /\ \A d \in 1 .. Len(groups) :
         /\ active[d + 1] <=> \A e \in 1 .. d : Selected(groups[e])
         /\ done[d + 1] <=> \E k \in DOMAIN groups[d] : groups[d][k]

(* What the grammar of the conditions gives each stretch of a line.          *)
Meaning(toks) ==
    LET n == Len(toks)
        M[nt \in {"or", "and", "unary", "primary"}, i \in 1 .. n, j \in 1 .. n] ==
          LET Chain(op, sub, Combine(_, _)) ==
                M[sub, i, j] \cup
                {Combine(v[2], v[3]) : v \in
                   UNION {{k} \X M[nt, i, k - 1] \X M[sub, k + 1, j] :
                            k \in {k \in i + 1 .. j - 1 : toks[k] = op}}}
          IN  CASE nt = "or" -> Chain("||", "and", LAMBDA a, b : a \/ b)
                [] nt = "and" -> Chain("&&", "unary", LAMBDA a, b : a /\ b)
                [] nt = "unary" ->
                     M["primary", i, j] \cup
                     IF toks[i] = "!" /\ i < j THEN {~v : v \in M["unary", i + 1, j]} ELSE {}
                [] nt = "primary" ->
                     IF i = j THEN IF toks[i] \in Ident THEN {Presence(toks[i])} ELSE {}
                     ELSE IF j = i + 2 /\ toks[i] \in Ident /\ toks[i + 1] \in {"==", "!="}
                             /\ toks[j] \in Literal
                     THEN {(\E k \in DOMAIN flags :
                              flags[k] = [name |-> toks[i], value |-> toks[j]])
                           = (toks[i + 1] = "==")}
                     ELSE IF i + 1 < j /\ toks[i] = "(" /\ toks[j] = ")"
                     THEN M["or", i + 1, j - 1] ELSE {}
    IN  IF n = 0 THEN {} ELSE M["or", 1, n]

(* The descent reads what the grammar says: it accepts the conditions the     *)
(* grammar derives, and each has one value, the one computed.                *)
ReadAsWritten(toks) ==
    \E c \in {eval_cond_expr(toks)} : Meaning(toks) = IF c.ok THEN {c.value} ELSE {}
=============================================================================
