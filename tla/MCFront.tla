------------------------------- MODULE MCFront -------------------------------
(* Three response files in two directories, one of them also a link in the     *)
(* other; a flag the host sets and one it does not; files of directives, of    *)
(* conditions and of indented lines.                                          *)
EXTENDS Front, TLC

CONSTANTS MostLines, MostTokens, MostCondTokens

(* The directory fcc runs in and lib/ below it; A is ./a and lib/l.           *)
MCCd == [top |-> [here |-> "top", down |-> "lib", up |-> "top"],
         lib |-> [here |-> "lib", down |-> "lib", up |-> "top"]]
MCCanon == [n \in {"top", "lib"} \X {"a", "b", "c", "l"} |->
              CASE n = <<"top", "a">> -> "A"
                [] n = <<"lib", "l">> -> "A"
                [] n = <<"lib", "b">> -> "B"
                [] n = <<"lib", "c">> -> "C"
                [] OTHER -> Missing]

UpTo(S, n) == UNION {[1 .. k -> S] : k \in 0 .. n}
MCContents == [f \in {"A", "B", "C"} |->
    CASE f = "A" -> UpTo({At("down", "b"), At("here", "a"), W("-o"), W("x"), W("--flag")}, 2)
                        \cup {<<W("x"), OpenQuote>>}
      [] f = "B" -> UpTo({At("here", "l"), At("here", "c"), W("F=v"), W("--no-auto-detect")}, 2)
                        \cup {<<W("x"), W("--flag")>>, <<W("--flag"), W("os")>>}
      [] f = "C" -> UpTo({At("up", "a"), At("here", "b"), W("x")}, 1)]

MCCommandLines == {
    <<At("here", "a")>>,
    <<W("--flag"), At("down", "b"), W("x")>>,
    <<At("down", "b"), At("down", "l"), W("x"), W("-o")>>,
    <<W("--flag"), W("F"), At("here", "a"), W("F=v"), W("--len-repr"), W("16")>>,
    <<W("--no-auto-detect"), At("here", "a"), W("--flag"), W("F=v"), W("x"), W("--backtraces")>>,
    <<At("up", "c")>>,
    <<W("--len-repr"), At("down", "b"), W("x")>>,
    <<W("--flag"), W("F=")>>,
    <<W("-unknown")>>}

MCWord == Option \cup {"-unknown", "x", "os", "F", "F=v", "F=", "16"}
MCEquals == ("F=v" :> [name |-> "F", value |-> "v"]) @@ ("F=" :> [name |-> "F", value |-> ""])
MCGlob(dir, word) == IF dir = "lib" THEN <<[word |-> word, dir |-> dir], [word |-> word, dir |-> dir]>>
                     ELSE <<[word |-> word, dir |-> dir]>>
MCHost == <<[name |-> "os", value |-> "v"]>>

-----------------------------------------------------------------------------
MCIdent == {"os", "F"}
MCLiteral == {"v"}
MCFlag == [name : {"os", "F"}, value : {"v", None}]

Dir1(kind, toks) == [directive |-> kind, col |-> 1, cond |-> toks]
ShapeOf(col, pipe, last, decl, nest) ==
    [col |-> col, pipe |-> pipe, last |-> last, decl |-> decl, nest |-> nest]

Directives ==
    {Dir1(kind, toks) : kind \in {"if", "else if"}, toks \in {<<"F">>, <<"os", "!=", "v">>}}
    \cup {Dir1("else", <<>>), Dir1("end", <<>>), [Dir1("end", <<>>) EXCEPT !.col = 3]}
    \cup {Dir1("none", <<>>)}

Conditions == {Dir1("if", toks) : toks \in UpTo(CondToken, MostTokens)}

MCShape ==
    {ShapeOf(col, pipe, last, FALSE, 0) : col \in {1, 3}, pipe \in BOOLEAN,
                                          last \in {"with", "arrow", "other"}}
    \cup {ShapeOf(5, pipe, "other", FALSE, 0) : pipe \in BOOLEAN}
    \cup {ShapeOf(1, FALSE, "eq", decl, 0) : decl \in BOOLEAN}
    \cup {ShapeOf(1, FALSE, "other", FALSE, nest) : nest \in {-1, 1}}

MCText == {[lines |-> Directives, most |-> MostLines], [lines |-> Conditions, most |-> 1]}
MCLine == Directives \cup Conditions

(* The conditions of up to MostCondTokens tokens are read as the grammar says. *)
ConditionsRead ==
    phase = "filter" /\ read = 0 /\ text.most = 1 =>
        \A toks \in UpTo(CondToken, MostCondTokens) : ReadAsWritten(toks)
=============================================================================
