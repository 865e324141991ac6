------------------------------ MODULE MCAnalyze ------------------------------
(* Small instances of Analyze: two contents that always lex, one that is a    *)
(* lexical error under one set of flags only (an #if ... #error).            *)
EXTENDS Analyze

LexErrors == {<<"guarded", "debug">>}
=============================================================================
