------------------------------- MODULE MCMatch -------------------------------
(* Eight subject types: options of a type variable, results, a union with and  *)
(* without payload, an enum, a struct, a tuple.  Each has patterns that        *)
(* together cover it, some only combined or under an or, and patterns that     *)
(* check_match_pattern rejects.                                               *)
EXTENDS Match, TLC

Bool == T("bool", <<>>)
Var == T("var", <<>>)
Pointer == T("pointer", <<>>)
Option(of) == T("option", <<of>>)

OptionVar == Option(Var)
Nested == Option(Option(Var))
ResultBool == T("result", <<Bool>>)
ResultVoid == T("result", <<T("void", <<>>)>>)
Pair == T("tuple", <<Bool, Option(Bool)>>)
Union == Named("union", "U")
Enum == Named("enum", "E")
Struct == T("struct", <<Bool, Option(Var)>>)
Three == T("tuple", <<Bool, Bool, Bool>>)

V(name, of) == [name |-> name, of |-> of]
MCVariants == [U |-> <<V("leaf", <<>>), V("node", <<Pair>>)>>,
               E |-> <<V("a", <<>>), V("b", <<>>), V("c", <<>>)>>]

MCSubject == {OptionVar, Nested, ResultBool, ResultVoid, Union, Enum, Struct, Three}
MCInst == {Bool, Pointer}

-----------------------------------------------------------------------------
Rest == P("wild", "", <<>>)
Bind(name) == P("bind", name, <<>>)
True == P("bool", "true", <<>>)
False == P("bool", "false", <<>>)
Code(i) == P("int", i, <<>>)
Absent == P("none", "", <<>>)
Some(p) == P("some", "", <<p>>)
Ok(p) == P("ok", "", <<p>>)
Err(p) == P("err", "", <<p>>)
Variant(name, p) == P("variant", name, <<p>>)
Tuple(ps) == P("tuple", "", ps)
Or(ps) == P("or", "", ps)
Fields(fs, ps) == [P("struct", "", ps) EXCEPT !.fields = fs]
Either == Or(<<True, False>>)

MCWritten == [s \in MCSubject |->
    CASE s = OptionVar -> {Rest, Some(Rest), Some(Bind("x")), Absent, Some(True), Or(<<Absent, Bind("x")>>)}
      [] s = Nested -> {Some(Absent), Some(Some(Bind("x"))), Some(Bind("x")), Absent,
                        Or(<<Some(Absent), Absent>>), Some(Or(<<Some(Rest), Absent>>))}
      [] s = ResultBool -> {Ok(True), Ok(Bind("x")), Err(Code("5")), Err(Bind("e")),
                            Or(<<Ok(False), Err(Rest)>>), Rest}
      [] s = ResultVoid -> {P("ok", "", <<>>), Err(Code("5")), Err(Bind("e")), Ok(Rest), Bind("x")}
      [] s = Union -> {Bind("leaf"), Bind("node"), Bind("x"), Variant("node", Tuple(<<True, Rest>>)),
                       Variant("node", Tuple(<<Bind("x"), Some(Either)>>)),
                       Or(<<Bind("leaf"), Variant("node", Tuple(<<Rest, Absent>>))>>),
                       Variant("leaf", Rest)}
      [] s = Enum -> {Bind("a"), Or(<<Bind("b"), Bind("c")>>), Bind("c"), Bind("x"), Variant("a", Rest),
                      Code("5")}
      [] s = Struct -> {Fields(<<1>>, <<True>>), Fields(<<1, 2>>, <<False, Some(Bind("x"))>>),
                        Fields(<<2>>, <<Absent>>), Fields(<<2, 1>>, <<Bind("x"), Bind("y")>>),
                        Fields(<<1, 2>>, <<Bind("x"), Bind("x")>>),
                        Fields(<<1, 1>>, <<True, Rest>>), Rest}
      [] s = Three -> {Tuple(<<Either, Either, Rest>>), Tuple(<<Either, Either, Either>>),
                       Tuple(<<Rest, Bind("x"), True>>), Tuple(<<Bind("x"), Rest, Or(<<False, False>>)>>),
                       Or(<<Tuple(<<True, Rest, False>>), Tuple(<<False, True, Rest>>)>>)}]
=============================================================================
