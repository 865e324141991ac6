-------------------------------- MODULE Front --------------------------------
(* fcc up to the parser, for one input: main expands and interprets its        *)
(* arguments, lexes the file and runs lexer_tokenize's two passes over it,     *)
(* the #if filter under the flags of the command line, then the layout.        *)
(* The filter does not look inside a text line, so its shape is chosen when    *)
(* the layout comes to it.                                                     *)
EXTENDS Args, Conditionals, Layout

CONSTANTS
    Text,            \* the kinds of file: [lines, most], which lines and how many
    Shape,           \* what the layout sees of a text line, see Layout
    MostShapes       \* how many text lines a file is laid out for

ASSUME FrontAssumption ==
    /\ \A t \in Text : t.lines \subseteq Line /\ t.most \in Nat
    /\ Shape \subseteq [col : Nat \ {0}, pipe : BOOLEAN, decl : BOOLEAN, nest : Int,
                        last : {"with", "arrow", "eq", "other"}]

VARIABLES
    phase,           \* "args", "filter", "layout", "parse", or "failed"
    text,            \* the kind of the file
    read,            \* how many of its lines the filter has read
    left             \* the lines still to be laid out

front == <<phase, text, read, left>>
vars == <<args, cond, layout, front>>

Init ==
    /\ ArgsInit /\ CondInit /\ LayoutInit
    /\ flags = <<>>
    /\ phase = "args" /\ text = None /\ read = 0 /\ left = <<>>

ReadArgs == phase = "args" /\ ArgsStep /\ UNCHANGED <<cond, layout, front>>

(* The input is read.  Nothing after this looks at the arguments but for the  *)
(* flags.                                                                    *)
Lex ==
    /\ phase = "args" /\ Parsed
    /\ phase' = "filter" /\ flags' = ca.flags /\ text' \in Text
    /\ argv' = <<>> /\ arg' = 1 /\ tokens' = <<>> /\ at' = 0 /\ ca' = NoArgs
    /\ disk' = [f \in Rsp |-> None]
    /\ UNCHANGED <<stack, error, active, done, filtered, fatal, groups, layout, read, left>>

FilterLine ==
    /\ phase = "filter" /\ read < text.most
    /\ \E line \in text.lines :
         (line.directive = "none" => Len(filtered) < MostShapes) /\ Filter(line)
    /\ read' = read + 1
    /\ UNCHANGED <<args, layout, phase, text, left>>

(* Nothing but the filter looks at the flags.                                *)
EndFilter ==
    /\ phase = "filter" /\ fatal = ""
    /\ \/ Unclosed /\ UNCHANGED <<phase, left>>
       \/ /\ Depth = 0 /\ phase' = "layout"
          /\ left' = filtered /\ filtered' = <<>> /\ flags' = <<>>
          /\ UNCHANGED <<active, done, fatal, groups>>
    /\ UNCHANGED <<args, layout, text, read>>

LayLine ==
    /\ phase = "layout" /\ left # <<>>
    /\ \E line \in Shape : Lay(line)
    /\ left' = Tail(left)
    /\ UNCHANGED <<args, cond, phase, text, read>>

EndLayout ==
    /\ phase = "layout" /\ left = <<>> /\ EndOfText
    /\ phase' = "parse"
    /\ UNCHANGED <<args, cond, text, read, left>>

(* diag_fatal, and main's exits on arguments it cannot use.                   *)
Stop ==
    /\ \/ phase = "args" /\ error # None
       \/ phase = "filter" /\ fatal # ""
       \/ phase = "layout" /\ misplaced # ""
    /\ phase' = "failed"
    /\ UNCHANGED <<args, cond, layout, text, read, left>>

(* The parser goes on, or fcc has exited.                                     *)
Done == phase \in {"parse", "failed"} /\ UNCHANGED vars

Next == ReadArgs \/ Lex \/ FilterLine \/ EndFilter \/ LayLine \/ EndLayout \/ Stop \/ Done

Spec == Init /\ [][Next]_vars

=============================================================================
