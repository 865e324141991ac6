------------------------------- MODULE Layout -------------------------------
(* The layout pass of lexer_tokenize (lexer.c): INDENT, DEDENT and NEWLINE out *)
(* of the columns lines start at.  The pass decides only where a line ends, so *)
(* a line is its column and what decides there: whether it starts with a "|",  *)
(* the kind of its last token, whether it holds a declaration keyword, and     *)
(* what it does to the depth of open brackets.                                 *)
EXTENDS Naturals, Integers, Sequences, FiniteSets

CONSTANT MaxIndent   \* MAX_INDENT

ASSUME LayoutAssumption == MaxIndent \in Nat \ {0}

VARIABLES
    indent_stack,    \* the open blocks: [col, is_match_block]
    saw_decl_keyword, last_kind, bracket_depth,
    laid,            \* the output: marks and lines
    misplaced        \* the message it aborted with, or ""

layout == <<indent_stack, saw_decl_keyword, last_kind, bracket_depth, laid, misplaced>>

LayoutInit ==
    /\ indent_stack = <<[col |-> 1, is_match_block |-> FALSE]>>
    /\ saw_decl_keyword = FALSE /\ last_kind = "eof" /\ bracket_depth = 0
    /\ laid = <<>> /\ misplaced = ""

Mark(kind) == [kind |-> kind]
Item(line) == [kind |-> "line", line |-> line]

is_always_block_former(kind) == kind \in {"arrow", "with"}

TopBlock(blocks) == blocks[Len(blocks)]

(* The blocks left after closing from the inside while Closes holds, as the   *)
(* one element of a set; the first block, the file, stays.                   *)
KeepFrom(blocks, Closes(_)) ==
    {SubSeq(blocks, 1, n) : n \in
       {n \in 1 .. Len(blocks) : /\ n = 1 \/ ~Closes(blocks[n])
                                 /\ \A m \in n + 1 .. Len(blocks) : Closes(blocks[m])}}

Peer(block, line) == line.col = block.col /\ line.pipe

CloseMatchBlocks(blocks, line) ==
    KeepFrom(blocks, LAMBDA b : b.is_match_block /\ line.col <= b.col /\ ~Peer(b, line))

CloseDeeper(blocks, line) == KeepFrom(blocks, LAMBDA b : line.col < b.col)

Former == is_always_block_former(last_kind) \/ (last_kind = "eq" /\ saw_decl_keyword)

(* The block former is followed by a line that starts a block.               *)
Opens(blocks, line) == Former /\ line.col > TopBlock(blocks).col

(* Wherever the first arm stands.                                            *)
FaultyOpensMatch(blocks, line) == last_kind = "with" /\ line.pipe

(* Arms in the column of the match itself.                                   *)
OpensMatch(blocks, line) == last_kind = "with" /\ Peer(TopBlock(blocks), line)

Dedents(before, after) == [k \in 1 .. Len(before) - Len(after) |-> Mark("DEDENT")]

(* The tokens of the line itself.                                            *)
Copy(line) ==
    /\ last_kind' = line.last
    /\ bracket_depth' = IF bracket_depth + line.nest < 0 THEN 0 ELSE bracket_depth + line.nest

Place(line, blocks, marks) ==
    /\ indent_stack' = blocks /\ laid' = laid \o marks \o <<Item(line)>>
    /\ saw_decl_keyword' = line.decl /\ misplaced' = "" /\ Copy(line)

Misplace(message) ==
    /\ misplaced' = message
    /\ UNCHANGED <<indent_stack, saw_decl_keyword, last_kind, bracket_depth, laid>>

NewBlock(line, open, is_match, marks) ==
    IF Len(open) >= MaxIndent THEN Misplace("indentation too deep")
    ELSE Place(line, Append(open, [col |-> line.col, is_match_block |-> is_match]),
               Append(marks, Mark("INDENT")))

(* Nothing ends before the first line; brackets suspend the rule.            *)
NoBreak(line) ==
    /\ laid = <<>> \/ bracket_depth > 0
    /\ indent_stack' = indent_stack /\ laid' = Append(laid, Item(line))
    /\ saw_decl_keyword' = (saw_decl_keyword \/ line.decl) /\ misplaced' = "" /\ Copy(line)

LineBreak(line) ==
    /\ laid # <<>> /\ bracket_depth = 0
    /\ \E open \in CloseMatchBlocks(indent_stack, line) :
       \E marks \in {Dedents(indent_stack, open)} :
         LET top == TopBlock(open).col
         IN  IF Opens(open, line) THEN NewBlock(line, open, FALSE, marks)
             ELSE IF OpensMatch(open, line) THEN NewBlock(line, open, TRUE, marks)
             ELSE IF line.col = top THEN Place(line, open, Append(marks, Mark("NEWLINE")))
             ELSE IF line.col > top THEN Place(line, open, marks)
             ELSE \E inside \in CloseDeeper(open, line) :
                  \E left \in CloseMatchBlocks(inside, line) :
                    IF line.col # TopBlock(left).col THEN Misplace("inconsistent indentation")
                    ELSE Place(line, left,
                               Append(Dedents(indent_stack, left), Mark("NEWLINE")))

Lay(line) == misplaced = "" /\ (NoBreak(line) \/ LineBreak(line))

(* The blocks still open end with the file.                                  *)
EndOfText ==
    /\ misplaced = "" /\ indent_stack' = SubSeq(indent_stack, 1, 1)
    /\ laid' = laid \o Dedents(indent_stack, indent_stack') \o <<Mark("EOF")>>
    /\ UNCHANGED <<saw_decl_keyword, last_kind, bracket_depth, misplaced>>

-----------------------------------------------------------------------------
(* Blocks nest to the right; only the arms of a match share a column.         *)
NestedColumns ==
    /\ Len(indent_stack) \in 1 .. MaxIndent
    /\ indent_stack[1] = [col |-> 1, is_match_block |-> FALSE]
    /\ \A k \in 2 .. Len(indent_stack) :
         \/ indent_stack[k - 1].col < indent_stack[k].col
         \/ indent_stack[k].is_match_block /\ indent_stack[k - 1].col = indent_stack[k].col

(* What the output alone says: how deep a token is, which lines begin an     *)
(* item of a block, and which of them share one.                             *)
Blocks(p) ==
    Cardinality({q \in 1 .. p : laid[q].kind = "INDENT"})
      - Cardinality({q \in 1 .. p : laid[q].kind = "DEDENT"})
IsLine(p) == laid[p].kind = "line"
Starts(p) == IsLine(p) /\ (p = 1 \/ ~IsLine(p - 1))
Opened(p) == p > 1 /\ laid[p - 1].kind = "INDENT"
Siblings(p, q) ==
    p < q /\ Blocks(p) = Blocks(q) /\ \A r \in p .. q : Blocks(r) >= Blocks(p)

(* The arms of a match in its own column are the lines that start with "|";   *)
(* the first that does not is outside.                                       *)
ArmsEndWithTheMatch ==
    \A k \in 2 .. Len(indent_stack) :
       LET start == CHOOSE p \in DOMAIN laid :
                      /\ Opened(p) /\ Blocks(p) = k - 1
                      /\ \A r \in p .. Len(laid) : Blocks(r) >= k - 1
       IN  indent_stack[k].is_match_block =>
             \A p \in start .. Len(laid) :
                (Starts(p) /\ Blocks(p) = k - 1) => laid[p].line.pipe

(* The offside rule: the items of a block start in one column, the block's;   *)
(* a block inside an item is to its right, or holds the arms of a match,      *)
(* which end with the first line that is no arm.  The first line of a file is *)
(* exempt: it starts anywhere (process_layout, close_match_blocks).          *)
OffsideRule ==
    LET starts == {p \in DOMAIN laid : Starts(p)}
    IN  /\ \A p, q \in starts :
             Siblings(p, q) => laid[q].line.col = IF p = 1 THEN 1 ELSE laid[p].line.col
        /\ \A p, q \in starts :
             (p # 1 /\ p < q /\ Opened(q) /\ Blocks(p) = Blocks(q) - 1
                /\ \A r \in p .. q - 2 : Blocks(r) >= Blocks(p))
             => \/ laid[p].line.col < laid[q].line.col
                \/ laid[p].line.col = laid[q].line.col /\ laid[q].line.pipe
        /\ \A p \in DOMAIN laid : Blocks(p) >= 0
        /\ ArmsEndWithTheMatch
=============================================================================
