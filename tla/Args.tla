-------------------------------- MODULE Args --------------------------------
(* Response files and the command line (args.c, platform.c): args_expand       *)
(* splices @files, args_parse interprets the tokens.                           *)
(*                                                                             *)
(* A file is named by a directory and a base name; a relative name may first   *)
(* change the directory (Cd), an absolute one does so wherever it stands.      *)
(* Canon is realpath(): two names may be one file.  What a response file holds *)
(* is chosen when it is first read.                                            *)
EXTENDS Naturals, Sequences, FiniteSets

CONSTANTS
    Dir, Cwd,        \* directories, the one fcc runs in
    Sub, Cd,         \* how a name changes the directory: [Dir -> [Sub -> Dir]]
    Base,            \* names inside a directory
    Rsp,             \* response files that exist
    Canon,           \* [Dir \X Base -> Rsp \cup {Missing}]
    Missing,         \* no such file, or one that cannot be read
    Contents,        \* [Rsp -> what it may hold: sequences of tokens]
    CommandLines,    \* the arguments fcc may be called with
    Word,            \* the tokens that are not @file
    Equals,          \* the words with a "=": [name, value] on its two sides
    Glob(_, _),      \* the inputs a word in a response file of a directory names
    Host,            \* the flags detected on this machine
    None,            \* NULL: no directory, no value, no output, no error
    ArgsMaxDepth     \* ARGS_MAX_DEPTH

Option == {"-o", "--flag", "--len-repr", "--no-auto-detect", "--backtraces"}
TakesValue == {"-o", "--flag", "--len-repr"}
Dashed == {w \in Word : w \in Option \cup {"-unknown"}}
LenReprs == {"16", "32", "64"}

At(sub, base) == [kind |-> "@", sub |-> sub, base |-> base]
W(word) == [kind |-> "word", word |-> word]
Message == {"too deep", "cannot open", "recursive", "unterminated quote", "no value",
            "bad width", "empty name or value", "cannot expand input pattern",
            "unknown option", "no input file"}

OpenQuote == [kind |-> "quote"]   \* a quote that its line does not close
Token == [kind : {"@"}, sub : Sub, base : Base] \cup [kind : {"word"}, word : Word]
         \cup {OpenQuote}

ASSUME ArgsAssumption ==
    /\ ArgsMaxDepth \in Nat /\ Cwd \in Dir /\ Cd \in [Dir -> [Sub -> Dir]]
    /\ Canon \in [Dir \X Base -> Rsp \cup {Missing}] /\ Missing \notin Rsp
    /\ Contents \in [Rsp -> SUBSET Seq(Token)]
    /\ CommandLines \subseteq Seq(Token \ {OpenQuote})
    /\ \A d \in Dir, w \in Word : Glob(d, w) \in Seq([word : Word, dir : Dir])
    /\ Host \in Seq({Host[k] : k \in DOMAIN Host})
    /\ \A k, l \in DOMAIN Host : Host[k].name = Host[l].name => k = l
    /\ None \notin Seq(Token) /\ None \notin Dir \cup Message

VARIABLES
    argv, arg,       \* the arguments, and the one to be spliced next
    stack,           \* expand_file's activations: [path, rest]
    disk,            \* [Rsp -> its tokens, None before it is read]
    tokens,          \* ExpandedArgs: [word, dir], dir = None as typed
    error,           \* the message, or None
    at,              \* args_parse's i, 0 until it runs
    ca               \* CompileArgs

args == <<argv, arg, stack, disk, tokens, error, at, ca>>

NoArgs == [flags |-> <<>>, output |-> None, inputs |-> <<>>, len_repr |-> "64",
           backtraces |-> FALSE]

ArgsInit ==
    /\ argv \in CommandLines /\ arg = 1
    /\ stack = <<>> /\ disk = [f \in Rsp |-> None] /\ tokens = <<>>
    /\ error = None /\ at = 0 /\ ca = NoArgs

-----------------------------------------------------------------------------
(* args_expand                                                               *)

Expanding == error = None /\ at = 0 /\ (stack # <<>> \/ arg <= Len(argv))

(* A failed expansion leaves no tokens.                                      *)
Reject(message) ==
    /\ error' = message /\ tokens' = <<>> /\ stack' = <<>>
    /\ UNCHANGED <<argv, arg, disk, at, ca>>

(* Relative to the file the expansion began with.                            *)
FaultyEmit(word, dir) ==
    tokens' = Append(tokens, [word |-> word, dir |-> IF stack = <<>> THEN dir
                                                     ELSE stack[1].path[1]])

Emit(word, dir) == tokens' = Append(tokens, [word |-> word, dir |-> dir])

(* A file read before is taken for one still being read.                     *)
FaultyActive(path) == Canon[path] \in Rsp /\ disk[Canon[path]] # None

(* The file is being expanded, under whatever name.                          *)
Active(path) == \E k \in DOMAIN stack : Canon[stack[k].path] = Canon[path]

(* expand_file up to the push: under is the stack of its callers and to the    *)
(* next argument, once the token that names the file is consumed.            *)
Open(path, under, to) ==
    IF Len(stack) > ArgsMaxDepth THEN Reject("too deep")
    ELSE IF Canon[path] = Missing THEN Reject("cannot open")
    ELSE IF Active(path) THEN Reject("recursive")
    ELSE \E held \in IF disk[Canon[path]] # None THEN {disk[Canon[path]]}
                     ELSE Contents[Canon[path]] :
           /\ disk' = [disk EXCEPT ![Canon[path]] = held]
           /\ stack' = Append(under, [path |-> path, rest |-> held])
           /\ arg' = to /\ UNCHANGED <<argv, tokens, error, at, ca>>

(* Relative to the directory the token's file was named in.                  *)
Named(dir, tok) == <<Cd[dir][tok.sub], tok.base>>

NextArg ==
    /\ Expanding /\ stack = <<>>
    /\ \E tok \in {argv[arg]} :
         IF tok.kind = "@"
         THEN Open(Named(Cwd, tok), <<>>, arg + 1)
         ELSE /\ Emit(tok.word, None) /\ arg' = arg + 1
              /\ UNCHANGED <<argv, stack, disk, error, at, ca>>

Top == stack[Len(stack)]
TopDir == Top.path[1]
Consumed == [stack EXCEPT ![Len(stack)].rest = Tail(@)]

NextToken ==
    /\ Expanding /\ stack # <<>> /\ Top.rest # <<>>
    /\ \E tok \in {Top.rest[1]} :
         CASE tok.kind = "quote" -> Reject("unterminated quote")
           [] tok.kind = "@" -> Open(Named(TopDir, tok), Consumed, arg)
           [] OTHER ->
                /\ Emit(tok.word, TopDir) /\ stack' = Consumed
                /\ UNCHANGED <<argv, arg, disk, error, at, ca>>

EndOfFile ==
    /\ Expanding /\ stack # <<>> /\ Top.rest = <<>>
    /\ stack' = SubSeq(stack, 1, Len(stack) - 1)
    /\ UNCHANGED <<argv, arg, disk, tokens, error, at, ca>>

-----------------------------------------------------------------------------
(* args_parse                                                                *)

(* platform_detect_flags, unless the word stands anywhere.                   *)
Detected ==
    IF \E i \in DOMAIN tokens : tokens[i].word = "--no-auto-detect" THEN <<>> ELSE Host

args_parse ==
    /\ error = None /\ at = 0 /\ stack = <<>> /\ arg > Len(argv)
    /\ at' = 1 /\ ca' = [NoArgs EXCEPT !.flags = Detected]
    /\ UNCHANGED <<argv, arg, stack, disk, tokens, error>>

Parsing == error = None /\ at \in DOMAIN tokens
Given == tokens[at].word
Value == tokens[at + 1]

Fail(message) ==
    /\ error' = message
    /\ UNCHANGED <<argv, arg, stack, disk, tokens, at, ca>>

Accept(new, width) ==
    /\ ca' = new /\ at' = at + width
    /\ UNCHANGED <<argv, arg, stack, disk, tokens, error>>

MissingValue == Parsing /\ Given \in TakesValue /\ at = Len(tokens) /\ Fail("no value")
HasValue(option) == Parsing /\ Given = option /\ at < Len(tokens)

OutputOption == HasValue("-o") /\ Accept([ca EXCEPT !.output = Value], 2)

LenRepr ==
    /\ HasValue("--len-repr")
    /\ IF Value.word \in LenReprs THEN Accept([ca EXCEPT !.len_repr = Value.word], 2)
       ELSE Fail("bad width")

FlagOf(word) ==
    IF word \in DOMAIN Equals THEN Equals[word] ELSE [name |-> word, value |-> None]

(* A host flag set again goes behind the first.                              *)
FaultySetFlag(flags, f) ==
    IF \E k \in DOMAIN flags : flags[k].name = f.name /\ flags[k] \notin {Host[i] : i \in DOMAIN Host}
    THEN LET k == CHOOSE k \in DOMAIN flags : flags[k].name = f.name
         IN  [flags EXCEPT ![k] = f]
    ELSE Append(flags, f)

(* Replaced in place by name, else appended.                                 *)
SetFlag(flags, f) ==
    IF \E k \in DOMAIN flags : flags[k].name = f.name
    THEN LET k == CHOOSE k \in DOMAIN flags :
                     /\ flags[k].name = f.name
                     /\ \A l \in 1 .. k - 1 : flags[l].name # f.name
         IN  [flags EXCEPT ![k] = f]
    ELSE Append(flags, f)

FlagOption ==
    /\ HasValue("--flag")
    /\ LET f == FlagOf(Value.word)
       IN  IF f.name = "" \/ f.value = "" THEN Fail("empty name or value")
           ELSE Accept([ca EXCEPT !.flags = SetFlag(@, f)], 2)

NoAutoDetect == Parsing /\ Given = "--no-auto-detect" /\ Accept(ca, 1)
Backtraces == Parsing /\ Given = "--backtraces" /\ Accept([ca EXCEPT !.backtraces = TRUE], 1)

(* As typed, or the matches of its pattern beside its response file.         *)
Inputs(tok) ==
    IF tok.dir = None THEN <<[word |-> tok.word, dir |-> Cwd]>> ELSE Glob(tok.dir, tok.word)

Positional ==
    /\ Parsing /\ Given \notin Dashed
    /\ \/ Accept([ca EXCEPT !.inputs = @ \o Inputs(tokens[at])], 1)
       \/ tokens[at].dir # None /\ Fail("cannot expand input pattern")

UnknownOption == Parsing /\ Given \in Dashed \ Option /\ Fail("unknown option")

NoInput ==
    /\ error = None /\ at > Len(tokens) /\ ca.inputs = <<>>
    /\ Fail("no input file")

ArgsStep ==
    \/ NextArg \/ NextToken \/ EndOfFile \/ args_parse \/ MissingValue \/ OutputOption
    \/ LenRepr \/ FlagOption \/ NoAutoDetect \/ Backtraces \/ Positional
    \/ UnknownOption \/ NoInput

(* CompileArgs is the caller's.                                              *)
Parsed == error = None /\ at > Len(tokens) /\ ca.inputs # <<>>

-----------------------------------------------------------------------------
(* expand_file never descends into a file that is still being expanded,      *)
(* however it is spelled, and the stack keeps within ARGS_MAX_DEPTH: what    *)
(* keeps the recursion from being endless.                                   *)
NoFileOpenTwice ==
    /\ Len(stack) <= ArgsMaxDepth + 1
    /\ \A k, l \in DOMAIN stack : Canon[stack[k].path] = Canon[stack[l].path] => k = l

(* What a token stands for in dir: itself, or what below says of the file it   *)
(* mentions.  Missing: the file cannot be read, or the quote is open.         *)
StandsFor(tok, dir, typed, files, below) ==
    LET path == Named(dir, tok)
    IN  IF tok.kind = "word" THEN <<[word |-> tok.word, dir |-> IF typed THEN None ELSE dir]>>
        ELSE IF tok.kind = "@" /\ Canon[path] # Missing /\ files[Canon[path]] # None
        THEN below[<<files[Canon[path]], path[1], FALSE>>]
        ELSE <<Missing>>

(* What the first i tokens of a list stand for.                               *)
UpToToken(list, dir, typed, files, below) ==
    LET upTo[i \in 0 .. Len(list)] ==
          IF i = 0 THEN <<>>
          ELSE upTo[i - 1] \o StandsFor(list[i], dir, typed, files, below)
    IN  upTo

(* What a list stands for in a directory, typed or not, given the files, to a *)
(* depth of n lists.                                                         *)
Flat(files) ==
    LET flat[n \in 0 .. ArgsMaxDepth + 2] ==
          [l \in Seq(Token) \X Dir \X BOOLEAN |->
             IF n = 0 THEN <<Missing>>
             ELSE UpToToken(l[1], l[2], l[3], files, flat[n - 1])[Len(l[1])]]
    IN  flat

(* The tokens are what the arguments stand for, each with the directory of    *)
(* the file it is in: spliced in place, however deep, a file mentioned twice  *)
(* spliced twice.                                                            *)
SplicedInPlace ==
    (error = None /\ at = 1) => tokens = Flat(disk)[ArgsMaxDepth + 2][<<argv, Cwd, TRUE>>]

(* expand_file refuses what it must and nothing else.  It never descends into  *)
(* a file that is being expanded, nor too deep; and it refuses only where      *)
(* there is nothing to splice: a mention of a file that cannot be read, or     *)
(* whose splicing would go on for ever or deeper than ARGS_MAX_DEPTH.  A file  *)
(* mentioned twice side by side is legal.  A file that was not read yet counts *)
(* as one that cannot be.                                                    *)
RefusedForCause ==
    /\ NoFileOpenTwice
    /\ error \in {"too deep", "cannot open", "recursive", "unterminated quote"} =>
         LET spliced == Flat(disk)[ArgsMaxDepth + 2][<<argv, Cwd, TRUE>>]
         IN  \E k \in DOMAIN spliced : spliced[k] = Missing

(* A token is an option, or the value of the option before it.               *)
Options(toks) ==
    LET is[i \in 1 .. Len(toks) + 1] == i = 1 \/ ~(is[i - 1] /\ toks[i - 1].word \in TakesValue)
    IN  is
IsOption(i) == Options(tokens)[i]

LastGiven(option, Is(_)) ==
    {i \in DOMAIN tokens :
       /\ IsOption(i) /\ tokens[i].word = option /\ Is(tokens[i + 1])
       /\ \A j \in i + 1 .. Len(tokens) :
            ~(IsOption(j) /\ tokens[j].word = option /\ Is(tokens[j + 1]))}

Entries(name) == {k \in DOMAIN ca.flags : ca.flags[k].name = name}

(* A flag has one entry: the last one given under its name, wherever it came  *)
(* from, and the host's only if none was given and detection not suppressed.  *)
(* The output is the last -o, beside the file the value, not the -o, is in.   *)
ParsedAsGiven == Parsed =>
    /\ \A name \in {FlagOf(w).name : w \in Word} \cup {Host[k].name : k \in DOMAIN Host} :
         LET given == LastGiven("--flag", LAMBDA value : FlagOf(value.word).name = name)
             suppressed == {i \in DOMAIN tokens : tokens[i].word = "--no-auto-detect"}
             host == {Host[k] : k \in {k \in DOMAIN Host : Host[k].name = name}}
         IN  IF given # {}
             THEN {ca.flags[k] : k \in Entries(name)} = {FlagOf(tokens[i + 1].word) : i \in given}
                  /\ Cardinality(Entries(name)) = 1
             ELSE /\ suppressed = {} => {ca.flags[k] : k \in Entries(name)} = host
                  /\ (\E i \in suppressed : IsOption(i)) => Entries(name) = {}
    /\ {ca.output} = LET any == LastGiven("-o", LAMBDA value : TRUE)
                     IN  IF any = {} THEN {None} ELSE {tokens[i + 1] : i \in any}
=============================================================================
