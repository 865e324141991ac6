# A TLA+ development of the FC compiler

`fcc` compiles FC, a systems language, to one C file. The same binary is also
the language server (`fcc --lsp`), which runs the front end on every edit. This
directory models the language server, the analyses it runs, the way from the
command line to laid-out tokens, names and types, escape analysis, matches, the
arithmetic and the control flow the compiler accepts and emits,
monomorphization, the C types, and the driver that turns the passes into files.
Each is written as TLA+ modules translated from the C source, checked with TLC
on small instances, and, for the properties that matter most, proved with TLAPS
for all of them.

Source references are to the repository; `lsp.c` means `src/src/lsp.c`.

## 1. The system

```
args -> lexer -> parser -> pass1 -> pass2 -> mono discovery -> mono finalize -> codegen
           `------- analyze() in the language server ------'
```

One process, one thread. What makes it hard is not parallelism but *time*: the
server meets files, buffers, response files and messages that change between
two of its looks at them; the passes share global tables and error state that
must not leak from one analysis or one build into the next; and the fixpoint
loops of monomorphization walk a table that grows under them.

| Part | State it keeps | Operations | Interacts with | What is hard | What makes it correct |
|---|---|---|---|---|---|
| Language server (`lsp.c`) | open documents, units with their last analyses, `pub_uris`, `shutdown_requested`, the stdlib read at startup | `didOpen`, `didChange`, `didClose`, requests, `shutdown`, `exit`; `flush_dirty`, `publish_project_diagnostics`, `unit_prune` | the editor (messages, squiggles), the disk and `lsp.rsp` files, `analyze()` | deferred work coalesced over a burst; one file under several spellings and in several units; files changing behind the server; closing | every edit is analyzed, in every unit that merges it; answers come from current buffers; nothing on screen is orphaned; units live as long as their documents |
| Analysis (`analyze.c`) | the diagnostics and tokens of this analysis; the session's cache of tokens | `analyze`, `lex_feed_cached` | `diag.c`, lexer, parser, passes; called by the server | a fatal error `longjmp`s out of any depth; cached tokens under changing texts and flags | each analysis starts afresh; the parser gets the tokens of the current text; an untyped analysis says why |
| Error reporting (`diag.c`) | error count, held errors, depth of speculation | `diag_error`, `diag_fatal`, `diag_speculate_begin/end`, `diag_reset_counts` | the parser's backtracking | nested verdicts over one shared buffer | an abandoned reading reports nothing, a confirmed one everything |
| Monomorphization (`monomorph.c`) | the instance table, the const evaluator's error slot | `mono_register`, `mono_discover_transitive`, `mono_finalize_types`, the dangling-instance backstop | pass2 before it, codegen after it | infinite families; fixpoints over a growing table; errors that stop the growth | the table handed to codegen is closed; a program is refused only for a reason; the loops end |
| Driver (`main.c`) | the output file and its `.errcodes` map on disk | the passes' gates, emission, the map | everything above; the file system; earlier builds | interrupted and failing builds; two files that must agree | exit status 0 means a whole C file with its own map |
| Arguments (`args.c`) | the token list, the stack of response files being expanded | `args_expand`, `args_parse` | driver, server | cyclic and deeply nested response files; relative paths; flags overriding | tokens in order, relative to their file; no endless expansion |
| Lexer (`lexer.c`, `token.c`) | layout stack, conditional stack | `raw_tokenize`, `filter_conditionals`, `lexer_tokenize` | flags; parser | nesting of `#if`; offside rule with same-level match blocks | balanced blocks; exactly the chosen branches |
| Parser (`parser.c`) | position, set of generic names | `parse_files` | diag, tokens | recovery and backtracking | progress; an error node only with an error reported |
| pass1 (`pass1.c`) | symbol tables, import tables, error codes | `pass1_collect` | pass2, driver's map | any declaration order; emitted-name collisions | each name resolved once, no two declarations under one C name |
| pass2 (`pass2.c`, `facts.c`) | scopes, types on the tree, provenance | `pass2_check` | mono table; const evaluator | provenance through loops, closures and fields; exhaustiveness; types of branches that end in transfers | no pointer to a dead frame escapes; matches are exhaustive |
| Types (`types.c`) | the const evaluator's error slot | equality, substitution, folding, mangling | pass2, mono, codegen | two evaluators and the emitted C must agree; injective names | one meaning for a constant expression |
| Code generator (`codegen.c`) | substitution context, helper needs, the output | `codegen_emit` | driver | definition order; evaluation order | C that means what the checker judged |
| AST (`ast.c`), arena and strings (`common.c`), JSON (`json.c`), `platform.c`, `version.c` | - | visitors, allocation, text formats, host detection | all | - | - |
| Standard library, spec, tests, demos, editor plugins | - | - | - | - | not part of the compiler |

## 2. Modules

| Module | What it is |
|---|---|
| `LspUnits` | Functions of the disk, the response files and the open documents: canonical paths, unit keys, which sources one analysis merges, what an analysis of a unit leaves (`analyze_unit`). |
| `LspServer` | The server's state machine: message loop, handlers, flush, publish; around it an editor that sends anything and a disk that others write to. |
| `DiagContract` | What `diag.h` promises, as nested buffers. |
| `Analyze` | `diag.c` and `analyze.c`: one analysis after another, over the shared buffer of held errors and the token cache. Implements `DiagContract`. |
| `MonoClosure` | What monomorphization promises: the smallest closed table, or a refusal. |
| `Mono` | `monomorph.c` one `mono_register` or loop step at a time, with main's gates. Implements `MonoClosure`. Instances are opaque. |
| `MonoTypes` | Types, substitution and const arguments of one-parameter templates, to give `Mono` real programs. |
| `Build` | `main.c`: invocation after invocation onto one output path. |
| `Args` | `args.c`: response files spliced by a stack machine, then options interpreted token by token. |
| `Conditionals` | `lexer.c`: the evaluator of `#if` conditions and `filter_conditionals`, line by line. |
| `Layout` | `lexer.c`: the layout pass of `lexer_tokenize`, line by line. |
| `Front` | The three in the order `main` and `lexer_tokenize` run them: the flags of the command line select the lines that are laid out. |
| `Patterns` | `pass2.c`: checking and rewriting a pattern, flattening or-patterns, the exhaustiveness check by matrices; patterns against values. |
| `Match` | A match from its arms through `check_match` to the run of what `codegen.c` emits for it. |
| `Escape` | `pass2.c`'s tags for what a value points into, and a run of the accepted function on a memory of frames and heap objects. |
| `Names` | `pass1.c`'s four sweeps over the merged files and `pass2.c`'s lookups, with globals checked on demand. |
| `NamesMeaning` | What names mean, said without tables or passes; the reference for `Names`. |
| `CInt` | C integers: promotion, conversions, overflow, shifts. |
| `Numeric` | Numeric types, literals, casts and constant folding (`pass2.c`, `types.c`, `facts.c`). |
| `Emit` | The C emitted for scalar expressions and slices. |
| `Interp` | Interpolated segments: specs, reserved bytes, printed bytes. |
| `Evaluate` | Expressions built operation by operation, evaluated by the language's rules, by the emitted C and by the compiler. |
| `Tree` | Function bodies as the parser hands them over. |
| `Language` | What a body means: its effects in order, its end, its value. |
| `Flow` | What `pass2.c` says of a body: types of branches and transfers, the type of a recursive function. |
| `Lower`, `Emitted` | The C that `codegen.c` writes for a body; when that compiles and what it does. |
| `TypeDefs` | C typedefs, struct definitions and equality functions: collected, ordered, emitted. |
| `LspServerProofs`, `AnalyzeProofs`, `MonoProofs`, `BuildProofs`, `FrontProofs`, `NamesProofs`, `EscapeProofs` | Theorems about the module named. |
| `LspUnitsProofs` | More about `LspServer`: what the server answers from is current; the rule for stale units and the publishing, while nobody else writes to the disk. |
| `MCLsp`, `MCAnalyze`, `MCMono`, `MCFront`, `MCMatch`, `MCEscape`, `MCNames`, `MCEvaluate`, `MCFlow`, `MCTypeDefs` | Values of the constants for TLC; the last two also build the programs their properties are about. |

Definitions keep the names of the functions they stand for. A definition named
`Faulty...` is a seeded fault: the neighbouring definition as a plausible bug
would have it. No specification uses one; substituted for its neighbour it
breaks a property, which shows that the property has a grip on the code.

### LspUnits and LspServer

A path is a spelling; `Target` says what `realpath` makes of it. Documents,
units and diagnostics are sets of records; a document carries its index in the
store, because `didClose` moves the last document into the gap and
`primary_doc_for` takes the first. A text is a value, the front end an operator
(`SemErrors`) from merged texts to errors, with a set of texts (`LexFails`)
that abort the lexer.

An action is a whole iteration of `lsp_main`'s loop up to the next point where
another program can be seen to act: `Read` is one message with all its handler
does (`dispatch`), `Poll` the `input_pending` check with the flush it may run.
The pipe (`inbox`), the disk and the response files change between those steps
and not inside them: a flush reads each file once or twice, and `Analyze`
covers what two reads of one file can do. URIs are identified with paths. The
empty publishes of steps 3 and 4 of `publish_project_diagnostics` are the `{}`
in `Notify`; where two spellings of a file are published under one URI, the
order of the notifications is left open.

Queries are modelled by what they are answered from (`query_result`), not by
the answer.

### DiagContract and Analyze

`g_held` is a sequence, `marks` the `held` locals of the speculations on the
parser's stack. The parser may raise an error, begin or decide a speculation
at any point, in the file it is at; the passes may raise an error in any merged
file and may hit an internal (fatal) error. Fatal errors come from the lexer
and the passes only, never from inside a speculation: in `parser.c` no path
reaches `diag_fatal`. A token array is its file, text and flags and whether it
is still allocated.

### MonoClosure, Mono and MonoTypes

`Refs(p, x)` is the sequence of registrations a walk over instance `x` makes,
in order; `WalkReference` takes one. `i`, `j` and `end` are the loops' indices.
`stash` is the const evaluator's error slot. In `MonoTypes`, a type with one
parameter is the word of its constructors, so substitution is concatenation.
A type named in a function's body brings in the instances its fields name at
once (`NamedByNode`), before the fixpoint over field types comes to them; a type
named in a field is a stub and does not.

### Build

A program is the pass that finds an error in it and the error codes it
declares. A file is the codes of the program it was emitted for and whether all
of it was written. `failing` is what the system may do in this behaviour
(refuse to open the output or the map, lose a write, end the process), chosen
once, so that a property can say under which conditions it holds. `remove` on
the null device is taken to have no effect.

### Args, Conditionals, Layout and Front

*Args.* `stack` holds `expand_file`'s activations, each with what is left of its
file; `args_expand`'s loop is `NextArg`, `expand_file`'s is `NextToken` and
`EndOfFile`. A file name is a directory and a base name, with `Canon` for
`realpath`, so that one file can be named in several ways. What a response
file holds is chosen when it is first opened. `at` is `args_parse`'s index;
the program's name, which both loops skip, is left out. `Flat` says what a list
of tokens stands for to a given depth of files, by recursive functions over
finite domains, and `Options` which tokens are options and which are values;
`SplicedInPlace`, `RefusedForCause` and `ParsedAsGiven` compare the two loops with
them. What a pattern matches
is the constant `Glob`; glob may fail.

*Conditionals.* A file is a sequence of lines, a directive with the tokens of
its condition or a text line; `Descend` is the recursive descent with one rule
for each C function and each of their loops. `active` and `done` are the filter's
two arrays up to `depth`. `groups` records the truth of each condition seen, for
the property only. A malformed condition aborts also inside an inactive branch.
What stands behind `#else` or `#end` on its line counts as a line of its own: the
filter treats it as it would on the next line.

*Layout.* The pass acts at line ends only, so a line is what it looks at there
(see the module). The two loops that pop blocks are sets of the prefix they
leave. `arrow` and `with` stand for the block formers: `with` has a rule of its
own, the others have none. That the first line of a file may start at any
column, that an `=` opens a block only with its declaration keyword on the same
line (lines inside brackets count as one), and that a surplus closing bracket is
forgotten are the code's.

*Front.* `main` does one input here; several are lexed one after another with
nothing shared. The shape of a text line is chosen when the layout comes to it,
because the filter copies it whole. Variables that nothing reads any more are
reset, which changes no behaviour and merges states.

### Patterns and Match

A type, a pattern and a value are trees of small records; the forms of literal
but integers and booleans, and error constants, are left out (a char or string
literal is to the matrix what an integer is). `Match` writes arms one after
another, judges them (`check_match`), and if they are accepted runs the emitted
code on any value, one arm a step, the guards coming to whatever they like. A C
object is what `EXPR_SOME`, `EXPR_OK`, `EXPR_ERR` and the variant constructors
write, a member they leave out is `Garbage`. A match in a generic function is
judged on its type variable and runs on each type in `Inst`, one with and one
without a NULL sentinel. An error code is never 0 and a `some` of a pointer never
NULL: the emitted constructors abort on either. In the code the exhaustiveness
check also runs on arms that were rejected before, which adds an error to a
match that has one; the types and provenance of the bodies are left out.

### Escape

The machine writes a function statement by statement, gives each expression the
two tags pass2 gives it (`prov`, where the value lives; `elem`, where what it
holds lives), and runs what is accepted on a memory in which a pointer is known
by the cell it points into. One kind of expression stands for the source forms
that are treated alike (see the module). A loop body is checked once, after the
sweep that taints what it assigns.

### Names and NamesMeaning

A declaration is one of `Decls` with a kind, a name and an owner; a program is a
set of files, each with a subset of declarations in any order. `text` is that
order, the tables are `pass1`'s. A use is a path; what it may refer to is
chosen when its function is checked. A symbol whose let is not checked yet is
checked on demand, and `stack` holds the checks that were interrupted. A type
is known by the let whose check set it.

### CInt, Numeric, Emit, Interp and Evaluate

Widths are scaled by four, so that every value of every type, and every pair of
its edges, can be tried. A value carries its C type. `Evaluate` keeps two parked
operands, each with the value the language defines, the value of the emitted
text, and the constant the compiler knows, if any; a step applies one operation
to them. A step that the language defines to abort or leaves undefined ends the
expression. Doubles are counted in halves, with a significand that, as in C, is
wider than the int and narrower than the widest integer.

### Tree, Language, Flow, Lower and Emitted

A body is a tree of uniform nodes. `Flow` carries one record through it, as
`check_expr` carries its context; `Lower` is the emitter's functions for blocks,
branches, loops, matches, defers and hoisted operands; `Emitted` says when the
resulting C compiles under `-Wall -Werror` and what it does, in either order
wherever C leaves one open; `Language` says what the source means. Calls have
numbered effects and log the values they are given, so that a swapped order or
a lost effect shows in the log.

### TypeDefs

A program is a sequence of declarations with the types of their parts;
`Stub` is a type named before it is resolved, as in fields, `Named` the
resolved one. `entries` is the table of instances. The type sets, the order of
the definitions, the interleaving of option and result bodies and the equality
functions are computed as `emit_types` computes them, into a sequence of C
items, of which the properties ask that each is declared, complete and unique
when it is needed. A struct has at least one field, as the parser asks; one with
nothing but static assertions is left out.

## 3. Runs

| Run | Instance | Shows |
|---|---|---|
| `lsp_flat` | Two files and a symbolic link in one directory, a stdlib file elsewhere; 4 messages, 2 waiting; liveness | A flush re-runs every unit that needs it (`UnitsCurrent`), each document is analyzed with its live text, every error is on screen, an idle server owes nothing, every edit is realized. |
| `lsp_disk` | Two programs and a library their `lsp.rsp` files list by different routes; one change on disk or to a response file (removed, broken, or with other inputs), all message kinds, end of input at any time | `pub_uris` is exactly what is on screen, units have documents, answers come from current buffers and, where the disk was left alone, locations from the analyzed text. |
| `analyze` | A document and up to two feed sources, 3 errors, 3 nested speculations, two texts (one a lexical error under one flag set), two flag sets | The held buffer implements the contract and obeys each verdict (by refinement); no error waits behind a finished speculation; tokens are current. |
| `mono` | Every program of two generic functions and two generic types with 0-2 references each; depth 3, 6 instances, 2 per const-generic template | Termination; the table at codegen is exactly what is reachable; a program is refused exactly when that is too deep, too large or holds a bad instance. |
| `build` | Programs failing in each pass or in codegen, with no, one or another set of error codes; any subset of the failures | Exit status 0 is to be believed; codegen errors leave no C file and no map, or what stood there if the output cannot be opened. |
| `front` | Three response files in two directories, one under two names, each holding any of some 20 short token lists, under nine command lines; files of up to five lines of directives and text, two levels deep; all conditions of up to five tokens; four lines of each of 17 shapes in three columns | Expansion enters no file twice at a time, is refused only where there is nothing to splice, and is in order and relative to the right file; the last flag and output given win; exactly the selected branches are kept; conditions mean what their grammar says; the blocks are those of the offside rule. |
| `match` | Up to three arms, guarded or not, over eight subject types, with patterns that cover them alone, together, or not, with or-patterns at each place, and with patterns that are refused | An accepted match runs the first arm that matches, on every value and for every outcome of the guards, and binds what its pattern names; a refused one has a value that falls through, of the form of the checker's witness (not of the text printed for it). |
| `escape` | Six pairs of names (pointers, slices, closures, structs on the stack and the heap), two or three statements and a loop of two or three | No pointer into the frame outlives it or is freed, and a loop body needs only one check. |
| `names` | Families `Level` (levels of modules and imports), `Route` (wildcards, aliases, privacy), `Pair` (companion types, namespaces), `Clash` (two declarations under one C name), `Cycle` (dependencies among lets), in every order of files and declarations | Exactly the well-formed programs are accepted, every use is bound to what it means, and a let is checked once however it is reached. |
| `arith` | Four targets, all operations on up to two parked operands, every type | Emitted C, language and folding agree; no undefined operation runs; slice lengths are exact, with one bound or two of any types, and buffers suffice. |
| `flow` | Bodies of three constructions on four topics: exits and defers, order of operands, self-calls, markers; three turns of tests and loops | Emitted bodies compile and run as written on every way the tests go; branch order does not decide; a function with a base case is accepted, and one without is refused unless an operand holds the self-call. |
| `types` | Four families of declarations with four more parts or wrappings | Every accepted program's C types compile, and equality is structural. |

`CHECK_DEADLOCK FALSE` stands where the system stops: the server exits and the
editor's messages are bounded, monomorphization ends.

**Bounds.** `MaxSend` 4 is the shortest session in which a unit is created by
one document, joined or edited through another, published, and closed or
queried. One disk change is enough to separate what was analyzed from what is
there; a second adds no new pair of views. The two-program workspace is the
smallest in which a file is in two units and has two spellings, the linked one
the smallest where a document's path is not canonical. Three errors under three
speculations are the fewest with an error at each of three nesting levels. The
mono limits are scaled down so that each guard (depth 3, 6 instances, 2 per
template) is hit by some program and each is missed by others. In `front`,
`ARGS_MAX_DEPTH`, `MAX_COND_DEPTH` and `MAX_INDENT` are scaled down to 1 to 3 so
that each is reached; five lines hold a nested group with two branches of each
kind, four laid-out lines a match with arms inside a block and the line after;
five condition tokens hold two binary operators, where precedence shows. In `match`, three arms are a
guarded one and two that only cover together; `MAX_OR_EXPANSION` is 4, which two
alternatives in two fields reach and in three exceed. In `escape` two
statements before a loop of two, one of them carrying a value over, are the
fewest in which the second turn of a loop sees what the first left behind. In
`arith` a type of 8, 16, 32 or 64 bits has 2, 4, 8 or 16, and the `--len-repr`
widths 16, 32 and 64 have 4, 8 and 16; pairs of operands are `Small` and the
extremes of the types. In `flow`, three constructions put an exit inside a
branch inside a loop, with a defer before any of them; `Turns` 3 runs a loop
twice and one test. Four steps in `types` reach every wrapper around every
other around a struct that holds itself by any of them. `Build` needs no
bound: its state space is finite and covers every sequence of invocations.

**Fairness.** `LspServer`'s `FairSpec` asks that a step of the loop that stays
possible is taken: the process is not suspended for ever. The editor and the
disk owe nothing; that `MaxSend` bounds the messages is what makes an endless
burst end, and the liveness property is about the pause after it. `Mono`'s
`FairSpec` asks that the single thread runs until it returns.

`Front` has no liveness property and hence no fairness; that it never stops short
of the parser or an error message is TLC's deadlock check.

**Deviations met while modelling.** Where the code does less, or more, than a
document, a comment or the neighbouring code promises, the properties leave the
case out by name; nothing else is left out of them. Of the smaller ones:
`IdleIsClean` needs well-formed messages (after a malformed one the loop goes
back to a blocking read without the `input_pending` check); `remove(output_path)`
after an internal error precedes the null-device test; a map that cannot be
opened leaves the new C file beside an older map; `--no-auto-detect` suppresses
detection wherever it stands, also as the value of another option. The others:

*Server and driver.*
- A library that is not open and has different errors in two programs is
  published twice under one URI when its spellings differ, so that one program's
  errors stay on screen (`lsp.c:1643` groups by spelling; comment at 1586).
- An open document whose file was deleted is in no analysis of its siblings'
  unit: `gather_heuristic_sources` reads the directory only (`lsp.c:1418`;
  comment at 1492).
- A source listed twice whose file changes between the two reads frees tokens
  that are still to be parsed (`analyze.c`, `free(e->tokens)`; comment at 131).
- Writes of the C file are not checked, so a full disk gives exit status 0 with
  a truncated file (`main.c:198`; `docs/ARCHITECTURE.md:217`).

- Two documents for one file, where an `lsp.rsp` lists it: the second is in no
  analysis (`lsp.c:1394`). Below a broken `lsp.rsp` only the primary document's
  directory is (`lsp.c:1252` keys them all to the one unit).
- A new file that is open but not saved joins the unit of another directory's
  `lsp.rsp` that lists it only when something else re-runs that unit; a link
  whose target is deleted leaves the units that list the link as they are; an
  open stdlib source is read from its buffer in its own unit only
  (`flush_dirty`; comment at 1528).

*Matches and escape analysis.*
- `{ on = true, on = _ }` covers everything for the checker, which keeps a
  field's last pattern, and only `on = true` for the emitted code (`pass2.c:8984`).
- The sweep over a loop body taints a module's `let mut` for good, so a later
  function is judged by an earlier one's assignment (`pass2.c:634`).
- Tags carried from one turn of a loop to the next through an element are not
  all found (`pass2.c:365`); inline arrays, handles joined with statics, pointers
  in fields, aliases, `*pp` and shadowed names are beyond the two tags. These are
  the constants in `Features`, which the run leaves empty.

*Names.*
- A later import does not hide an earlier one of another kind (spec, "Name
  resolution"), and lookups of a let, a module and a let under one name depend
  on the order of the imports.
- Whether a dependency cycle of constants is reported, and which of two private
  halves a companion pairs with, depends on the order of files (`NamesMeaning`,
  `Tangled`).
- `import point from geo` brings in a module of that name and not its companion
  type; private types can be named by dotted annotations and in literals; an
  inner union or enum is hidden by an outer struct of the same name.

*Arithmetic.*
- u32 literals carry no suffix, so `~0u32` used as an i64 is -1; character
  literals from 0x80 are signed in the emitted C (the run's `CharBytes` are
  below); with a 16-bit int, an untyped shift is done in int.

*Control flow.*
- `for lo..hi` evaluates `hi` first (`emit_for`).
- A deferred expression is emitted with the marker in force at the exit instead
  of at its own place (`codegen.c:419`).
- A diverging match or block as the last statement of a block with defers is
  emitted as `void _blk`; `break f()` and `return f()` with a void value, a marker
  over a single transfer or a diverging `if`, a match on a diverging subject, and
  transfers in operand places give C that does not compile
  (`docs/ARCHITECTURE.md:304`).
- A function that calls itself in a `let` before its tail, or whose base case is
  a `return` under an `if`, is refused or accepted by the order of the branches;
  a branch that is not in tail position can anchor the return type
  (`branch_can_anchor`, comment at `pass2.c:862`); `return f(x?)` loses the exit
  of `x?` (`sr_flow`).

*C types.*
- A struct, named by a stub, in a slice is compared as bytes when its equality
  function is first needed through that field; fixed-array fields always are
  (`type_needs_eq_func`, `types.c:1221`).
- A generic instance that a field names through a slice, array or nested option,
  and an expression also uses, gets its typedef twice; one named only in a field
  of a non-generic type is never registered; `box<i32>[]` and `box<i64>[]` in
  fields share one typedef (`type_ident_eq` compares the template's name).
- Infinite size through a generic argument is accepted (`pass2.c:10821`), and a
  struct in a module that points to itself makes `normalize_type_sizes` recurse
  without end (`pass2.c:10672`).

## 4. Proofs

All proofs hold for every value of the constants that satisfies the modules'
`ASSUME`s (paths resolve idempotently, bounds are naturals, the primary
document is no feed source, and the like; TLC evaluates them on each run).

**LspServerProofs.** `SquigglesAreTracked`: `SquigglesTracked` is inductive by
itself; one lemma per way of publishing. `TypeCorrect`: `TypeOK` strengthened by
nothing, but resting on a dozen lemmas about the types of the unit functions;
the gapless store is the part with an argument (`didClose` moves index
`count - 1` into the gap). It assumes `FrontEndTyped`: the front end's errors
are located in existing files. `UnitsAreBorne`: units exist exactly for the keys
of documents that have been flushed; the argument is that `StaleKeys` contains
every key a document newly bears, because a document whose key changed counts
as dirty. `IdleServerIsClean`: needs that no message is malformed; the
strengthening says that an unflushed document implies a message still unread or
the poll still to come.

**LspUnitsProofs.** `AnswersAreCurrent`. A request flushes before it is
answered, so it is enough that an analysis is current for the clean documents:
`FreshInv` says that each of its sources (but the stdlib's) is among the files
recorded for its unit and carries the text of every clean document of that file,
or, where none is open and no other program wrote, what is on disk. A flush that
cleans a document therefore re-ran every unit with an older text of it. There
are two hypotheses on the constants. `Canonical`: documents are opened under
canonical names. When a file is opened through a link and another program's
`lsp.rsp` lists the link, that unit is not re-run when the link's target is
deleted and answers from the old text. `FeedClosed`: no stdlib source is open.
Other units go on with the text read at startup. The `lsp_disk` workspace
satisfies both.

The rest is about a server whose files only the editor
writes. `flush_dirty` re-runs the units a dirty document keys or
whose last analysis merged its file, and no others. `NoDependencyMissed`
(`UnitsCurrent`): that is enough. The invariant, `SettledInv`, is that a unit the
next flush would leave alone is what a new analysis would make it; the argument
is `AnalysisElsewhere`: an analysis that did not meet a file looks at no document
of that file, so editing, opening or closing one changes nothing in it, and a
clean document counts in an analysis like a dirty one (`CleanedAnalysis`).
`OneAnalysisServesAll` (`EveryDocAnalyzed`): whichever document of a unit is the
primary one, the sources gathered for it are the same files (`BearersServed`).
`ErrorsAreShown` (`AllErrorsShown`): `ShownInv` says that once every document is
clean, each error a unit may report is among the messages last published for its
file. The hypotheses are the ones without which TLC finds
the opposite:
- `Quiet`: other programs do not write (a change on disk re-runs nothing until
  the next edit, by design);
- `Existing`, for the first two: the files opened are saved. A new, unsaved file
  that another directory's `lsp.rsp` already lists is not seen by that unit: its
  last analysis could not read the file and does not have it among its files;
- `Usable`, for `EveryDocAnalyzed`: no `lsp.rsp` is broken at the start. A broken
  one keys a unit for all directories below it, and the analysis takes the
  primary document's directory only;
- `OneName`, for the same: no file is open under two names below an `lsp.rsp`,
  since the list names it once and one of the two documents is found;
- `OneSpelling`, for `AllErrorsShown`: no links. Two spellings of a file are two
  notifications for one URI, and the second replaces the first.

The `lsp_flat` workspace satisfies all but the last.

**AnalyzeProofs.** The inductive invariant `Inv` is `Held` (the marks are an
ascending sequence of positions in the held buffer starting at 0, the depth is
their number, the count is the number of errors shown), `LexedSoFar` (the tokens
so far are those of the sources so far, under this analysis's flags) and
`Running` (speculations are open only while a file is parsed). From it:
`ErrorsAreReported`, `CacheIsTransparent`, and the refinement
`AnalyzeImplementsContract`, whose mapping cuts the one buffer at its marks;
the lemmas about cutting (`EndContract`: dropping the last mark merges the last
two pieces) are the substance. `VerdictsAreObeyed` says that each verdict has
its own effect and not just some effect of the contract.

**MonoProofs.** `CodegenClosed` is not inductive: the table is open until the
loops end. `Frontier` adds what the walk has left behind: every entry before
`i`, and the first `j - 1` references of entry `i`, are closed, unless an error
was reported. At the end of a round in which nothing was added, "before `i`" is
everything. `TableIsBounded`, `CodegenTableClosed`, `BackstopIsSilent` and the
refinement `MonoImplementsClosure` follow from `IInv`. `VerdictIsRight` compares
the outcome with `Asked(p)`, the smallest family of instances that holds the
seeds of the program and what its members refer to, those deeper than the limit
excepted (`Least`; every program has one, `LeastExists`, so the hypothesis that
`Asked` is it excludes no program). `VInv` adds that the table holds nothing that
is not asked for, that an error or a set error slot has its reason in the family,
and that each template is within its limit as long as nothing broken is in the
table.

**EscapeProofs.** The two tags of a binding are worth something only if they say
what its memory may hold (`MemOK`, variable by variable `Held`): stack data only
where `prov` is STACK, and, for a slice, stack elements only where `elem` is.
`ExecuteSound` and `ReturnSound` say that a statement `Check` accepts keeps this
or, for a return, hands out nothing of the frame. For straight-line code that is
all. In a loop the tags that a turn runs with are not those the body was checked
with, and that the one check is enough is an argument of four steps:
1. `SweepsReachTheEnd`: each sweep that changes anything adds a name or a tag of
   which there are three for each statement, so after that many sweeps another
   one changes nothing.
2. `LinkStep`: then every taint the check of the body gives a binding was marked
   by the sweep (`Foreseen`): what `expr_may_yield_stack` sees by names only
   covers what `ExprTags` finds.
3. `CheckBelow`: with fewer taints `Check` accepts what it accepted and ends with
   fewer. So the body, checked again with the bindings it ended with, is accepted
   and ends below where the first check ended (`SecondCheck`).
4. Those bindings are then an upper bound for every turn: `InTurn` says that the
   memory before statement `pc` is within the tags that a check of this turn has
   reached there, and at the end of a turn they are those of its beginning or
   fewer (`Between`).

`MemoryIsTagged` is the invariant with these parts, `FrameDoesNotEscape`,
`FrameIsNeverFreed` and `LoopsAreCheckedOnce` what follows. They are about the
tracked core (`Features = {}`, as in the run); with the constructs of section 3's
list, TLC finds the opposite.

**BuildProofs.** `Gated` says which passes' faults are excluded at each phase,
`Emitted` what is on disk once emission is over; together they give
`ZeroMeansWhole` for any history of failed and killed builds. For
`MapStaysInStep` the map is out of step only between opening the C file and
closing the map. `ErrorsLeaveNothingBroken`: as long as no write is lost and the
process is not killed, a C file that is not whole is there between its opening
and the last gate only (`WholeInv`), and that gate removes it; no other way out of
an invocation with a codegen error has exit status 1 once the output is open
(`GoneInv`). The two together are `StatusIsTrue` (`StatusTellsOutput`).

**FrontProofs.** `FilterSelects`: `active` is the conjunction of the selections
around a line and `done` the disjunction of a group's conditions; both follow for
the innermost level from `ParentActive`, which needs the same for the level
around it. `BlocksNest`: the pops leave a prefix, so only the two ways of opening
a block count; after `CloseMatchBlocks` the top block's column is known relative
to the line's. `ExpansionIsFinite`: a file is pushed only if no activation has
its canonical name, and the depth test precedes the push (`NoFileOpenTwice`,
one half of `RefusedForCause`). `ItemsShareAColumn`
(`OffsideRule`): the invariant `LaidInv` ties the output to `indent_stack`. How
deep a token is, counted from the marks before it, is the number of open blocks
at the end; an item in a block that has not ended is in the column on the stack,
and starts with "|" if the block holds arms; each open block has its INDENT.
`OffsideStep` is the one argument for the four ways a line is placed: items
before the new line that it can be compared with are in blocks the line does
not end. That a line to the right of the innermost block ends no block (so that
nothing is dedented without a NEWLINE) needs that arms are in the column of the
block around them. `FilesAreSpliced` (`SplicedInPlace`): while files are being
expanded, some of them are not read yet, so the invariant `Spliced` speaks of all
files that extend those read (`Extends`): for whatever the unread ones hold, the
tokens so far, followed by what the rest of each open list stands for from the
innermost outwards (`Sums`, `LeftOf`), are what the arguments stand for. Reading
a token, pushing a file and popping one each rearrange that sum (`TokenSpliced`,
`MentionSpliced`, `EndSpliced`); that the depth test keeps within the depth of
the reference is part of it. `CommandLineIsParsed` (`ParsedAsGiven`): what
`args_parse` has gone over are whole options (`Onward`: the token it stands at is
an option and no value), the flag table has one entry for each name and it is the
last one said or the host's (`FlagsSaid`), and the output is the last one said.
It uses of the constants that the host's flags have different names.

**NamesProofs.** `DemandIsOnce`: a let is on the stack of interrupted checks at
most once on demand: `check_let_on_demand` marks it first and starts nothing marked.

`TypeCorrect`, `VerdictsAreObeyed`, `TableIsBounded`, `BackstopIsSilent`,
`MapStaysInStep` and `BlocksNest` are proved and no longer checked by a run.

Left to TLC: liveness (`EditsRealized`, `Termination`), which the prover does
not treat; the other half of `RefusedForCause`, about an unfolding that does not
end; what is compared with a recursive definition or folds over one
(`ConditionsRead`, and all of `Match`, `Flow` and `TypeDefs`, whose programs are
trees and whose operators are RECURSIVE); `Evaluate`, which computes on bits;
`AcceptsTheWellFormed` and `NamesMean`, which compare two whole resolutions of a
program and hold for the families of programs built in `MCNames`.

Where a proof needs induction, it is stated over a set (`SetInduction`: a set
that holds 0, and n + 1 with n, holds every natural), and a recursive function,
which to the prover is the CHOOSE of a function that satisfies its equation, is
first shown to satisfy it by constructing one (`ChecksExist`, `ChecksDef`;
`FlatDef`, `UpToDef`, `OptionsDef`).

## 5. Not modelled, and why

* The grammar as such: a function of the text without state; which errors a
  text has is free in `Analyze`.
* Lambdas with their captures, unification of generic arguments,
  externs, atomics: typing rules that touch none of the hazards above;
  they are the next candidates.
* Message framing and JSON: a message is well-formed or not. The content of
  hovers, completions and lenses.
* Arena, interning, string building; host detection; Windows' `glob`.
* Out-of-memory, which ends the process.

## 6. Plan

1. **Modelled**: server, analysis, monomorphization, driver, front, matches,
   escape, names, arithmetic, control flow, C types.
2. **To prove next**: that names are resolved once (`Names`); the conditions of
   #if against their reading.
3. **Next to model**: lambdas and what they capture; error-code numbering.
