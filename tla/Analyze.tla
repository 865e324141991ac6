------------------------------- MODULE Analyze -------------------------------
(* One analysis of the language server after another (analyze.c), over the    *)
(* error reporting of diag.c and the cache of tokens they share.  An error is *)
(* the file it is located in and its number; a text is what the lexer makes   *)
(* of it; which errors a file has, and which speculations the parser keeps,   *)
(* is the parser's business and free here.                                   *)
EXTENDS Naturals, Sequences, FiniteSets, SequencesExt

CONSTANTS
    Primary,             \* the document the analysis is made for
    Feed,                \* the other sources' filenames
    Text, Flags,         \* contents; sets of --flag values
    BadLex,              \* the <<text, flags>> whose lexing is a fatal error
    MaxExtra,            \* bound: feed sources of one analysis
    MaxErrors,           \* bound: errors raised in one analysis
    MaxSpeculation,      \* bound: depth of nested speculations
    None

ASSUME AnalyzeAssumption ==
    /\ Primary \notin Feed /\ None \notin Text
    /\ BadLex \subseteq Text \X Flags
    /\ {MaxExtra, MaxErrors, MaxSpeculation} \subseteq Nat

File == Feed \cup {Primary}
Error == [file : File, number : 1 .. MaxErrors + 1]

VARIABLES
    g_held, g_speculation_depth, g_error_count,      \* diag.c
    marks,       \* the `held` locals of the speculations on the parser's stack
    diags,       \* r->diags: what collect_sink received
    note,        \* r->diags also has the "analysis incomplete" diagnostic
    typed,       \* r->typed
    toks,        \* the token arrays of the sources lexed so far
    cache,       \* the server's LexCache: Feed -> slot or None
    sources,     \* what analyze() was given: the primary, then the feed
    flags,
    phase, at,   \* the pass that runs, the source it is at
    raised       \* errors raised by the parser and the passes so far

diag == <<g_held, g_speculation_depth, g_error_count, marks, diags>>
lex == <<toks, cache>>
request == <<sources, flags>>
vars == <<diag, note, typed, lex, request, phase, at, raised>>

Phase == {"idle", "lex", "parse", "check"}
Slot == [text : Text, flags : Flags]
Tokens == [file : File, text : Text, flags : Flags, live : BOOLEAN]

Init ==
    /\ g_held = <<>> /\ g_speculation_depth = 0 /\ g_error_count = 0 /\ marks = <<>>
    /\ diags = <<>> /\ note = FALSE /\ typed = FALSE
    /\ toks = <<>> /\ cache = [f \in Feed |-> None]
    /\ sources = <<>> /\ flags \in Flags
    /\ phase = "idle" /\ at = 0 /\ raised = 0

-----------------------------------------------------------------------------
(* diag.c                                                                    *)

(* report each error of a list: hand it to the sink and count it.            *)
report(errors) ==
    /\ diags' = diags \o errors
    /\ g_error_count' = g_error_count + Len(errors)

diag_reset_counts ==
    g_error_count' = 0 /\ g_held' = <<>> /\ g_speculation_depth' = 0

diag_speculate_begin ==
    /\ g_speculation_depth' = g_speculation_depth + 1
    /\ marks' = Append(marks, Len(g_held))
    /\ UNCHANGED <<g_held, g_error_count, diags>>

(* What remains held once the speculation begun at mark ends.                *)
FaultyDropAll(mark, keep) == IF keep THEN g_held ELSE <<>>

Remaining(mark, keep) == IF keep THEN g_held ELSE SubSeq(g_held, 1, mark)

FaultyEndHold(mark, keep) ==
    /\ g_speculation_depth' = g_speculation_depth - 1
    /\ g_held' = Remaining(mark, keep)
    /\ UNCHANGED <<g_error_count, diags>>

diag_speculate_end(mark, keep) ==
    /\ g_speculation_depth' = g_speculation_depth - 1
    /\ IF g_speculation_depth = 1
       THEN report(Remaining(mark, keep)) /\ g_held' = <<>>
       ELSE g_held' = Remaining(mark, keep) /\ UNCHANGED <<g_error_count, diags>>

diag_error(e) ==
    /\ IF g_speculation_depth > 0
       THEN g_held' = Append(g_held, e) /\ UNCHANGED <<g_error_count, diags>>
       ELSE report(<<e>>) /\ UNCHANGED g_held
    /\ UNCHANGED <<g_speculation_depth, marks>>

(* diag_fatal: whatever is held is reported first; the longjmp abandons the   *)
(* parser's stack.                                                           *)
diag_fatal(e) ==
    /\ report(Append(g_held, e))
    /\ g_held' = <<>> /\ g_speculation_depth' = 0 /\ marks' = <<>>

-----------------------------------------------------------------------------
(* analyze.c                                                                 *)

(* The file-level diagnostic on the primary document when the analysis was    *)
(* aborted by an error located elsewhere only.                               *)
Incomplete(reported) == \A e \in Range(reported) : e.file # Primary

NewError(file) == [file |-> file, number |-> raised + 1]

(* setjmp's second return: the analysis ends untyped.                        *)
Abort(file) ==
    /\ diag_fatal(NewError(file))
    /\ note' = Incomplete(diags') /\ typed' = FALSE
    /\ phase' = "idle"
    /\ UNCHANGED <<lex, request, at, raised>>

analyze(text, extra, fl) ==
    /\ phase = "idle"
    /\ diag_reset_counts
    /\ diags' = <<>> /\ marks' = <<>> /\ note' = FALSE /\ typed' = FALSE
    /\ sources' = <<[file |-> Primary, text |-> text]>> \o extra
    /\ flags' = fl
    /\ toks' = <<>> /\ phase' = "lex" /\ at' = 1 /\ raised' = 0
    /\ UNCHANGED cache

Lexed(source) == [file |-> source.file, text |-> source.text, flags |-> flags, live |-> TRUE]

(* A slot hits only on the same content and the same flags.                  *)
FaultyHit(slot, source) == slot # None /\ slot.text = source.text

Hit(slot, source) == slot # None /\ slot.text = source.text /\ slot.flags = flags

(* lex_feed_cached on a hit: the slot's tokens are shared, not copied.       *)
LexHit(source) ==
    /\ Hit(cache[source.file], source)
    /\ toks' = Append(toks, [file |-> source.file, text |-> cache[source.file].text,
                             flags |-> cache[source.file].flags, live |-> TRUE])
    /\ UNCHANGED cache

(* lex_feed_cached on a miss: the slot's old tokens are freed, under whoever  *)
(* holds them.                                                               *)
LexMiss(source) ==
    /\ ~Hit(cache[source.file], source)
    /\ cache' = [cache EXCEPT ![source.file] = [text |-> source.text, flags |-> flags]]
    /\ toks' = Append([n \in DOMAIN toks |->
                          [toks[n] EXCEPT !.live = @ /\ toks[n].file # source.file]],
                      Lexed(source))

(* Lex the next source: the primary always afresh, a feed source through the  *)
(* cache.  A lexical error aborts before the slot is touched.                *)
LexSource ==
    /\ phase = "lex" /\ at <= Len(sources)
    /\ LET source == sources[at]
           afresh == at = 1 \/ ~Hit(cache[source.file], source)
       IN  IF afresh /\ <<source.text, flags>> \in BadLex
           THEN Abort(source.file)
           ELSE /\ IF at = 1
                   THEN toks' = <<Lexed(source)>> /\ UNCHANGED cache
                   ELSE LexHit(source) \/ LexMiss(source)
                /\ at' = at + 1
                /\ UNCHANGED <<diag, note, typed, request, phase, raised>>

ParseFiles ==
    /\ phase = "lex" /\ at > Len(sources)
    /\ phase' = "parse" /\ at' = 1
    /\ UNCHANGED <<diag, note, typed, lex, request, raised>>

-----------------------------------------------------------------------------
(* The parser: errors in the file it is at, under nested speculations.       *)

Parsing == phase = "parse" /\ at <= Len(sources)

SyntaxError ==
    /\ Parsing /\ raised < MaxErrors
    /\ diag_error(NewError(sources[at].file))
    /\ raised' = raised + 1
    /\ UNCHANGED <<note, typed, lex, request, phase, at>>

Speculate ==
    /\ Parsing /\ Len(marks) < MaxSpeculation
    /\ diag_speculate_begin
    /\ UNCHANGED <<note, typed, lex, request, phase, at, raised>>

Decide(keep) ==
    /\ Parsing /\ marks # <<>>
    /\ diag_speculate_end(Last(marks), keep)
    /\ marks' = Front(marks)
    /\ UNCHANGED <<note, typed, lex, request, phase, at, raised>>

(* The end of a file: every speculation the parser began in it has returned.  *)
ParseNext ==
    /\ Parsing /\ marks = <<>>
    /\ at' = at + 1
    /\ UNCHANGED <<diag, note, typed, lex, request, phase, raised>>

CheckProgram ==
    /\ phase = "parse" /\ at > Len(sources)
    /\ phase' = "check"
    /\ UNCHANGED <<diag, note, typed, lex, request, at, raised>>

-----------------------------------------------------------------------------
(* pass1_collect and pass2_check run whatever was reported before them.      *)

TypeError(file) ==
    /\ phase = "check" /\ raised < MaxErrors
    /\ diag_error(NewError(file))
    /\ raised' = raised + 1
    /\ UNCHANGED <<note, typed, lex, request, phase, at>>

InternalError(file) == phase = "check" /\ Abort(file)

Checked ==
    /\ phase = "check"
    /\ typed' = TRUE /\ note' = FALSE /\ phase' = "idle"
    /\ UNCHANGED <<diag, lex, request, at, raised>>

Merged == {sources[n].file : n \in DOMAIN sources}

Extras == UNION {[1 .. n -> [file : Feed, text : Text]] : n \in 0 .. MaxExtra}

Next ==
    \/ \E text \in Text, extra \in Extras, fl \in Flags : analyze(text, extra, fl)
    \/ LexSource \/ ParseFiles
    \/ SyntaxError \/ Speculate \/ ParseNext \/ CheckProgram \/ Checked
    \/ \E keep \in BOOLEAN : Decide(keep)
    \/ \E file \in Merged : TypeError(file) \/ InternalError(file)

Spec == Init /\ [][Next]_vars

-----------------------------------------------------------------------------
(* Properties                                                                *)

(* The held buffer and its marks behave as nested buffers that are merged     *)
(* upwards or forgotten whole (diag.h's contract of diag_speculate_begin and  *)
(* diag_speculate_end).                                                      *)
HeldBy(k) ==
    SubSeq(g_held, marks[k] + 1, IF k = Len(marks) THEN Len(g_held) ELSE marks[k + 1])

Frames == [k \in 1 .. Len(marks) |-> HeldBy(k)]

Contract == INSTANCE DiagContract WITH frames <- Frames, shown <- diags

ImplementsContract == Contract!CSpec

(* Each verdict has the effect promised for that verdict: what an abandoned   *)
(* reading reported is forgotten and nothing else, what a confirmed one       *)
(* reported survives (diag_speculate_end's keep).                            *)
VerdictObeyed ==
    [][(Decide(TRUE) => Contract!Keep) /\ (Decide(FALSE) => Contract!Drop)]_vars

(* Between speculations nothing is held, so no error waits for a verdict that *)
(* never comes, and diag_error_count() is what the editor is shown.          *)
NothingWithheld ==
    /\ marks = <<>> => g_held = <<>> /\ g_speculation_depth = 0
    /\ g_error_count = Len(diags)

(* The parser is given the tokens of each source's own text under this        *)
(* analysis's flags, whatever earlier analyses left in the cache.            *)
TokensCurrent ==
    phase \in {"parse", "check"} =>
        /\ Len(toks) = Len(sources)
        /\ \A n \in DOMAIN toks :
              /\ toks[n].file = sources[n].file /\ toks[n].text = sources[n].text
              /\ toks[n].flags = flags

(* No token array the parser is given has been freed (lex_feed_cached:        *)
(* "Nothing references the old tokens").                                     *)
TokensLive == phase = "parse" => \A n \in DOMAIN toks : toks[n].live
=============================================================================
