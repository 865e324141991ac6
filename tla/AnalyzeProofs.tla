---------------------------- MODULE AnalyzeProofs ----------------------------
(* Nothing is withheld between speculations, and the parser is always given   *)
(* current tokens, for any sources, flags and bounds.                        *)
EXTENDS Analyze, SequenceTheorems, TLAPS

(* The held buffer is cut by as many marks as there are speculations.        *)
Held ==
    /\ g_held \in Seq(Error) /\ diags \in Seq(Error) /\ marks \in Seq(Nat)
    /\ g_error_count = Len(diags)
    /\ g_speculation_depth = Len(marks)
    /\ marks = <<>> => g_held = <<>>
    /\ marks # <<>> => marks[1] = 0
    /\ \A k \in 1 .. Len(marks) : marks[k] <= Len(g_held)
    /\ \A k, l \in 1 .. Len(marks) : k <= l => marks[k] <= marks[l]

SourceOf(files) == [file : files, text : Text]

(* The sources lexed so far, and the tokens they became.                     *)
LexedSoFar ==
    /\ phase # "idle" =>
          /\ sources \in Seq(SourceOf(File)) /\ Len(sources) >= 1
          /\ \A n \in 2 .. Len(sources) : sources[n].file \in Feed
    /\ toks \in Seq(Tokens)
    /\ cache \in [Feed -> Slot \cup {None}]
    /\ flags \in Flags
    /\ phase = "lex" => at \in 1 .. Len(sources) + 1 /\ Len(toks) = at - 1
    /\ phase \in {"parse", "check"} => Len(toks) = Len(sources)
    /\ phase # "idle" =>
          \A n \in 1 .. Len(toks) :
             /\ toks[n].file = sources[n].file /\ toks[n].text = sources[n].text
             /\ toks[n].flags = flags

Running ==
    /\ phase \in Phase /\ raised \in 0 .. MaxErrors /\ at \in Nat
    /\ phase # "idle" => at # 0
    /\ marks # <<>> => phase = "parse" /\ at <= Len(sources)

Inv == Held /\ LexedSoFar /\ Running

LEMMA SourceTyped ==
    ASSUME Inv, phase # "idle", NEW n \in 1 .. Len(sources)
    PROVE  sources[n] \in SourceOf(File) /\ sources[n].file \in File
<1>1. sources[n] \in SourceOf(File)
  BY DEF Inv, LexedSoFar
<1> QED
  BY <1>1 DEF SourceOf

LEMMA MergedFile ==
    ASSUME Inv, phase # "idle", NEW file \in Merged PROVE file \in File
<1>1. DOMAIN sources = 1 .. Len(sources)
  BY DEF Inv, LexedSoFar
<1> QED
  BY <1>1, SourceTyped DEF Merged

LEMMA ErrorTyped ==
    ASSUME Running, NEW file \in File PROVE NewError(file) \in Error
BY AnalyzeAssumption DEF Running, NewError, Error

-----------------------------------------------------------------------------
(* diag.c                                                                    *)

LEMMA ErrorHeld ==
    ASSUME Held, NEW e \in Error, diag_error(e) PROVE Held'
<1>1. CASE g_speculation_depth > 0
  <2>1. g_held' \in Seq(Error) /\ Len(g_held') = Len(g_held) + 1
    <3>1. g_held' = Append(g_held, e) /\ g_held \in Seq(Error)
      BY <1>1 DEF Held, diag_error
    <3> QED
      BY <3>1, AppendProperties
  <2>2. UNCHANGED <<g_error_count, diags, marks, g_speculation_depth>> /\ marks # <<>>
    BY <1>1 DEF Held, diag_error
  <2>3. \A k \in 1 .. Len(marks) : marks[k] \in Nat
    BY DEF Held
  <2>4. Len(g_held) \in Nat
    BY DEF Held
  <2> QED
    BY <2>1, <2>2, <2>3, <2>4 DEF Held
<1>2. CASE ~(g_speculation_depth > 0)
  BY <1>2 DEF Held, diag_error, report
<1> QED
  BY <1>1, <1>2

LEMMA FatalHeld ==
    ASSUME Held, NEW e \in Error, diag_fatal(e) PROVE Held' /\ marks' = <<>>
BY DEF Held, diag_fatal, report

LEMMA BeginHeld ==
    ASSUME Held, diag_speculate_begin PROVE Held'
BY DEF Held, diag_speculate_begin

LEMMA EndHeld ==
    ASSUME Held, marks # <<>>, NEW keep \in BOOLEAN,
           diag_speculate_end(Last(marks), keep), marks' = Front(marks)
    PROVE  Held'
<1> DEFINE kept == Remaining(Last(marks), keep)
           d == Len(marks)
<1>1. d \in Nat /\ d >= 1 /\ Last(marks) = marks[d] /\ marks[d] \in 0 .. Len(g_held)
  BY DEF Held, Last
<1>2. kept \in Seq(Error) /\ marks[d] <= Len(kept)
  <2>1. CASE keep
    BY <1>1, <2>1 DEF Remaining, Held
  <2>2. CASE ~keep
    BY <1>1, <2>2, SubSeqProperties DEF Remaining, Held
  <2> QED
    BY <2>1, <2>2
<1>3. /\ marks' \in Seq(Nat) /\ Len(marks') = d - 1
      /\ \A k \in 1 .. d - 1 : marks'[k] = marks[k]
  BY <1>1 DEF Held, Front
<1>4. \A k \in 1 .. d - 1 : marks[k] <= Len(kept)
  BY <1>1, <1>2 DEF Held
<1>5. CASE d = 1
  <2>1. marks' = <<>>
    BY <1>3, <1>5
  <2>2. g_speculation_depth = 1
    BY <1>5 DEF Held
  <2>3. /\ g_held' = <<>> /\ g_speculation_depth' = 0
        /\ diags' = diags \o kept /\ g_error_count' = g_error_count + Len(kept)
    BY <2>2 DEF diag_speculate_end, report
  <2> HIDE DEF kept
  <2> QED
    BY <2>1, <2>3, <1>2 DEF Held
<1>6. CASE d # 1
  <2>1. g_held' = kept /\ UNCHANGED <<g_error_count, diags>> /\ g_speculation_depth' = d - 1
    BY <1>6, <1>1 DEF diag_speculate_end, Held
  <2>2. marks' # <<>>
    BY <1>3, <1>6, <1>1
  <2>3. \A k \in 1 .. Len(marks') : marks'[k] <= Len(kept)
    BY <1>1, <1>3, <1>4
  <2>4. \A k, l \in 1 .. Len(marks') : k <= l => marks'[k] <= marks'[l]
    BY <1>1, <1>3 DEF Held
  <2> HIDE DEF kept
  <2>5. g_held' \in Seq(Error) /\ g_error_count' = Len(diags') /\ diags' \in Seq(Error)
    BY <2>1, <1>2 DEF Held
  <2>6. g_speculation_depth' = Len(marks')
    BY <2>1, <1>3
  <2> QED
    BY <2>1, <2>2, <2>3, <2>4, <2>5, <2>6, <1>3 DEF Held
<1> QED
  BY <1>5, <1>6

-----------------------------------------------------------------------------
(* analyze.c                                                                 *)

(* The cache changes nothing the parser is given: a hit has the text and the  *)
(* flags that lexing afresh would use.                                       *)
LEMMA LexSourceInv ==
    ASSUME Inv, LexSource, at' = at + 1, UNCHANGED <<sources, flags, phase>>
    PROVE  LexedSoFar'
<1> DEFINE source == sources[at]
<1>1. /\ phase = "lex" /\ at \in 1 .. Len(sources) /\ Len(toks) = at - 1
      /\ sources \in Seq(SourceOf(File)) /\ toks \in Seq(Tokens)
      /\ cache \in [Feed -> Slot \cup {None}] /\ flags \in Flags
  BY DEF Inv, LexedSoFar, LexSource
<1>2. source \in SourceOf(File) /\ (at # 1 => source.file \in Feed)
  BY <1>1 DEF Inv, LexedSoFar
<1>a. ~Abort(source.file)
  BY <1>1 DEF Abort
<1>3. PICK tok \in Tokens, old \in Seq(Tokens) :
         /\ toks' = Append(old, tok) /\ Len(old) = Len(toks)
         /\ \A n \in 1 .. Len(toks) : old[n].file = toks[n].file
                                    /\ old[n].text = toks[n].text /\ old[n].flags = toks[n].flags
         /\ tok.file = source.file /\ tok.text = source.text /\ tok.flags = flags
         /\ cache' \in [Feed -> Slot \cup {None}]
  <2>1. Lexed(source) \in Tokens
    BY <1>1, <1>2 DEF Lexed, Tokens, SourceOf
  <2>2. CASE at = 1
    <3>1. toks' = <<Lexed(source)>> /\ cache' = cache
      BY <2>2, <1>1, <1>a DEF LexSource
    <3>2. toks' = Append(<<>>, Lexed(source)) /\ <<>> \in Seq(Tokens) /\ Len(toks) = 0
      BY <3>1, <2>2, <1>1
    <3>3. /\ Lexed(source).file = source.file /\ Lexed(source).text = source.text
          /\ Lexed(source).flags = flags
      BY DEF Lexed
    <3>4. Len(<<>>) = 0 /\ cache' \in [Feed -> Slot \cup {None}]
      BY <3>1, <1>1
    <3>5. \A n \in 1 .. Len(toks) : FALSE
      BY <3>2
    <3> HIDE DEF source
    <3> QED
      BY <3>2, <3>3, <3>4, <3>5, <2>1
  <2>3. CASE at # 1 /\ LexHit(source)
    <3>1. cache[source.file] \in Slot /\ cache' = cache
      BY <2>3, <1>1, <1>2 DEF LexHit, Hit
    <3>2. /\ cache[source.file].text = source.text /\ cache[source.file].flags = flags
          /\ toks' = Append(toks, Lexed(source))
      BY <2>3 DEF LexHit, Hit, Lexed
    <3> QED
      BY <3>1, <3>2, <2>1, <1>1 DEF Lexed
  <2>4. CASE at # 1 /\ LexMiss(source)
    <3> DEFINE old == [n \in DOMAIN toks |->
                          [toks[n] EXCEPT !.live = @ /\ toks[n].file # source.file]]
    <3>1. toks' = Append(old, Lexed(source))
      BY <2>4 DEF LexMiss
    <3>2. \A n \in 1 .. Len(toks) : toks[n] \in Tokens
      BY <1>1
    <3>3. ASSUME NEW n \in 1 .. Len(toks)
          PROVE  /\ old[n] \in Tokens /\ old[n].file = toks[n].file
                 /\ old[n].text = toks[n].text /\ old[n].flags = toks[n].flags
      <4>1. DOMAIN toks = 1 .. Len(toks)
        BY <1>1
      <4>2. (toks[n].live /\ toks[n].file # source.file) \in BOOLEAN
        OBVIOUS
      <4> QED
        BY <3>2, <4>1, <4>2 DEF Tokens
    <3>4. old \in Seq(Tokens) /\ Len(old) = Len(toks)
      <4>1. DOMAIN toks = 1 .. Len(toks) /\ Len(toks) \in Nat
        BY <1>1
      <4>2. old \in [1 .. Len(toks) -> Tokens]
        BY <3>3, <4>1
      <4> HIDE DEF old
      <4>3. old \in Seq(Tokens)
        BY <4>1, <4>2, SeqDef
      <4> QED
        BY <4>1, <4>2, <4>3, LenProperties
    <3>5. cache' \in [Feed -> Slot \cup {None}]
      BY <2>4, <1>1, <1>2 DEF LexMiss, Slot, SourceOf
    <3> HIDE DEF old
    <3> QED
      BY <3>1, <3>3, <3>4, <3>5, <2>1 DEF Lexed
  <2> QED
    BY <2>2, <2>3, <2>4, <1>1, <1>a DEF LexSource
<1>4. toks' \in Seq(Tokens) /\ Len(toks') = at
  BY <1>1, <1>3, AppendProperties
<1>5. ASSUME NEW n \in 1 .. Len(toks')
      PROVE  /\ toks'[n].file = sources[n].file /\ toks'[n].text = sources[n].text
             /\ toks'[n].flags = flags
  <2>1. CASE n = at
    BY <2>1, <1>1, <1>3, AppendProperties
  <2>2. CASE n # at
    <3>1. n \in 1 .. Len(toks) /\ toks'[n] = old[n]
      BY <2>2, <1>1, <1>3, <1>4, AppendProperties
    <3> QED
      BY <3>1, <1>1, <1>3 DEF Inv, LexedSoFar
  <2> QED
    BY <2>1, <2>2
<1>6. /\ phase' = "lex" /\ at' \in 1 .. Len(sources) + 1 /\ Len(toks') = at' - 1
      /\ cache' \in [Feed -> Slot \cup {None}]
      /\ UNCHANGED <<sources, flags>>
  BY <1>1, <1>3, <1>4
<1>7. /\ flags \in Flags /\ sources \in Seq(SourceOf(File)) /\ Len(sources) >= 1
      /\ \A n \in 2 .. Len(sources) : sources[n].file \in Feed
  BY <1>1 DEF Inv, LexedSoFar
<1> HIDE DEF source
<1> QED
  BY <1>4, <1>5, <1>6, <1>7 DEF LexedSoFar

(* Outside the lexing loop only the parser's position moves.                 *)
LEMMA LexedStays ==
    ASSUME LexedSoFar, UNCHANGED <<lex, request>>, phase # "lex",
           phase' = phase \/ (phase = "parse" /\ phase' = "check")
    PROVE  LexedSoFar'
BY DEF LexedSoFar, lex, request

LEMMA HeldStays ==
    ASSUME Held, UNCHANGED diag PROVE Held'
BY DEF Held, diag

LEMMA AbortInv ==
    ASSUME Inv, NEW file \in File, Abort(file) PROVE Inv'
<1>1. Held' /\ marks' = <<>>
  BY ErrorTyped, FatalHeld DEF Inv, Abort
<1> QED
  BY <1>1 DEF Inv, Abort, Running, LexedSoFar, lex, request, Phase

(* One step of an analysis keeps the reporter, the tokens and the pass that   *)
(* runs in agreement.                                                        *)
LEMMA InvStep ==
    ASSUME Inv, [Next]_vars PROVE Inv'
<1>1. ASSUME NEW text \in Text, NEW extra \in Extras, NEW fl \in Flags, analyze(text, extra, fl)
      PROVE  Inv'
  <2>1. Held'
    BY <1>1 DEF analyze, diag_reset_counts, Held
  <2>2. extra \in Seq([file : Feed, text : Text])
    <3>1. PICK n \in Nat : extra \in [1 .. n -> [file : Feed, text : Text]]
      BY AnalyzeAssumption DEF Extras
    <3> QED
      BY <3>1, SeqDef
  <2>3. /\ sources' \in Seq(SourceOf(File)) /\ Len(sources') = 1 + Len(extra)
        /\ \A n \in 2 .. Len(sources') : sources'[n].file \in Feed
    <3> DEFINE first == [file |-> Primary, text |-> text]
    <3>1. sources' = <<first>> \o extra /\ first \in SourceOf(File)
      BY <1>1 DEF analyze, SourceOf, File
    <3>2. extra \in Seq(SourceOf(File))
      <4>1. \A n \in 1 .. Len(extra) : extra[n] \in SourceOf(File)
        <5>1. ASSUME NEW n \in 1 .. Len(extra) PROVE extra[n] \in SourceOf(File)
          <6>1. extra[n] \in [file : Feed, text : Text]
            BY <2>2, ElementOfSeq
          <6> QED
            BY <6>1 DEF SourceOf, File
        <5> QED
          BY <5>1
      <4>2. extra \in [1 .. Len(extra) -> SourceOf(File)] /\ Len(extra) \in Nat
        BY <4>1, <2>2, LenProperties
      <4> QED
        BY <4>2, SeqDef
    <3>3. \A n \in 2 .. 1 + Len(extra) : sources'[n] = extra[n - 1] /\ n - 1 \in 1 .. Len(extra)
      BY <3>1, <2>2
    <3>4. ASSUME NEW n \in 1 .. Len(extra) PROVE extra[n].file \in Feed
      <4>1. extra[n] \in [file : Feed, text : Text]
        BY <2>2, ElementOfSeq
      <4> QED
        BY <4>1
    <3> HIDE DEF first
    <3>5. sources' \in Seq(SourceOf(File)) /\ Len(sources') = 1 + Len(extra)
      BY <3>1, <3>2
    <3> QED
      BY <3>3, <3>4, <3>5
  <2>4. LexedSoFar'
    BY <1>1, <2>2, <2>3 DEF analyze, LexedSoFar, Inv
  <2> QED
    BY <1>1, <2>1, <2>4, AnalyzeAssumption DEF analyze, Inv, Running, Phase
<1>2. ASSUME LexSource
      PROVE  Inv'
  <2>1. CASE Abort(sources[at].file)
    <3>1. sources[at].file \in File
      <4>1. phase # "idle" /\ at \in 1 .. Len(sources)
        BY <1>2 DEF LexSource, Inv, LexedSoFar
      <4> QED
        BY <4>1, SourceTyped
    <3> QED
      BY <2>1, <3>1, AbortInv
  <2>2. CASE at' = at + 1 /\ UNCHANGED <<diag, note, typed, request, phase, raised>>
    <3>1. LexedSoFar'
      BY <1>2, <2>2, LexSourceInv DEF request
    <3>2. Held'
      BY <2>2 DEF Inv, diag, Held
    <3>3. phase = "lex" /\ marks = <<>> /\ at \in Nat
      BY <1>2 DEF LexSource, Inv, Running
    <3> QED
      BY <2>2, <3>1, <3>2, <3>3 DEF Inv, diag, Running, request
  <2> QED
    BY <1>2, <2>1, <2>2 DEF LexSource
<1>3. ASSUME ParseFiles
      PROVE  Inv'
  BY <1>3 DEF ParseFiles, Inv, Held, LexedSoFar, Running, diag, lex, request, Phase
<1>4. ASSUME SyntaxError
      PROVE  Inv'
  <2>1. sources[at].file \in File
    <3>1. at \in Nat /\ at <= Len(sources) /\ phase # "idle" /\ at # 0
      BY <1>4 DEF SyntaxError, Parsing, Inv, Running
    <3> QED
      BY <3>1, SourceTyped
  <2>2. Held' /\ UNCHANGED marks
    BY <1>4, <2>1, ErrorTyped, ErrorHeld DEF Inv, SyntaxError, diag_error
  <2> QED
    <3>1. LexedSoFar'
      BY <1>4, LexedStays DEF SyntaxError, Parsing, Inv
    <3>2. Running'
      BY <1>4, <2>2, AnalyzeAssumption DEF SyntaxError, Parsing, Inv, Running, request
    <3> QED
      BY <2>2, <3>1, <3>2 DEF Inv
<1>5. ASSUME Speculate
      PROVE  Inv'
  <2>1. Held' /\ LexedSoFar'
    BY <1>5, BeginHeld, LexedStays DEF Speculate, Parsing, Inv
  <2>2. Running'
    BY <1>5 DEF Speculate, Parsing, Inv, Running, request
  <2> QED
    BY <2>1, <2>2 DEF Inv
<1>6. ASSUME NEW keep \in BOOLEAN, Decide(keep)
      PROVE  Inv'
  <2>1. Held' /\ LexedSoFar'
    BY <1>6, EndHeld, LexedStays DEF Decide, Parsing, Inv
  <2>2. Running'
    BY <1>6 DEF Decide, Parsing, Inv, Running, request
  <2> QED
    BY <2>1, <2>2 DEF Inv
<1>7. ASSUME ParseNext
      PROVE  Inv'
  <2>1. Held' /\ LexedSoFar'
    BY <1>7, HeldStays, LexedStays DEF ParseNext, Parsing, Inv
  <2>2. Running'
    BY <1>7 DEF ParseNext, Parsing, Inv, Running, diag, Held
  <2> QED
    BY <2>1, <2>2 DEF Inv
<1>8. ASSUME CheckProgram
      PROVE  Inv'
  <2>1. Held' /\ LexedSoFar'
    BY <1>8, HeldStays, LexedStays DEF CheckProgram, Inv
  <2>2. Running'
    BY <1>8 DEF CheckProgram, Inv, Running, diag, Held, Phase, request
  <2> QED
    BY <2>1, <2>2 DEF Inv
<1>9. ASSUME NEW file \in Merged, TypeError(file)
      PROVE  Inv'
  <2>1. file \in File
    BY <1>9, MergedFile DEF TypeError
  <2>2. Held' /\ UNCHANGED marks
    BY <1>9, <2>1, ErrorTyped, ErrorHeld DEF Inv, TypeError, diag_error
  <2> QED
    <3>1. LexedSoFar'
      BY <1>9, LexedStays DEF TypeError, Inv
    <3>2. Running'
      BY <1>9, <2>2, AnalyzeAssumption DEF TypeError, Inv, Running, request
    <3> QED
      BY <2>2, <3>1, <3>2 DEF Inv
<1>10. ASSUME NEW file \in Merged, InternalError(file)
       PROVE  Inv'
  <2>1. file \in File
    BY <1>10, MergedFile DEF InternalError
  <2> QED
    BY <1>10, <2>1, AbortInv DEF InternalError
<1>11. ASSUME Checked
       PROVE  Inv'
  BY <1>11 DEF Checked, Inv, Held, LexedSoFar, Running, diag, lex, request, Phase
<1>12. CASE UNCHANGED vars
  BY <1>12 DEF vars, Inv, Held, LexedSoFar, Running, diag, lex, request
<1> QED
  BY <1>1, <1>2, <1>3, <1>4, <1>5, <1>6, <1>7, <1>8, <1>9, <1>10, <1>11, <1>12 DEF Next

LEMMA InvInit ==
    ASSUME Init PROVE Inv
BY AnalyzeAssumption DEF Init, Inv, Held, LexedSoFar, Running, Phase

(* diag_error_count() is what the editor is shown, and nothing is held when   *)
(* no speculation is open.                                                   *)
THEOREM ErrorsAreReported == Spec => []NothingWithheld
<1>1. Inv => NothingWithheld
  BY DEF Inv, Held, NothingWithheld
<1> QED
  BY <1>1, InvInit, InvStep, PTL DEF Spec

(* Cached or not, the parser's tokens are those of the sources it was given.  *)
THEOREM CacheIsTransparent == Spec => []TokensCurrent
<1>1. Inv => TokensCurrent
  BY DEF Inv, LexedSoFar, TokensCurrent
<1> QED
  BY <1>1, InvInit, InvStep, PTL DEF Spec

-----------------------------------------------------------------------------
(* The marks cut the held buffer into the contract's nested buffers.         *)

(* A slice depends on nothing beyond its end.                                *)
LEMMA SamePrefix ==
    ASSUME NEW S, NEW s \in Seq(S), NEW t \in Seq(S), NEW n \in Nat,
           n <= Len(s), n <= Len(t), \A i \in 1 .. n : s[i] = t[i],
           NEW m \in Nat
    PROVE  SubSeq(s, m + 1, n) = SubSeq(t, m + 1, n)
<1> DEFINE a == m + 1
<1>1. \A i \in a .. n : s[i] \in S /\ t[i] \in S /\ s[i] = t[i]
  BY ElementOfSeq
<1>2. /\ SubSeq(s, a, n) \in Seq(S) /\ SubSeq(t, a, n) \in Seq(S)
      /\ Len(SubSeq(s, a, n)) = (IF a <= n THEN n - a + 1 ELSE 0)
      /\ Len(SubSeq(t, a, n)) = (IF a <= n THEN n - a + 1 ELSE 0)
      /\ \A i \in 1 .. n - a + 1 : SubSeq(s, a, n)[i] = s[a + i - 1]
                                 /\ SubSeq(t, a, n)[i] = t[a + i - 1]
  BY <1>1, SubSeqProperties
<1>3. ASSUME NEW i \in 1 .. Len(SubSeq(s, a, n))
      PROVE  SubSeq(s, a, n)[i] = SubSeq(t, a, n)[i]
  <2>1. a <= n /\ i \in 1 .. n - a + 1 /\ a + i - 1 \in a .. n
    BY <1>2
  <2> QED
    BY <2>1, <1>1, <1>2
<1> QED
  BY <1>2, <1>3, SeqEqual

Upto(k) == IF k = Len(marks) THEN Len(g_held) ELSE marks[k + 1]

FramesOK ==
    /\ Frames \in Seq(Seq(Error)) /\ Len(Frames) = Len(marks)
    /\ \A k \in 1 .. Len(marks) :
          /\ marks[k] \in Nat /\ Upto(k) \in Nat /\ marks[k] <= Upto(k)
          /\ Upto(k) <= Len(g_held)
          /\ Frames[k] = SubSeq(g_held, marks[k] + 1, Upto(k))

LEMMA FramesTyped == Held => FramesOK
<1> SUFFICES ASSUME Held PROVE FramesOK
  OBVIOUS
<1>1. ASSUME NEW k \in 1 .. Len(marks)
      PROVE  /\ marks[k] \in Nat /\ Upto(k) \in Nat /\ marks[k] <= Upto(k)
             /\ Upto(k) <= Len(g_held)
             /\ Frames[k] = SubSeq(g_held, marks[k] + 1, Upto(k)) /\ Frames[k] \in Seq(Error)
  <2>1. marks[k] \in Nat /\ Upto(k) \in Nat /\ marks[k] <= Upto(k) /\ Upto(k) <= Len(g_held)
    BY DEF Held, Upto
  <2>2. Frames[k] = SubSeq(g_held, marks[k] + 1, Upto(k))
    BY DEF Frames, HeldBy, Upto
  <2>3. \A i \in marks[k] + 1 .. Upto(k) : g_held[i] \in Error
    BY <2>1, ElementOfSeq DEF Held
  <2> QED
    BY <2>1, <2>2, <2>3, SubSeqProperties
<1>2. Len(marks) \in Nat /\ Frames \in [1 .. Len(marks) -> Seq(Error)]
  BY <1>1 DEF Frames, Held
<1>3. Frames \in Seq(Seq(Error))
  BY <1>2, SeqDef
<1> QED
  BY <1>1, <1>2, <1>3, LenProperties DEF FramesOK

LEMMA NoFrames ==
    ASSUME Held, marks = <<>> PROVE Frames = <<>>
BY FramesTyped, EmptySeq DEF FramesOK

LEMMA BeginContract ==
    ASSUME Held, diag_speculate_begin PROVE Contract!Begin
<1> DEFINE d == Len(marks)
<1>0. Held' /\ d \in Nat
  BY BeginHeld DEF Held
<1>1. /\ marks' = Append(marks, Len(g_held)) /\ g_held' = g_held /\ diags' = diags
      /\ Len(marks') = d + 1 /\ \A k \in 1 .. d : marks'[k] = marks[k]
      /\ marks'[d + 1] = Len(g_held)
  BY DEF diag_speculate_begin, Held
<1>f. FramesOK /\ FramesOK'
  BY <1>0, FramesTyped, PTL
<1>2. /\ Frames' \in Seq(Seq(Error)) /\ Len(Frames') = d + 1
      /\ \A k \in 1 .. d + 1 : Frames'[k] = SubSeq(g_held, marks'[k] + 1, Upto(k)')
  BY <1>1, <1>f DEF FramesOK
<1>3. ASSUME NEW k \in 1 .. d
      PROVE  Frames'[k] = Frames[k]
  <2>1. Upto(k)' = IF k = d + 1 THEN Len(g_held') ELSE marks'[k + 1]
    BY <1>1 DEF Upto
  <2>2. Upto(k)' = Upto(k)
    BY <1>0, <1>1, <2>1 DEF Upto
  <2>3. Frames'[k] = SubSeq(g_held, marks'[k] + 1, Upto(k)') /\ marks'[k] = marks[k]
    BY <1>0, <1>1, <1>2
  <2>4. Frames[k] = SubSeq(g_held, marks[k] + 1, Upto(k))
    BY <1>f DEF FramesOK
  <2> QED
    BY <2>2, <2>3, <2>4
<1>4. Frames'[d + 1] = <<>>
  <2> SUFFICES ASSUME NEW n, n = d + 1 PROVE Frames'[n] = <<>>
    OBVIOUS
  <2>1. Upto(n)' = Len(g_held) /\ Len(g_held) \in Nat
    BY <1>1 DEF Upto, Held
  <2>2. Frames'[n] = SubSeq(g_held, Len(g_held) + 1, Len(g_held))
    BY <1>0, <1>1, <1>2, <2>1
  <2> QED
    BY <2>1, <2>2, SubSeqEmpty
<1>5. Frames' = Append(Frames, <<>>)
  <2>1. <<>> \in Seq(Error)
    BY EmptySeq
  <2>2. /\ Append(Frames, <<>>) \in Seq(Seq(Error)) /\ Len(Append(Frames, <<>>)) = d + 1
        /\ \A k \in 1 .. d : Append(Frames, <<>>)[k] = Frames[k]
        /\ Append(Frames, <<>>)[d + 1] = <<>>
    BY <2>1, <1>f, AppendProperties DEF FramesOK
  <2>3. \A k \in 1 .. d + 1 : Frames'[k] = Append(Frames, <<>>)[k]
    BY <1>0, <1>3, <1>4, <2>2
  <2> QED
    BY <1>2, <2>2, <2>3, SeqEqual
<1> QED
  BY <1>1, <1>5 DEF Contract!Begin

(* Front and Last of a non-empty sequence, by index.                         *)
LEMMA FrontLast ==
    ASSUME NEW S, NEW s \in Seq(S), s # <<>>
    PROVE  /\ Front(s) \in Seq(S) /\ Len(Front(s)) = Len(s) - 1
           /\ \A k \in 1 .. Len(s) - 1 : Front(s)[k] = s[k]
           /\ Len(s) \in Nat /\ Len(s) >= 1 /\ Last(s) = s[Len(s)] /\ Last(s) \in S
<1>1. PICK d \in Nat : d >= 1 /\ Len(s) = d
  BY EmptySeq
<1>2. ASSUME NEW i \in 1 .. d - 1 PROVE s[i] \in S
  BY <1>1, ElementOfSeq
<1>3. /\ SubSeq(s, 1, d - 1) \in Seq(S)
      /\ Len(SubSeq(s, 1, d - 1)) = IF 1 <= d - 1 THEN d - 1 - 1 + 1 ELSE 0
      /\ \A i \in 1 .. d - 1 - 1 + 1 : SubSeq(s, 1, d - 1)[i] = s[1 + i - 1]
  BY <1>1, <1>2, SubSeqProperties
<1>4. Front(s) = SubSeq(s, 1, d - 1) /\ Last(s) = s[d]
  BY <1>1 DEF Front, Last
<1>5. s[d] \in S
  BY <1>1, ElementOfSeq
<1>6. ASSUME NEW k \in 1 .. d - 1 PROVE Front(s)[k] = s[k]
  <2>1. k \in 1 .. d - 1 - 1 + 1 /\ 1 + k - 1 = k
    BY <1>1
  <2> QED
    BY <2>1, <1>3, <1>4
<1>7. Len(Front(s)) = d - 1
  BY <1>1, <1>3, <1>4
<1> QED
  BY <1>1, <1>3, <1>4, <1>5, <1>6, <1>7

(* A sequence that agrees with s except in its last element.                 *)
LEMMA ReplaceLast ==
    ASSUME NEW S, NEW s \in Seq(S), NEW t \in Seq(S), NEW d \in Nat, d >= 1,
           Len(s) = d, Len(t) = d, \A k \in 1 .. d - 1 : t[k] = s[k]
    PROVE  t = Front(s) \o <<t[d]>>
<1> DEFINE u == Front(s) \o <<t[d]>>
<1>0. s # <<>>
  BY EmptySeq
<1>1. /\ Front(s) \in Seq(S) /\ Len(Front(s)) = d - 1
      /\ \A k \in 1 .. d - 1 : Front(s)[k] = s[k]
  BY <1>0, FrontLast
<1>2. t[d] \in S
  BY ElementOfSeq
<1>3. <<t[d]>> \in Seq(S) /\ Len(<<t[d]>>) = 1 /\ <<t[d]>>[1] = t[d]
  BY <1>2
<1>4. u \in Seq(S) /\ Len(u) = d
  BY <1>1, <1>3
<1>5. ASSUME NEW k \in 1 .. d PROVE t[k] = u[k]
  <2>1. CASE k = d
    BY <1>1, <1>3, <2>1
  <2>2. CASE k # d
    <3>1. k \in 1 .. d - 1
      BY <2>2
    <3>2. u[k] = Front(s)[k]
      BY <1>1, <1>3, <3>1
    <3> QED
      BY <1>1, <3>1, <3>2
  <2> QED
    BY <2>1, <2>2
<1> HIDE DEF u
<1>6. t = u
  BY <1>4, <1>5, SeqEqual
<1> QED
  BY <1>6 DEF u

LEMMA DropLast ==
    ASSUME NEW S, NEW s \in Seq(S), NEW t \in Seq(S), NEW d \in Nat, d >= 1,
           Len(s) = d, Len(t) = d - 1, \A k \in 1 .. d - 1 : t[k] = s[k]
    PROVE  t = Front(s)
<1>0. s # <<>>
  BY EmptySeq
<1>1. /\ Front(s) \in Seq(S) /\ Len(Front(s)) = d - 1
      /\ \A k \in 1 .. d - 1 : Front(s)[k] = s[k]
  BY <1>0, FrontLast
<1> QED
  BY <1>1, SeqEqual

(* Slices before, and up to, an element appended.                            *)
LEMMA AppendSlices ==
    ASSUME NEW S, NEW s \in Seq(S), NEW e \in S, NEW m \in Nat
    PROVE  /\ \A n \in Nat : n <= Len(s) =>
                  SubSeq(Append(s, e), m + 1, n) = SubSeq(s, m + 1, n)
           /\ m <= Len(s) => SubSeq(Append(s, e), m + 1, Len(Append(s, e)))
                                = SubSeq(s, m + 1, Len(s)) \o <<e>>
<1>0. PICK len \in Nat : Len(s) = len
  BY EmptySeq
<1>1. /\ Append(s, e) \in Seq(S) /\ Len(Append(s, e)) = len + 1
      /\ \A i \in 1 .. len : Append(s, e)[i] = s[i]
      /\ Append(s, e)[len + 1] = e
  BY <1>0, AppendProperties
<1>2. ASSUME NEW n \in Nat, n <= len
      PROVE  SubSeq(Append(s, e), m + 1, n) = SubSeq(s, m + 1, n)
  <2>1. n <= Len(s) /\ n <= Len(Append(s, e)) /\ \A i \in 1 .. n : Append(s, e)[i] = s[i]
    BY <1>0, <1>1, <1>2
  <2> QED
    BY <1>1, <2>1, SamePrefix
<1>3. ASSUME m <= len
      PROVE  SubSeq(Append(s, e), m + 1, len + 1) = SubSeq(s, m + 1, len) \o <<e>>
  <2>1. m + 1 \in 1 .. len + 1 /\ len + 1 \in m + 1 .. len + 1 /\ len + 1 - 1 = len
    BY <1>3
  <2>2. SubSeq(Append(s, e), m + 1, len + 1)
          = SubSeq(Append(s, e), m + 1, len + 1 - 1) \o <<Append(s, e)[len + 1]>>
    BY <1>1, <2>1, SubSeqRecursiveSecond
  <2> QED
    BY <1>1, <1>2, <2>1, <2>2
<1> QED
  BY <1>0, <1>1, <1>2, <1>3

LEMMA PrefixSlices ==
    ASSUME NEW S, NEW s \in Seq(S), NEW p \in Nat, p <= Len(s), NEW m \in Nat
    PROVE  /\ SubSeq(s, 1, p) \in Seq(S) /\ Len(SubSeq(s, 1, p)) = p
           /\ \A n \in Nat : n <= p =>
                 SubSeq(SubSeq(s, 1, p), m + 1, n) = SubSeq(s, m + 1, n)
<1>0. PICK len \in Nat : Len(s) = len
  BY EmptySeq
<1>1. \A i \in 1 .. p : s[i] \in S
  BY <1>0, ElementOfSeq
<1>2. /\ SubSeq(s, 1, p) \in Seq(S) /\ Len(SubSeq(s, 1, p)) = IF 1 <= p THEN p - 1 + 1 ELSE 0
      /\ \A i \in 1 .. p - 1 + 1 : SubSeq(s, 1, p)[i] = s[1 + i - 1]
  BY <1>1, SubSeqProperties
<1>3. Len(SubSeq(s, 1, p)) = p
  BY <1>2
<1>4. ASSUME NEW i \in 1 .. p PROVE SubSeq(s, 1, p)[i] = s[i]
  <2>1. i \in 1 .. p - 1 + 1 /\ 1 + i - 1 = i
    OBVIOUS
  <2> QED
    BY <1>2, <2>1
<1>5. ASSUME NEW n \in Nat, n <= p
      PROVE  SubSeq(SubSeq(s, 1, p), m + 1, n) = SubSeq(s, m + 1, n)
  <2>1. \A i \in 1 .. n : SubSeq(s, 1, p)[i] = s[i]
    BY <1>4, <1>5
  <2>2. n <= Len(SubSeq(s, 1, p)) /\ n <= Len(s)
    BY <1>0, <1>3, <1>5
  <2> QED
    BY <1>2, <2>1, <2>2, SamePrefix
<1> QED
  BY <1>2, <1>3, <1>5

(* The contract's own copies of these operators.                             *)
LEMMA ContractFrontLast ==
    ASSUME NEW s PROVE Contract!Front(s) = Front(s) /\ Contract!Last(s) = Last(s)
BY DEF Contract!Front, Front, Contract!Last, Last

-----------------------------------------------------------------------------
(* An error held extends the last buffer only.                               *)
LEMMA ErrorContract ==
    ASSUME Held, NEW e \in Error, diag_error(e) PROVE Contract!Raise(e)
<1>0. /\ Held' /\ g_held \in Seq(Error) /\ UNCHANGED marks
      /\ g_speculation_depth = Len(marks) /\ Len(marks) \in Nat /\ Len(g_held) \in Nat
  BY ErrorHeld DEF Held, diag_error
<1>f. FramesOK /\ FramesOK'
  BY <1>0, FramesTyped, PTL
<1>1. CASE marks = <<>>
  <2>1. Frames = <<>> /\ Frames' = <<>>
    BY <1>0, <1>1, <1>f, EmptySeq DEF FramesOK
  <2>2. diags' = diags \o <<e>>
    BY <1>1 DEF diag_error, report, Held
  <2> QED
    BY <2>1, <2>2 DEF Contract!Raise, Contract!Pass
<1>2. CASE marks # <<>>
  <2>1. PICK d \in Nat : d >= 1 /\ Len(marks) = d
    BY <1>0, <1>2, EmptySeq DEF Held
  <2>2. g_held' = Append(g_held, e) /\ UNCHANGED diags
    BY <1>0, <2>1 DEF diag_error
  <2>3. /\ Frames \in Seq(Seq(Error)) /\ Frames' \in Seq(Seq(Error))
        /\ Len(Frames) = d /\ Len(Frames') = d
    BY <1>0, <1>f, <2>1 DEF FramesOK
  <2>4. Frames # <<>>
    BY <2>1, <2>3, EmptySeq
  <2>5. ASSUME NEW k \in 1 .. d
        PROVE  /\ Frames[k] = SubSeq(g_held, marks[k] + 1, Upto(k))
               /\ Frames'[k] = SubSeq(g_held', marks[k] + 1, Upto(k)')
               /\ marks[k] \in Nat /\ Upto(k) \in Nat /\ marks[k] <= Upto(k)
               /\ Upto(k) <= Len(g_held)
    BY <1>0, <1>f, <2>1 DEF FramesOK
  <2>6. ASSUME NEW k \in 1 .. d - 1
        PROVE  Frames'[k] = Frames[k]
    <3>1. Upto(k)' = Upto(k) /\ k \in 1 .. d
      BY <1>0, <2>1 DEF Upto
    <3>2. PICK m \in Nat, n \in Nat : marks[k] = m /\ Upto(k) = n /\ n <= Len(g_held)
      BY <2>5, <3>1
    <3>3. /\ Frames[k] = SubSeq(g_held, m + 1, n)
          /\ Frames'[k] = SubSeq(Append(g_held, e), m + 1, n)
      BY <2>2, <2>5, <3>1, <3>2
    <3>4. SubSeq(Append(g_held, e), m + 1, n) = SubSeq(g_held, m + 1, n)
      BY <1>0, <3>2, AppendSlices
    <3> QED
      BY <3>3, <3>4
  <2>7. Frames'[d] = Frames[d] \o <<e>>
    <3>1. Upto(d) = Len(g_held) /\ Upto(d)' = Len(g_held') /\ d \in 1 .. d
      BY <1>0, <2>1 DEF Upto
    <3>2. PICK m \in Nat : marks[d] = m /\ m <= Len(g_held)
      BY <2>5, <3>1
    <3>3. /\ Frames[d] = SubSeq(g_held, m + 1, Len(g_held))
          /\ Frames'[d] = SubSeq(Append(g_held, e), m + 1, Len(Append(g_held, e)))
      BY <2>2, <2>5, <3>1, <3>2
    <3>4. SubSeq(Append(g_held, e), m + 1, Len(Append(g_held, e)))
            = SubSeq(g_held, m + 1, Len(g_held)) \o <<e>>
      BY <1>0, <3>2, AppendSlices
    <3> QED
      BY <3>3, <3>4
  <2>8. Frames' = Front(Frames) \o <<Frames'[d]>>
    BY <2>1, <2>3, <2>6, ReplaceLast
  <2>9. Last(Frames) = Frames[d]
    BY <2>3, <2>4, FrontLast
  <2> QED
    BY <2>2, <2>4, <2>7, <2>8, <2>9, ContractFrontLast DEF Contract!Raise, Contract!Pass
<1> QED
  BY <1>1, <1>2

(* Ending a speculation merges its buffer upwards or forgets it.             *)
LEMMA EndContract ==
    ASSUME Held, marks # <<>>, NEW keep \in BOOLEAN,
           diag_speculate_end(Last(marks), keep), marks' = Front(marks)
    PROVE  IF keep THEN Contract!Keep ELSE Contract!Drop
<1>0. PICK d \in Nat, len \in Nat : d >= 1 /\ Len(marks) = d /\ Len(g_held) = len
  BY EmptySeq DEF Held
<1>1. /\ Held' /\ g_held \in Seq(Error) /\ diags \in Seq(Error)
      /\ g_speculation_depth = d /\ marks[1] = 0
  BY <1>0, EndHeld DEF Held
<1>f. FramesOK /\ FramesOK'
  BY <1>1, FramesTyped, PTL
<1>2. /\ Last(marks) = marks[d] /\ Len(marks') = d - 1
      /\ \A k \in 1 .. d - 1 : marks'[k] = marks[k]
  BY <1>0, FrontLast DEF Held
<1>3. PICK mark \in Nat : marks[d] = mark /\ mark <= len
  BY <1>0, <1>f DEF Held, FramesOK
<1>4. /\ Frames \in Seq(Seq(Error)) /\ Frames' \in Seq(Seq(Error))
      /\ Len(Frames) = d /\ Len(Frames') = d - 1 /\ Frames # <<>>
  BY <1>0, <1>2, <1>f, EmptySeq DEF FramesOK
<1>5. ASSUME NEW k \in 1 .. d
      PROVE  /\ Frames[k] = SubSeq(g_held, marks[k] + 1, Upto(k))
             /\ marks[k] \in Nat /\ Upto(k) \in Nat /\ marks[k] <= Upto(k)
  BY <1>0, <1>f DEF FramesOK
<1>6. ASSUME NEW k \in 1 .. d - 1
      PROVE  Frames'[k] = SubSeq(g_held', marks[k] + 1, Upto(k)') /\ Upto(k) = marks[k + 1]
  <2>1. k \in 1 .. Len(marks') /\ marks'[k] = marks[k] /\ k # d
    BY <1>0, <1>2
  <2>2. Upto(k) = marks[k + 1]
    BY <1>0, <2>1 DEF Upto
  <2>3. Frames'[k] = SubSeq(g_held', marks'[k] + 1, Upto(k)')
    BY <1>f, <2>1 DEF FramesOK
  <2> QED
    BY <2>1, <2>2, <2>3
<1>7. /\ Last(Frames) = Frames[d] /\ Frames[d] = SubSeq(g_held, mark + 1, len)
      /\ Last(Frames) \in Seq(Error)
  <2>1. Last(Frames) = Frames[d] /\ Last(Frames) \in Seq(Error)
    BY <1>4, FrontLast
  <2>2. Upto(d) = len /\ d \in 1 .. d
    BY <1>0 DEF Upto
  <2> QED
    BY <1>3, <1>5, <2>1, <2>2
<1>8. CASE d = 1
  <2>1. Front(Frames) = <<>> /\ Frames' = <<>>
    BY <1>4, <1>8, FrontLast, EmptySeq
  <2>2. diags' = diags \o Remaining(mark, keep) /\ mark = 0
    BY <1>1, <1>2, <1>3, <1>8 DEF diag_speculate_end, report
  <2>3. CASE keep
    <3>1. Frames[d] = g_held
      BY <1>0, <1>1, <1>7, <2>2, SubSeqFull
    <3>2. Contract!Pass(Front(Frames), Last(Frames))
      BY <1>7, <2>1, <2>2, <2>3, <3>1 DEF Contract!Pass, Remaining
    <3> QED
      BY <1>4, <2>3, <3>2, ContractFrontLast DEF Contract!Keep
  <2>4. CASE ~keep
    <3>1. Remaining(mark, keep) = <<>>
      BY <2>2, <2>4, SubSeqEmpty DEF Remaining
    <3>2. diags' = diags
      BY <1>1, <2>2, <3>1, ConcatEmptySeq
    <3> QED
      BY <1>4, <2>1, <2>4, <3>2, ContractFrontLast DEF Contract!Drop
  <2> QED
    BY <2>3, <2>4
<1>9. CASE d # 1
  <2>1. g_held' = Remaining(mark, keep) /\ UNCHANGED diags
    BY <1>1, <1>2, <1>3, <1>9 DEF diag_speculate_end
  <2>2. PICK c \in Nat : c >= 1 /\ d = c + 1 /\ d - 1 = c
    BY <1>0, <1>9
  <2>3. Upto(c)' = Len(g_held') /\ Upto(c) = mark /\ c \in 1 .. d /\ c \in 1 .. d - 1
    BY <1>0, <1>2, <1>3, <2>2 DEF Upto
  <2>4. ASSUME NEW k \in 1 .. c - 1
        PROVE  Upto(k)' = Upto(k) /\ Upto(k) <= mark /\ k \in 1 .. d /\ k \in 1 .. d - 1
    <3>1. k \in 1 .. d /\ k \in 1 .. d - 1 /\ k + 1 \in 1 .. d - 1 /\ k + 1 \in 1 .. d
      BY <2>2
    <3>2. Upto(k) = marks[k + 1] /\ Upto(k)' = marks[k + 1]
      BY <1>0, <1>2, <2>2, <3>1 DEF Upto
    <3>3. marks[k + 1] <= marks[d]
      BY <1>0, <3>1 DEF Held
    <3> QED
      BY <1>3, <3>1, <3>2, <3>3
  <2>5. CASE keep
    <3>1. g_held' = g_held
      BY <2>1, <2>5 DEF Remaining
    <3>2. ASSUME NEW k \in 1 .. c - 1
          PROVE  Frames'[k] = Front(Frames)[k]
      <4>1. Front(Frames)[k] = Frames[k]
        BY <1>4, <2>4, FrontLast
      <4> QED
        BY <1>5, <1>6, <2>4, <3>1, <4>1
    <3>3. Frames'[c] = Front(Frames)[c] \o Last(Frames)
      <4>1. /\ Frames[c] = SubSeq(g_held, marks[c] + 1, mark) /\ marks[c] \in Nat
            /\ marks[c] <= mark /\ Frames'[c] = SubSeq(g_held, marks[c] + 1, len)
        BY <1>0, <1>5, <1>6, <2>3, <3>1
      <4>2. PICK m \in Nat : marks[c] = m
        BY <4>1
      <4>3. SubSeq(g_held, m + 1, mark) \o SubSeq(g_held, mark + 1, len)
              = SubSeq(g_held, m + 1, len)
        <5>1. m + 1 \in 1 .. len + 1 /\ mark \in m + 1 - 1 .. len /\ len \in mark .. len
          BY <1>3, <4>1, <4>2
        <5> QED
          BY <1>0, <1>1, <5>1, ConcatAdjacentSubSeq
      <4>4. Front(Frames)[c] = Frames[c]
        BY <1>4, <2>3, FrontLast
      <4> QED
        BY <1>7, <4>1, <4>2, <4>3, <4>4
    <3>4. Front(Frames) \in Seq(Seq(Error)) /\ Len(Front(Frames)) = c
      BY <1>4, <2>2, FrontLast
    <3>5. Frames' = Front(Front(Frames)) \o <<Frames'[c]>>
      <4>1. Len(Frames') = c /\ \A k \in 1 .. c - 1 : Frames'[k] = Front(Frames)[k]
        BY <1>4, <2>2, <3>2
      <4> QED
        BY <1>4, <2>2, <3>4, <4>1, ReplaceLast
    <3>6. Front(Frames) # <<>>
      BY <2>2, <3>4, EmptySeq
    <3>7. Last(Front(Frames)) = Front(Frames)[c]
      BY <3>4, <3>6, FrontLast
    <3> QED
      BY <1>4, <2>1, <2>5, <3>3, <3>5, <3>6, <3>7, ContractFrontLast DEF Contract!Keep, Contract!Pass
  <2>6. CASE ~keep
    <3>1. g_held' = SubSeq(g_held, 1, mark) /\ Len(g_held') = mark
      BY <1>0, <1>1, <1>3, <2>1, <2>6, PrefixSlices DEF Remaining
    <3>2. ASSUME NEW k \in 1 .. d - 1
          PROVE  Frames'[k] = Frames[k]
      <4>1. Upto(k)' = Upto(k) /\ Upto(k) <= mark /\ k \in 1 .. d
        <5>1. CASE k = c
          BY <2>3, <3>1, <5>1, <1>3
        <5>2. CASE k # c
          BY <2>2, <2>4, <5>2
        <5> QED
          BY <5>1, <5>2
      <4>2. Frames'[k] = SubSeq(SubSeq(g_held, 1, mark), marks[k] + 1, Upto(k))
        BY <1>6, <3>1, <4>1
      <4>3. PICK m \in Nat, n \in Nat : marks[k] = m /\ Upto(k) = n /\ n <= mark
        BY <1>5, <4>1
      <4>4. SubSeq(SubSeq(g_held, 1, mark), m + 1, n) = SubSeq(g_held, m + 1, n)
        BY <1>0, <1>1, <1>3, <4>3, PrefixSlices
      <4> QED
        BY <1>5, <4>1, <4>2, <4>3, <4>4
    <3>3. Frames' = Front(Frames)
      BY <1>0, <1>4, <3>2, DropLast
    <3> QED
      BY <1>4, <2>1, <2>6, <3>3, ContractFrontLast DEF Contract!Drop
  <2> QED
    BY <2>5, <2>6
<1> QED
  BY <1>8, <1>9

(* A fatal error is raised outside every speculation: the lexer runs before   *)
(* the parser, the passes after it.                                          *)
LEMMA FatalContract ==
    ASSUME Held, marks = <<>>, NEW e \in Error, diag_fatal(e)
    PROVE  Contract!Raise(e)
<1>0. Held' /\ marks' = <<>>
  BY FatalHeld
<1>f. FramesOK
  BY FramesTyped
<1>g. FramesOK'
  BY <1>0, FramesTyped, PTL
<1>1. Frames = <<>> /\ Frames' = <<>>
  BY <1>0, <1>f, <1>g, EmptySeq DEF FramesOK
<1>2. g_held = <<>> /\ diags' = diags \o Append(g_held, e)
  BY DEF Held, diag_fatal, report
<1>3. Append(g_held, e) = <<e>>
  BY <1>2
<1> QED
  BY <1>1, <1>2, <1>3 DEF Contract!Raise, Contract!Pass

(* Every step of an analysis is a step of the contract or invisible to it.    *)
LEMMA ContractStep ==
    ASSUME Inv, Inv', [Next]_vars
    PROVE  [Contract!CNext]_(Contract!cvars)
<1>0. Held /\ Held'
  BY DEF Inv
<1>s. ASSUME UNCHANGED diag PROVE UNCHANGED Contract!cvars
  BY <1>s DEF diag, Contract!cvars, Frames, HeldBy
<1>f. ASSUME NEW file \in File, Abort(file), marks = <<>>
      PROVE  Contract!CNext
  BY <1>f, <1>0, ErrorTyped, FatalContract DEF Abort, Inv, Contract!CNext
<1>1. ASSUME NEW text \in Text, NEW extra \in Extras, NEW fl \in Flags, analyze(text, extra, fl)
      PROVE  Contract!CNext
  <2>1. marks' = <<>> /\ diags' = <<>>
    BY <1>1 DEF analyze
  <2>f. FramesOK'
    BY <1>0, FramesTyped, PTL
  <2>2. Frames' = <<>>
    BY <2>1, <2>f, EmptySeq DEF FramesOK
  <2> QED
    BY <2>1, <2>2 DEF Contract!CNext, Contract!Fresh
<1>2. ASSUME LexSource
      PROVE  [Contract!CNext]_(Contract!cvars)
  <2>1. CASE Abort(sources[at].file)
    <3>1. phase = "lex" /\ at \in 1 .. Len(sources) /\ marks = <<>>
      BY <1>2 DEF LexSource, Inv, LexedSoFar, Running
    <3> QED
      BY <2>1, <3>1, <1>f, SourceTyped
  <2>2. CASE UNCHANGED diag
    BY <2>2, <1>s
  <2> QED
    BY <1>2, <2>1, <2>2 DEF LexSource
<1>3. ASSUME SyntaxError
      PROVE  Contract!CNext
  <2>1. sources[at].file \in File
    <3>1. at \in Nat /\ at <= Len(sources) /\ phase # "idle" /\ at # 0
      BY <1>3 DEF SyntaxError, Parsing, Inv, Running
    <3> QED
      BY <3>1, SourceTyped
  <2> QED
    BY <1>0, <1>3, <2>1, ErrorTyped, ErrorContract DEF SyntaxError, Inv, Contract!CNext
<1>4. ASSUME Speculate
      PROVE  Contract!CNext
  BY <1>0, <1>4, BeginContract DEF Speculate, Contract!CNext
<1>5. ASSUME NEW keep \in BOOLEAN, Decide(keep)
      PROVE  Contract!CNext
  BY <1>0, <1>5, EndContract DEF Decide, Contract!CNext
<1>6. ASSUME NEW file \in Merged, TypeError(file)
      PROVE  Contract!CNext
  <2>1. file \in File
    BY <1>6, MergedFile DEF TypeError
  <2> QED
    BY <1>0, <1>6, <2>1, ErrorTyped, ErrorContract DEF TypeError, Inv, Contract!CNext
<1>7. ASSUME NEW file \in Merged, InternalError(file)
      PROVE  Contract!CNext
  <2>1. file \in File /\ marks = <<>>
    BY <1>7, MergedFile DEF InternalError, Inv, Running
  <2> QED
    BY <1>7, <2>1, <1>f DEF InternalError
<1>8. CASE ParseFiles \/ ParseNext \/ CheckProgram \/ Checked \/ UNCHANGED vars
  BY <1>8, <1>s DEF ParseFiles, ParseNext, CheckProgram, Checked, vars
<1> QED
  BY <1>1, <1>2, <1>3, <1>4, <1>5, <1>6, <1>7, <1>8 DEF Next

(* The flat buffer of diag.c with its integer marks does what diag.h promises *)
(* of nested speculations.                                                   *)
THEOREM AnalyzeImplementsContract == Spec => ImplementsContract
<1>1. Init => Contract!CInit
  <2> SUFFICES ASSUME Init PROVE Contract!CInit
    OBVIOUS
  <2>1. Frames = <<>> /\ diags = <<>>
    BY InvInit, NoFrames DEF Init, Inv
  <2> QED
    BY <2>1 DEF Contract!CInit
<1> QED
  BY <1>1, InvInit, InvStep, ContractStep, PTL DEF Spec, ImplementsContract, Contract!CSpec

(* A dropped speculation forgets exactly its own errors and a kept one hands  *)
(* on all of them.                                                           *)
THEOREM VerdictsAreObeyed == Spec => VerdictObeyed
<1>1. ASSUME Inv
      PROVE  (Decide(TRUE) => Contract!Keep) /\ (Decide(FALSE) => Contract!Drop)
  BY <1>1, EndContract DEF Decide, Inv
<1> QED
  BY <1>1, InvInit, InvStep, PTL DEF Spec, VerdictObeyed
=============================================================================
