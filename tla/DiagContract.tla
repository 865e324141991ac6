---------------------------- MODULE DiagContract -----------------------------
(* What diag.h promises of error reporting while the parser guesses.  An      *)
(* error raised outside every speculation is shown at once; one raised inside *)
(* belongs to the innermost speculation.  Keeping a speculation hands its     *)
(* errors, in order, to the one around it, or shows them when there is none;  *)
(* dropping it forgets them.  A fatal error shows everything held, then       *)
(* itself, and ends every speculation.                                       *)
EXTENDS Naturals, Sequences, SequencesExt

CONSTANT Error

VARIABLES frames,      \* the errors held by each open speculation, outermost first
          shown        \* the errors of this analysis on show

cvars == <<frames, shown>>

CInit == frames = <<>> /\ shown = <<>>

Fresh == frames' = <<>> /\ shown' = <<>>

(* A list of errors reaches what encloses the open speculations fs.          *)
Pass(fs, errors) ==
    IF fs = <<>>
    THEN frames' = <<>> /\ shown' = shown \o errors
    ELSE frames' = Front(fs) \o <<Last(fs) \o errors>> /\ UNCHANGED shown

Raise(e) == Pass(frames, <<e>>)

Begin == frames' = Append(frames, <<>>) /\ UNCHANGED shown

Keep == frames # <<>> /\ Pass(Front(frames), Last(frames))

Drop == frames # <<>> /\ frames' = Front(frames) /\ UNCHANGED shown

Fatal(e) == frames' = <<>> /\ shown' = Append(shown \o FlattenSeq(frames), e)

CNext == Fresh \/ Begin \/ Keep \/ Drop \/ \E e \in Error : Raise(e) \/ Fatal(e)

CSpec == CInit /\ [][CNext]_cvars
=============================================================================
