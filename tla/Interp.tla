--------------------------------- MODULE Interp ---------------------------------
(***************************************************************************)
(* One segment of an interpolated string: which format specs the checker   *)
(* accepts for an operand, the bytes the generated buffer reserves for it  *)
(* (facts.c, summed by codegen.c), and the bytes that printf writes for    *)
(* it, by the C standard.  Buffer sizes are in real bytes, so the operand  *)
(* types have their real widths here.                                      *)
(***************************************************************************)
EXTENDS Numeric, TLC

\* A conversion, its flags, its width (0 when absent) and precision (-1).
Flags == {"minus", "plus", "space", "hash", "zero"}
Spec(conv, flags, width, prec) ==
    [conv |-> conv, flags |-> flags, width |-> width, prec |-> prec]

IntConvs   == {"d", "i", "u", "x", "o"}
FixedConvs == {"f"}
ExpConvs   == {"e", "g"}
FloatConvs == FixedConvs \cup ExpConvs
Floats     == {"f32", "f64"}
Strings    == {"str", "cstr"}
interp_conv_class(conv) ==
    CASE conv \in IntConvs   -> IntTypes
      [] conv \in FloatConvs -> Floats
      [] conv = "s" -> Strings
      [] conv = "c" -> {"u8"}
      [] conv = "p" -> {"pointer"}
Convs == IntConvs \cup FloatConvs \cup {"s", "c", "p"}

INTERP_MAX_FIELD == 32767
interp_conv_is_unsigned(conv, t) ==
    \/ conv \in {"u", "x", "o"}
    \/ conv \in {"d", "i"} /\ t \in UnsignedTypes
SignedConv(conv, t) ==
    \/ conv \in FloatConvs
    \/ conv \in {"d", "i"} /\ t \notin UnsignedTypes

\* Every modifier has to have an effect, and one C defines.
check_interp_spec_mods(s, t) ==
    /\ {"plus", "space"} \cap s.flags # {} => SignedConv(s.conv, t)
    /\ ~({"plus", "space"} \subseteq s.flags)
    /\ "hash" \in s.flags => s.conv \in FloatConvs \cup {"x", "o"}
    /\ "zero" \in s.flags => /\ s.conv \in IntConvs \cup FloatConvs
                             /\ "minus" \notin s.flags
                             /\ s.conv \in IntConvs => s.prec < 0
    /\ s.prec >= 0 => s.conv \in IntConvs \cup FloatConvs \cup {"s"}
check_interp_string(s, t) ==
    /\ s.width <= INTERP_MAX_FIELD /\ s.prec <= INTERP_MAX_FIELD
    /\ t \in interp_conv_class(s.conv)
    /\ check_interp_spec_mods(s, t)

(***************************************************************************)
(* The bytes reserved.                                                     *)
(***************************************************************************)
DecimalBound == [i8 |-> 4, u8 |-> 3, i16 |-> 6, u16 |-> 5, i32 |-> 11, u32 |-> 10,
                 i64 |-> 20, u64 |-> 20, isize |-> 20, usize |-> 20]
Octets == [i8 |-> 1, u8 |-> 1, i16 |-> 2, u16 |-> 2, i32 |-> 4, u32 |-> 4,
           i64 |-> 8, u64 |-> 8, isize |-> 8, usize |-> 8]
OctalDigits == (1 :> 3 @@ 2 :> 6 @@ 4 :> 11 @@ 8 :> 22)
FloatDigits == [f32 |-> 39, f64 |-> 309]
Fraction(s) == IF s.prec >= 0 THEN s.prec ELSE 6
TypeBound(s, t) ==
    CASE s.conv \in {"d", "i", "u"} -> DecimalBound[t]
      [] s.conv = "x" -> 2 * Octets[t]
      [] s.conv = "o" -> OctalDigits[Octets[t]]
      [] s.conv \in FixedConvs -> 1 + FloatDigits[t] + 1 + Fraction(s)
      [] s.conv \in ExpConvs -> 9 + Fraction(s)
      [] s.conv = "c" -> 1
      [] s.conv = "p" -> 18
\* A precision on an integer is a least number of digits, the sign apart.
\* Faulty: the sign is not counted.
Faulty_Precise(s, t) == IF s.conv \in IntConvs /\ s.prec > 0 THEN s.prec ELSE 0

Precise(s, t) ==
    IF s.conv \in IntConvs /\ s.prec > 0
    THEN s.prec + (IF interp_conv_is_unsigned(s.conv, t) THEN 0 ELSE 1) ELSE 0

FlagBytes(s) == (IF "plus" \in s.flags THEN 1 ELSE 0) + (IF "space" \in s.flags THEN 1 ELSE 0)
                  + (IF "hash" \in s.flags THEN 2 ELSE 0)
AtLeast(m, n) == IF m < n THEN n ELSE m
interp_numeric_bound(s, t) ==
    AtLeast(AtLeast(TypeBound(s, t), Precise(s, t)) + FlagBytes(s), s.width)

\* A string of `len` bytes: its share is a run-time one without a precision.
interp_seg_budget(s, t, len) ==
    IF s.conv = "s" THEN AtLeast(s.width, IF s.prec >= 0 THEN s.prec ELSE len)
    ELSE interp_numeric_bound(s, t)

(***************************************************************************)
(* The bytes printed for an operand of a shape: its sign, its number of    *)
(* digits before the point, or the length of a string.                     *)
(***************************************************************************)
Shape(negative, digits) == [negative |-> negative, digits |-> digits]
\* The most digits an operand of the type has, printed as a value or as bits.
DecimalDigits(unsigned, n) ==
    CASE n = 1 -> 3 [] n = 2 -> 5 [] n = 4 -> 10 [] OTHER -> IF unsigned THEN 20 ELSE 19
MostDigits(s, t) ==
    CASE s.conv = "x" -> 2 * Octets[t]
      [] s.conv = "o" -> OctalDigits[Octets[t]]
      [] s.conv \in {"d", "i", "u"} ->
             DecimalDigits(interp_conv_is_unsigned(s.conv, t), Octets[t])
      [] OTHER -> FloatDigits[t]
Shapes(s, t) ==
    CASE s.conv \in IntConvs \cup FloatConvs ->
             {Shape(neg, n) : neg \in {FALSE, SignedConv(s.conv, t)}, n \in {1, MostDigits(s, t)}}
      [] s.conv = "s" -> {Shape(FALSE, n) : n \in 0 .. 4}
      [] OTHER -> {Shape(FALSE, 1)}

Sign(s, shape) == IF shape.negative \/ {"plus", "space"} \cap s.flags # {} THEN 1 ELSE 0
Prefix(s) == IF "hash" \in s.flags /\ s.conv = "x" THEN 2 ELSE 0
Lead(s)   == IF "hash" \in s.flags /\ s.conv = "o" THEN 1 ELSE 0
Point(s, n) == IF n > 0 \/ "hash" \in s.flags THEN 1 + n ELSE 0
\* The precision of %g counts significant digits; at least one is written.
Significant(s) == AtLeast(Fraction(s), 1)
\* %g in fixed notation reaches down to four places after the point.
Shortest(s) == AtLeast(1 + Point(s, Significant(s) - 1) + 5, 5 + Significant(s))
Body(s, shape) ==
    CASE s.conv \in IntConvs -> Prefix(s) + AtLeast(shape.digits + Lead(s), s.prec)
      [] s.conv \in FixedConvs -> shape.digits + Point(s, Fraction(s))
      [] s.conv = "e" -> 1 + Point(s, Fraction(s)) + 5
      [] s.conv = "g" -> Shortest(s)
      [] s.conv = "c" -> 1
      [] s.conv = "p" -> 18
      [] s.conv = "s" -> IF s.prec >= 0 /\ s.prec < shape.digits THEN s.prec ELSE shape.digits
Printed(s, shape) == AtLeast(Sign(s, shape) + Body(s, shape), s.width)

\* Whether a checked string segment would be clipped: a str has its length, a
\* cstr is searched for its terminator.
interp_seg_trunc(s, t, len) ==
    /\ s.conv = "s" /\ s.prec >= 0
    /\ IF t = "str" THEN len > s.prec ELSE len \notin 0 .. s.prec
=============================================================================
