---------------------------------- MODULE Emit ----------------------------------
(***************************************************************************)
(* The C the code generator emits for scalar expressions and slices        *)
(* (codegen.c), as a composition of the C operations it spells.  An        *)
(* operand is the C value its own emitted text evaluates to; `checked` and *)
(* `unguarded` say which markers are in force.                             *)
(***************************************************************************)
EXTENDS Numeric

\* Sub-int types, which C promotes to int in arithmetic.
type_is_subint(t) == t \in {"i8", "i16", "u8", "u16"}

\* The emitted casts: to a type, to its unsigned counterpart, and to `unsigned`.
As(t, x)    == Cast(IsSigned(t), Bits(t), x)
Uns(t, x)   == Cast(FALSE, Bits(t), x)
UnsInt(x)   == Cast(FALSE, target.int, x)
Truth(x)    == x.v # 0
Fails(x, y) == x.end # "value" \/ y.end # "value"
Failure(x, y) == IF x.end # "value" THEN x ELSE y

(***************************************************************************)
(* Literals.  A property such as `u32.max` is emitted as the C macro.      *)
(***************************************************************************)
emit_int_lit(t, v) ==
    CASE t = "i64" -> C(TRUE, LongLong, v)
      [] t = "u64" -> C(FALSE, LongLong, v)
      [] t \in {"isize", "usize"} -> As(t, C(IsSigned(t), LongLong, v))
      [] OTHER -> Decimal(v)

\* '\xNN' has type int, and the value of a char, which is signed.
emit_char_lit(byte) == C(TRUE, target.int, Wrapped(TRUE, 2, byte))

type_property_c(t, prop) ==
    IF prop = "bits" THEN Decimal(Bits(t))
    ELSE Promoted(C(IsSigned(t), Bits(t),
                    IF prop = "min" THEN Least(IsSigned(t), Bits(t))
                    ELSE Greatest(IsSigned(t), Bits(t))))

(***************************************************************************)
(* Binary operators at result type rt.                                     *)
(***************************************************************************)
ExactValue(op, a, b) == CASE op = "+" -> a + b [] op = "-" -> a - b [] op = "*" -> a * b
Overflowing(op, rt, l, r) ==
    IF Exactly(op, IsSigned(rt), Bits(rt), l.v, r.v)
    THEN C(IsSigned(rt), Bits(rt), ExactValue(op, l.v, r.v)) ELSE Abort

\* Faulty: a sub-int result is computed as C promotes it.
Faulty_emit_int_arith(op, rt, checked, l, r) ==
    IF checked THEN Overflowing(op, rt, l, r) ELSE As(rt, Binary(op, Uns(rt, l), Uns(rt, r)))

emit_int_arith(op, rt, checked, l, r) ==
    IF checked THEN Overflowing(op, rt, l, r)
    ELSE IF type_is_subint(rt)
         THEN As(rt, Uns(rt, Binary(op, UnsInt(Uns(rt, l)), UnsInt(Uns(rt, r)))))
    ELSE IF IsSigned(rt) THEN As(rt, Binary(op, Uns(rt, l), Uns(rt, r)))
    ELSE Binary(op, l, r)

\* The count is masked to the width of the result type, in C.
shift_mask_for(t) == Decimal(Bits(t) - 1)
Shifted(op, rt, l, count) ==
    IF op = "<<" THEN As(rt, ShiftLeft(Uns(rt, l), count.v)) ELSE ShiftRight(l, count.v)
emit_shift(op, rt, l, r) == Shifted(op, rt, l, Binary("&", r, shift_mask_for(rt)))

\* Both operands are evaluated into variables of the result type.
emit_int_divmod(op, rt, checked, unguarded, n, d) ==
    IF ~unguarded /\ d.v = 0 THEN Abort
    ELSE IF ~IsSigned(rt) THEN Binary(op, n, d)
    ELSE IF op = "/" /\ checked
         THEN IF d.v = -1 /\ n.v = Least(TRUE, Bits(rt)) THEN Abort ELSE Binary(op, n, d)
    ELSE IF d.v # -1 THEN As(rt, Binary(op, n, d))
    ELSE IF op = "/" THEN As(rt, Negate(Uns(rt, n)))
    ELSE As(rt, C(TRUE, target.int, 0))

emit_binary_op(op, rt, checked, unguarded, l, r) ==
    CASE op \in Wrapping -> emit_int_arith(op, rt, checked, l, r)
      [] op \in Shifts   -> emit_shift(op, rt, l, r)
      [] op \in Dividing -> IF IsSigned(rt) \/ ~unguarded
                            THEN emit_int_divmod(op, rt, checked, unguarded, As(rt, l), As(rt, r))
                            ELSE Binary(op, l, r)
      [] OTHER -> Binary(op, l, r)

\* A mixed operand is cast to the type the two meet at, by the checker in
\* concrete code and for the instance in a generic body.  The operator is
\* emitted for the type `at` the checker gave the expression.
widen_for_instance(from, to, x) == IF from = to THEN x ELSE As(to, x)
emit_binary(op, at, lt, rt, checked, unguarded, l, r) ==
    IF Fails(l, r) THEN Failure(l, r)
    ELSE IF op \in Shifts THEN emit_binary_op(op, at, checked, unguarded, l, r)
    ELSE emit_binary_op(op, at, checked, unguarded,
                        widen_for_instance(lt, type_common_numeric(lt, rt), l),
                        widen_for_instance(rt, type_common_numeric(lt, rt), r))

emit_unary_prefix(op, t, checked, x) ==
    CASE x.end # "value" -> x
      [] op = "-" /\ checked -> Overflowing("-", t, As(t, C(TRUE, target.int, 0)), x)
      [] op = "-" /\ ~checked -> As(t, Negate(Uns(t, x)))
      [] op = "~" -> IF type_is_subint(t) THEN As(t, Complement(x)) ELSE Complement(x)
      [] op = "!" -> C(TRUE, target.int, IF Truth(x) THEN 0 ELSE 1)

(***************************************************************************)
(* Casts.  A checked narrowing compares in the domain of the source type;  *)
(* a conversion of a float saturates, and maps not-a-number to 0.          *)
(***************************************************************************)
TooWide(from, to, v) ==
    CASE IsSigned(from) /\ IsSigned(to) -> v < Least(TRUE, Bits(to)) \/ v > Greatest(TRUE, Bits(to))
      [] IsSigned(from) /\ ~IsSigned(to) ->
             v < 0 \/ Wrapped(FALSE, Bits(from), v)
                        > Wrapped(FALSE, Bits(from), Greatest(FALSE, Bits(to)))
      [] OTHER -> v > Wrapped(FALSE, Bits(from), Greatest(IsSigned(to), Bits(to)))
emit_checked_int_narrow(from, to, x) == IF TooWide(from, to, x.v) THEN Abort ELSE As(to, x)

\* The guards of fc_f2*: the bounds just outside the type, as doubles.
GuardLo(t) == FromInt(Least(IsSigned(t), Bits(t)))
GuardHi(t) == IF t = "usize" THEN FromInt(Greatest(FALSE, Bits(t)))
              ELSE FromInt(Greatest(IsSigned(t), Bits(t)) + 1)
float_to_int_emit(t, f) ==
    IF f = NaN THEN As(t, C(TRUE, target.int, 0))
    ELSE IF FBelow(f, GuardLo(t)) THEN C(IsSigned(t), Bits(t), Least(IsSigned(t), Bits(t)))
    ELSE IF FAtLeast(f, GuardHi(t)) THEN C(IsSigned(t), Bits(t), Greatest(IsSigned(t), Bits(t)))
    ELSE FloatCast(IsSigned(t), Bits(t), f)

emit_cast(from, to, checked, unguarded, x) ==
    CASE x.end # "value" \/ <<from, to>> = <<"f64", "f64">> -> x
      [] from = "f64" -> IF unguarded THEN FloatCast(IsSigned(to), Bits(to), x.v)
                         ELSE float_to_int_emit(to, x.v)
      [] to = "f64" -> C(TRUE, LongLong, FromInt(x.v))
      [] OTHER -> IF checked THEN emit_checked_int_narrow(from, to, x) ELSE As(to, x)

\* The bytes of the one read as the other, through a union.
emit_bitcast(from, to, x) == IF x.end # "value" THEN x ELSE As(to, As(from, x))

(***************************************************************************)
(* Slices.  A length is stored in --len-repr bits and read back as 64.     *)
(***************************************************************************)
FC_LEN_MAX == Greatest(TRUE, target.len)
AsI64(x)    == Cast(TRUE, LongLong, x)
Stored(n)   == Cast(TRUE, target.len, n)

\* A length built at run time; the checker has judged a literal one.
fc_chk_len(n, nonneg, literal) ==
    CASE n.end # "value" -> n
      [] n.end = "value" /\ n.v < 0 /\ ~nonneg -> Abort
      [] n.end = "value" /\ n.v > FC_LEN_MAX /\ target.len < LongLong /\ ~literal -> Abort
      [] OTHER -> Stored(n)
emit_slice_lit(len, nonneg, literal) == fc_chk_len(AsI64(len), nonneg, literal)

\* The width of a bounds compare holds the index's type and the stored length.
Wider(m, n) == IF m < n THEN n ELSE m
guard_bits(t) ==
    IF target.len >= LongLong THEN LongLong
    ELSE Wider(IF Fixed(t) # 0 THEN Fixed(t) ELSE LongLong, target.len)

Compared(gb, x) == Wrapped(FALSE, gb, x.v)

\* The offset an index reaches.
emit_index(s, t, i, unguarded) ==
    CASE Fails(s, i) -> Failure(s, i)
      [] ~Fails(s, i) /\ ~unguarded
           /\ Compared(guard_bits(t), AsI64(i)) >= Compared(guard_bits(t), s) -> Abort
      [] OTHER -> AsI64(i)

\* s[lo..hi] from bounds as 64-bit values, compared at the wider of the widths
\* glo and ghi that each bound asks for: its length.
SliceCompared(s, gb, lo, hi, unguarded) ==
    CASE Fails(lo, hi) -> Failure(lo, hi)
      [] ~Fails(lo, hi) /\ ~unguarded
           /\ (Compared(gb, lo) > Compared(gb, hi) \/ Compared(gb, hi) > Compared(gb, s)) -> Abort
      [] OTHER -> Stored(C(TRUE, LongLong, hi.v - lo.v))

\* Faulty: the lower bound alone settles the width.
Faulty_emit_slice(s, glo, ghi, lo, hi, unguarded) == SliceCompared(s, glo, lo, hi, unguarded)

emit_slice(s, glo, ghi, lo, hi, unguarded) ==
    SliceCompared(s, Wider(glo, ghi), lo, hi, unguarded)
=============================================================================
