-------------------------------- MODULE Evaluate --------------------------------
(***************************************************************************)
(* Evaluation of scalar, slice and string expressions, step by step: what  *)
(* the language says each operation yields, next to what the emitted C     *)
(* yields and what the compiler computes when the operands are constants.  *)
(* An expression is built one operation at a time, so that the result of   *)
(* one emitted text is the operand of the next.                            *)
(***************************************************************************)
EXTENDS Emit, Interp

CONSTANTS Targets,       \* the C implementations: widths of int, long, size_t, length
          Edges,         \* the integers tried in every type that has them
          Small,         \* those tried in pairs, besides each type's least and greatest
          CharBytes,     \* the character literals tried
          CstrLengths,   \* the lengths of C strings met at run time
          BufferSizes,   \* the sizes N of (cstr[N]) casts
          Widths, Precisions   \* the field widths and precisions of format specs

VARIABLES value,   \* the expression just evaluated
          parked   \* an operand evaluated before it

vars == <<target, value, parked>>

(***************************************************************************)
(* An expression: its type, what the language says it evaluates to ("any"  *)
(* where a precondition the program took on itself fails), the outcome of  *)
(* the C, its syntactic form as a length, and its compile-time values.     *)
(***************************************************************************)
Item(t, meant, c, form, folds) ==
    [ty |-> t, want |-> meant.want, val |-> meant.val, c |-> c, form |-> form, folds |-> folds]
Meant(v)  == [want |-> "value", val |-> v]
MustAbort == [want |-> "abort", val |-> 0]
Anything  == [want |-> "any", val |-> 0]
\* As a slice length: a literal's pattern under a number of casts (two stand
\* for more), or an expression only the program evaluates.
LiteralForm(casts, pattern) == [casts |-> casts, pattern |-> pattern]
AtRun == LiteralForm(-1, 0)
None == Item("none", Anything, Undefined, AtRun, {})

Scalars  == IntTypes \cup {"bool", "f64"}
Paired(t) == Small \cup {Least(IsSigned(t), Bits(t)), Greatest(IsSigned(t), Bits(t))}
Usable(x, types) == x.ty \in types /\ x.want = "value" /\ (x.ty = "f64" \/ x.val \in Edges)
Computed(t, meant, c) == Item(t, meant, c, AtRun, {})

(***************************************************************************)
(* What operations mean (spec, Operators and Conversions).                 *)
(***************************************************************************)
Settled(t, fits, n, checked) ==
    IF fits THEN Meant(n) ELSE IF checked THEN MustAbort ELSE Meant(Wrapped(IsSigned(t), Bits(t), n))
Settle(t, n, checked) == Settled(t, InRange(t, n), n, checked)
ExactOrModular(t, a, b) ==
    IF ProductFits(IsSigned(t), Bits(t), a, b) THEN a * b ELSE Product(IsSigned(t), Bits(t), a, b)
BinaryMeans(op, t, a, b, checked, unguarded) ==
    CASE op \in {"+", "-"} -> Settle(t, ExactValue(op, a, b), checked)
      [] op = "*" -> Settled(t, ProductFits(IsSigned(t), Bits(t), a, b),
                             ExactOrModular(t, a, b), checked)
      [] op \in Dividing /\ b = 0 -> IF unguarded THEN Anything ELSE MustAbort
      [] op = "/" /\ b # 0 -> Settle(t, Quotient(a, b), checked)
      [] op = "%" /\ b # 0 -> Meant(Remainder(a, b))
      [] op = "<<" -> Settle(t, a * 2^(b % Bits(t)), FALSE)
      [] op = ">>" -> Meant(a \div 2^(b % Bits(t)))
      [] op \in BitOps -> Settle(t, BitsOf(op, Bits(t), a, b), FALSE)
      [] op \in YieldsBool -> Meant(IF Compare(op, a, b) THEN 1 ELSE 0)
UnaryMeans(op, t, a, checked) ==
    CASE op = "-" -> Settle(t, -a, checked)
      [] op = "~" -> Settle(t, -1 - a, FALSE)
      [] op = "!" -> Meant(1 - a)
Clamped(t, n) ==
    IF n < Least(IsSigned(t), Bits(t)) THEN Least(IsSigned(t), Bits(t))
    ELSE IF n > Greatest(IsSigned(t), Bits(t)) THEN Greatest(IsSigned(t), Bits(t)) ELSE n
CastMeans(from, to, a, checked, unguarded) ==
    CASE to = "f64" -> Meant(IF from = "f64" THEN a ELSE FromInt(a))
      [] from = "f64" /\ to # "f64" ->
             IF unguarded /\ (a = NaN \/ Clamped(to, Truncated(a)) # Truncated(a)) THEN Anything
             ELSE Meant(IF a = NaN THEN 0 ELSE Clamped(to, Truncated(a)))
      [] OTHER -> Settle(to, a, checked)

(***************************************************************************)
(* Operands.                                                               *)
(***************************************************************************)
Alone    == value = None /\ parked = None
Produces(x) == value' \in {x} /\ UNCHANGED <<target, parked>>
Consumes(x) == value' \in {x} /\ parked' = None /\ UNCHANGED target
OfType(t, v)  == C(IsSigned(t), Bits(t), v)

\* A suffixless constant where C has to compute at the literal's own type: an
\* unsigned type of int's width, or a type wider than int.
Untyped(t) == t \in {"u32", "i32"} /\ (t = "i32" => target.int < Fixed(t))

Variable(t, v) ==
    /\ value = None
    /\ InRange(t, v) /\ (parked.ty \in Scalars => v \in Paired(t))
    /\ Produces(Computed(t, Meant(v), OfType(t, v)))

\* A double next to one of a type's bounds, an infinity or not-a-number.
HalfSpacing(f) == IF Magnitude(f) < 2^Significand THEN 1 ELSE 2 * Spacing(Magnitude(f) \div 2)
Double(f) ==
    /\ Alone
    /\ f \in {NaN, Inf, -Inf} \/ f % HalfSpacing(f) = 0
    /\ Produces(Computed("f64", Meant(f), C(TRUE, LongLong, f)))

Literal(t, v) ==
    /\ value = None
    /\ ~Untyped(t)
    /\ check_int_literal_range(t, Magnitude(v), v < 0)
    /\ InRange(t, v) /\ (parked.ty \in Scalars => v \in Paired(t))
    /\ Produces(Item(t, Meant(v), emit_int_lit(t, v), LiteralForm(0, Pattern(v)),
                     IF Fixed(t) # 0 THEN {Pattern(v)} ELSE {}))

CharLiteral(byte) ==
    /\ value = None
    /\ Produces(Item("u8", Meant(byte), emit_char_lit(byte), AtRun, {byte}))

Property(t, prop) ==
    /\ Alone
    /\ prop = "bits" => ~Untyped("i32")
    /\ Produces(Item(IF prop = "bits" THEN "i32" ELSE t,
                     Meant(CASE prop = "bits" -> Bits(t)
                             [] prop = "min" -> Least(IsSigned(t), Bits(t))
                             [] prop = "max" -> Greatest(IsSigned(t), Bits(t))),
                     type_property_c(t, prop), AtRun,
                     IF Fixed(t) # 0 THEN {const_fold_type_property(t, prop)} ELSE {}))

\* A let: the value is stored in a variable of its type.  A module constant is
\* initialised with its folded value, emitted as a literal.
Let ==
    /\ parked = None /\ Usable(value, IntTypes)
    /\ Produces(Computed(value.ty, Meant(value.val), As(value.ty, value.c)))
ModuleConstant ==
    /\ parked = None /\ Usable(value, IntTypes)
    /\ \E f \in value.folds :
         Produces(Computed(value.ty, Meant(value.val),
                           As(value.ty, emit_int_lit(value.ty, ReadAs(f, IsSigned(value.ty))))))

Park ==
    /\ parked = None /\ Usable(value, (Scalars \ {"f64"}) \cup {"slice"})
    /\ value.ty \in Scalars => value.val \in Paired(value.ty)
    /\ value.folds = {} \/ value.form.casts = 0
    /\ parked' = [value EXCEPT !.form = AtRun] /\ value' = None /\ UNCHANGED target

\* Leaves an expression that has been judged.
Discard == value # None /\ Consumes(None)

(***************************************************************************)
(* Operators and casts.  A marker is accepted only on what it governs.     *)
(***************************************************************************)
Marks(governs) == IF governs THEN BOOLEAN ELSE {FALSE}

FoldBinary(op, x, y) ==
    {try_eval_binary(op, x.ty, y.ty, a, b) : a \in x.folds, b \in y.folds}
    \cup {const_expr_eval(op, x.ty, y.ty, a, b) : a \in x.folds, b \in y.folds}
ApplyBinary(op, body, checked, unguarded, t, at, x, y) ==
    Consumes(Item(at, BinaryMeans(op, t, x.val, y.val, checked, unguarded),
                  emit_binary(op, at, x.ty, y.ty, checked, unguarded, x.c, y.c), AtRun,
                  IF checked \/ unguarded THEN {} ELSE FoldBinary(op, x, y) \ {DivZero}))
BinaryStep(op, body) ==
    /\ Usable(parked, Scalars) /\ Usable(value, Scalars)
    /\ body # "concrete" => parked.ty # value.ty /\ parked.folds = {} /\ value.folds = {}
    /\ check_binary(op, body, parked.ty, value.ty)
    /\ \E t \in {OperandType(op, parked.ty, value.ty)} :
         \E checked \in Marks(OverflowGovernsBinary(op, t)),
            unguarded \in Marks(GuardGovernsBinary(op, t)) :
           ApplyBinary(op, body, checked, unguarded, t,
                       Promised(op, body, parked.ty, value.ty), parked, value)

UnaryStep(op, checked) ==
    /\ parked = None /\ Usable(value, Scalars \ {"f64"})
    /\ unary_operand_ok(op, value.ty)
    /\ checked \in Marks(OverflowGovernsUnary(op, value.ty))
    /\ ~(op = "-" /\ value.form.casts = 0)   \* folded into the literal
    /\ Produces(Item(value.ty, UnaryMeans(op, value.ty, value.val, checked),
                     emit_unary_prefix(op, value.ty, checked, value.c), AtRun,
                     IF checked THEN {} ELSE {try_eval_unary(op, value.ty, f) : f \in value.folds}))

FormOfCast(to, checked) ==
    IF value.form = AtRun \/ checked \/ Fixed(to) = 0 THEN AtRun
    ELSE LiteralForm(IF value.form.casts = 0 THEN 1 ELSE 2,
                     const_mask_extend(value.form.pattern, Fixed(to), IsSigned(to)))
CastTo(to, checked, unguarded) ==
    /\ Usable(value, Scalars) /\ check_cast(value.ty, to)
    /\ checked \in Marks(OverflowGovernsCast(value.ty, to))
    /\ unguarded \in Marks(GuardGovernsCast(value.ty, to))
    /\ Produces(Item(to, CastMeans(value.ty, to, value.val, checked, unguarded),
                     emit_cast(value.ty, to, checked, unguarded, value.c), FormOfCast(to, checked),
                     IF checked \/ Fixed(to) = 0 THEN {}
                     ELSE {const_cast_value(to, f) : f \in value.folds}))

Bitcast(to) ==
    /\ parked = None /\ Usable(value, IntTypes) /\ Fixed(to) # 0 /\ Fixed(to) = Fixed(value.ty)
    /\ Produces(Computed(to, Settle(to, value.val, FALSE), emit_bitcast(value.ty, to, value.c)))

(***************************************************************************)
(* Slices and strings.                                                     *)
(***************************************************************************)
LengthMeans(n) == IF n \in 0 .. FC_LEN_MAX THEN Meant(n) ELSE MustAbort

\* A length the checker sees as a literal, through any casts, is judged there.
JudgedLiteral == value.form # AtRun
static_length_error(n) == n \notin 0 .. FC_LEN_MAX
\* The length is widened to i64 by one more cast, and the emitter looks
\* through one cast only.
LiteralInC == value.form.casts = 0 \/ <<value.form.casts, value.ty>> = <<1, "i64">>
SliceOf ==
    /\ parked = None /\ Usable(value, IntTypes) /\ type_can_widen(value.ty, "i64")
    /\ ~(JudgedLiteral /\ static_length_error(AsInt64(value.form.pattern)))
    /\ Produces(Computed("slice", LengthMeans(value.val),
                         emit_slice_lit(value.c, JudgedLiteral \/ ~IsSigned(value.ty), LiteralInC)))

\* (str) of a C string found to be n bytes long.
FromCstr(n) ==
    /\ Alone
    /\ Produces(Computed("slice", LengthMeans(n), fc_chk_len(C(TRUE, LongLong, n), FALSE, FALSE)))

\* (cstr[N]) of a string: at most N - 1 bytes are copied.
BoundedCopy(n, size) == IF n < size - 1 THEN n ELSE size - 1
ToCstr(size, checked) ==
    /\ Usable(value, {"slice"}) /\ size \in 1 .. FC_LEN_MAX
    /\ Produces(Computed("cstr",
           IF checked /\ value.val >= size THEN MustAbort
           ELSE Meant(IF value.val < size THEN value.val ELSE size - 1),
           IF value.c.end # "value" THEN value.c
           ELSE IF checked /\ value.c.v > size - 1 THEN Abort
           ELSE C(TRUE, LongLong, BoundedCopy(value.c.v, size))))

Length ==
    /\ Usable(value, {"slice"})
    /\ Produces(Computed("i64", Meant(value.val), AsI64(value.c)))

IndexStep(unguarded) ==
    /\ Usable(parked, {"slice"}) /\ Usable(value, IntTypes)
    /\ Consumes(Computed("elem",
           IF value.val \in 0 .. parked.val - 1 THEN Meant(value.val)
           ELSE IF unguarded THEN Anything ELSE MustAbort,
           emit_index(parked.c, value.ty, value.c, unguarded)))

\* s[lo..hi] with the value as one bound, and the other a variable of any type
\* or left out (None): then it is 0 or the length, and narrows no compare.
Bounds == {None} \cup {Computed(t, Meant(v), OfType(t, v)) :
                          <<t, v>> \in {b \in IntTypes \X Edges :
                                               InRange(b[1], b[2]) /\ b[2] \in Paired(b[1])}}
BoundBits(b) == IF b = None THEN target.len ELSE guard_bits(b.ty)
Subslice(lo, hi, unguarded) ==
    \E from \in {IF lo = None THEN 0 ELSE lo.val}, to \in {IF hi = None THEN parked.val ELSE hi.val} :
       Consumes(Computed("slice",
           IF 0 <= from /\ from <= to /\ to <= parked.val THEN Meant(to - from)
           ELSE IF unguarded THEN Anything ELSE MustAbort,
           emit_slice(parked.c, BoundBits(lo), BoundBits(hi),
                      IF lo = None THEN C(TRUE, target.int, 0) ELSE AsI64(lo.c),
                      IF hi = None THEN AsI64(parked.c) ELSE AsI64(hi.c), unguarded)))
SubsliceStep(other, unguarded) ==
    /\ Usable(parked, {"slice"}) /\ Usable(value, IntTypes)
    /\ Subslice(value, other, unguarded) \/ Subslice(other, value, unguarded)

\* A segment of an interpolated string with an operand of a shape.  The whole
\* budget is capped at the stored length's capacity before the text is built.
Capacity == IF target.len = 4 THEN 32767 ELSE 2^30
EmittedText(budget, written, clipped) ==
    IF clipped \/ budget > Capacity THEN Abort
    ELSE C(TRUE, LongLong, IF written <= budget THEN written ELSE budget)
Interpolate(s, t, shape, checked) ==
    /\ check_interp_string(s, t)
    /\ checked \in Marks(s.conv = "s" /\ s.prec >= 0)
    /\ \E budget \in {interp_seg_budget(s, t, shape.digits)} :
         Produces(Computed("text",
           IF checked /\ shape.digits > s.prec THEN MustAbort
           ELSE IF budget > Capacity THEN Anything ELSE Meant(Printed(s, shape)),
           EmittedText(budget, Printed(s, shape), checked /\ interp_seg_trunc(s, t, shape.digits))))

-----------------------------------------------------------------------------
Init == target \in Targets /\ value = None /\ parked = None

Doubles == {NaN, Inf, -Inf} \cup {2 * e + d : e \in Edges, d \in -1 .. 2}
Specs == {s \in {Spec(conv, flags, w, p) : conv \in Convs, flags \in SUBSET Flags,
                                           w \in Widths, p \in Precisions} :
            \E t \in interp_conv_class(s.conv) : check_interp_string(s, t)}

Next ==
    \/ \E t \in IntTypes \cup {"bool"}, v \in Edges : Variable(t, v)
    \/ \E f \in Doubles : Double(f)
    \/ \E t \in IntTypes, v \in Edges : Literal(t, v)
    \/ \E b \in CharBytes : CharLiteral(b)
    \/ \E t \in IntTypes, prop \in {"bits", "min", "max"} : Property(t, prop)
    \/ Let \/ ModuleConstant \/ Park \/ Discard
    \/ \E op \in BinaryOps, body \in Bodies : BinaryStep(op, body)
    \/ \E op \in {"-", "~", "!"}, checked \in BOOLEAN : UnaryStep(op, checked)
    \/ parked = None /\ \E t \in IntTypes \cup {"f64"}, checked, unguarded \in BOOLEAN :
         CastTo(t, checked, unguarded)
    \/ \E t \in IntTypes : Bitcast(t)
    \/ SliceOf \/ Length
    \/ \E n \in CstrLengths : FromCstr(n)
    \/ \E size \in BufferSizes, checked \in BOOLEAN : ToCstr(size, checked)
    \/ \E unguarded \in BOOLEAN : IndexStep(unguarded)
    \/ Usable(parked, {"slice"}) /\ \E other \in Bounds, unguarded \in BOOLEAN :
         SubsliceStep(other, unguarded)
    \/ Alone /\ \E s \in Specs : \E t \in interp_conv_class(s.conv), checked \in BOOLEAN :
         \E shape \in Shapes(s, t) : Interpolate(s, t, shape, checked)

Evaluates == Init /\ [][Next]_vars

-----------------------------------------------------------------------------
Agrees(x) ==
    CASE x.want = "value" -> x.c.end = "value" /\ x.c.v = x.val
      [] x.want = "abort" -> x.c.end = "abort"
      [] x.want = "any"   -> TRUE

\* Integer and float expressions compute in C what the language defines, on
\* every target, however they are nested: wrapping or aborting on overflow as
\* the markers say, and never by an operation C leaves undefined.
RunsAsDefined == value.ty \in Scalars => Agrees(value)

\* The compiler's own arithmetic on constants gives the value the program
\* would have computed.
FoldsAsItRuns == \A f \in value.folds :
    value.want = "value" /\ ReadAs(f, IsSigned(value.ty)) = value.val

\* A slice of any stored length width has the length it was built with, and a
\* bounds check lets through exactly the indices and ranges inside it.
SlicesExact ==
    /\ value.ty \in {"slice", "elem", "cstr"} => Agrees(value)
    /\ Usable(value, {"slice"}) => value.c.v \in 0 .. FC_LEN_MAX

\* The buffer of an interpolated string holds everything printf writes, so the
\* text is clipped only where its precision says so.
FitsItsBuffer == value.ty = "text" => Agrees(value)
=============================================================================
