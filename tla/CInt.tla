-------------------------------- MODULE CInt --------------------------------
(***************************************************************************)
(* The part of C that emitted integer code relies on: integer promotion,   *)
(* the usual conversions, arithmetic that is modular for unsigned types    *)
(* and undefined on signed overflow, shifts, conversions between integer   *)
(* types (modular, as gcc and clang define the signed ones), the checked   *)
(* arithmetic builtins and the conversion of a double.  A value carries    *)
(* its C type as signedness and width, which is all that promotion and the *)
(* usual conversions look at.                                              *)
(*                                                                         *)
(* Widths are scaled: a type of 8, 16, 32 or 64 bits has 2, 4, 8 or 16     *)
(* here, so that each width is still twice the one before and a power of   *)
(* two.  The width of int, long and size_t, and the stored width of a      *)
(* slice length (--len-repr), are the target's.                            *)
(***************************************************************************)
EXTENDS Integers, Bitwise

\* The C implementation the emitted program is compiled for.
VARIABLE target

LongLong == 16

(***************************************************************************)
(* Outcomes of evaluating a C expression.                                  *)
(***************************************************************************)
C(s, w, v) == [end |-> "value", s |-> s, w |-> w, v |-> v]
Abort      == [end |-> "abort", s |-> TRUE, w |-> 1, v |-> 0]
Undefined  == [end |-> "undefined", s |-> TRUE, w |-> 1, v |-> 0]

Least(s, w)    == IF s THEN -(2^(w - 1)) ELSE 0
Greatest(s, w) == IF s THEN 2^(w - 1) - 1 ELSE 2^w - 1
Fits(s, w, n)  == Least(s, w) <= n /\ n <= Greatest(s, w)

\* n reduced modulo 2^w to the range of the type.
Wrapped(s, w, n) == LET r == n % 2^w IN IF s /\ r >= 2^(w - 1) THEN r - 2^w ELSE r

\* A conversion to an integer type; the failure of its operand is its own.
Cast(s, w, x) == IF x.end = "value" THEN C(s, w, Wrapped(s, w, x.v)) ELSE x

\* Integer promotion: a type narrower than int becomes int.
Promoted(x) == IF x.w < target.int THEN Cast(TRUE, target.int, x) ELSE x

\* The type two promoted operands meet at.
MeetWidth(x, y)  == IF x.w < y.w THEN y.w ELSE x.w
MeetSigned(x, y) == IF x.w = y.w THEN x.s /\ y.s ELSE IF x.w < y.w THEN y.s ELSE x.s

\* A result of arithmetic: an unsigned one wraps, a signed one has to fit.
Result(s, w, n) == IF s /\ ~Fits(s, w, n) THEN Undefined ELSE C(s, w, Wrapped(s, w, n))

\* Quotient and remainder truncate toward zero.
Magnitude(n) == IF n < 0 THEN -n ELSE n
Quotient(n, d)  == (IF (n < 0) = (d < 0) THEN 1 ELSE -1) * (Magnitude(n) \div Magnitude(d))
Remainder(n, d) == n - d * Quotient(n, d)

\* A product modulo 2^w is that of the operands' signed representatives.
Product(s, w, a, b) == IF s THEN a * b ELSE Wrapped(TRUE, w, a) * Wrapped(TRUE, w, b)
ProductFits(s, w, a, b) ==
    \/ a = 0 \/ b = 0
    \/ Magnitude(b) <= 2^LongLong \div Magnitude(a) /\ Fits(s, w, a * b)

BitsOf(op, w, a, b) ==
    CASE op = "&" -> (a % 2^w) & (b % 2^w)
      [] op = "|" -> (a % 2^w) | (b % 2^w)
      [] op = "^" -> (a % 2^w) ^^ (b % 2^w)

Compare(op, a, b) ==
    CASE op = "==" -> a = b
      [] op = "!=" -> a # b
      [] op = "<"  -> a < b
      [] op = ">"  -> a > b
      [] op = "<=" -> a <= b
      [] op = ">=" -> a >= b
      [] op = "&&" -> a # 0 /\ b # 0
      [] op = "||" -> a # 0 \/ b # 0

\* A binary operator other than a shift on converted operands.
Apply(op, s, w, a, b) ==
    CASE op = "+" -> Result(s, w, a + b)
      [] op = "-" -> Result(s, w, a - b)
      [] op = "*" -> Result(s, w, Product(s, w, a, b))
      [] op = "/" -> IF b = 0 THEN Undefined ELSE Result(s, w, Quotient(a, b))
      [] op = "%" -> IF b = 0 \/ ~Fits(s, w, Quotient(a, b)) THEN Undefined
                     ELSE C(s, w, Remainder(a, b))
      [] op \in {"&", "|", "^"} -> C(s, w, Wrapped(s, w, BitsOf(op, w, a, b)))
      [] OTHER -> C(TRUE, target.int, IF Compare(op, a, b) THEN 1 ELSE 0)

Met(op, s, w, x, y) == Apply(op, s, w, Wrapped(s, w, x.v), Wrapped(s, w, y.v))
Operate(op, x, y)   == Met(op, MeetSigned(x, y), MeetWidth(x, y), x, y)
Binary(op, x, y) ==
    IF x.end # "value" THEN x
    ELSE IF y.end # "value" THEN y
    ELSE Operate(op, Promoted(x), Promoted(y))

\* Shifts: the count has to be less than the promoted width.
Left(x, n)  == IF n \notin 0 .. x.w - 1 \/ x.v < 0 THEN Undefined ELSE Result(x.s, x.w, x.v * 2^n)
Right(x, n) == IF n \notin 0 .. x.w - 1 THEN Undefined ELSE C(x.s, x.w, x.v \div 2^n)
ShiftLeft(x, n)  == Left(Promoted(x), n)
ShiftRight(x, n) == Right(Promoted(x), n)

Negated(x)    == Result(x.s, x.w, -x.v)
Negate(x)     == Negated(Promoted(x))
Flipped(x)    == C(x.s, x.w, Wrapped(x.s, x.w, -1 - x.v))
Complement(x) == Flipped(Promoted(x))

\* __builtin_add_overflow and its kin: whether the exact result fits the type.
Exactly(op, s, w, a, b) ==
    CASE op = "+" -> Fits(s, w, a + b)
      [] op = "-" -> Fits(s, w, a - b)
      [] op = "*" -> ProductFits(s, w, a, b)

\* A decimal constant has the first of int, long and long long that holds it.
Decimal(v) ==
    C(TRUE, CHOOSE w \in {target.int, target.long, LongLong} :
                /\ Fits(TRUE, w, Magnitude(v)) \/ w = LongLong
                /\ \A n \in {target.int, target.long} : n < w => ~Fits(TRUE, n, Magnitude(v)), v)

(***************************************************************************)
(* Doubles, counted in halves: the values next to a conversion's bounds,   *)
(* the infinities and not-a-number.  An integer converts to the nearest    *)
(* value of 13 significant bits (53 of 64).                                *)
(***************************************************************************)
NaN == 2000001
Inf == 2000000
Significand == 13
Spacing(n) == IF Magnitude(n) >= 2^15 THEN 8 ELSE IF Magnitude(n) >= 2^14 THEN 4
              ELSE IF Magnitude(n) >= 2^Significand THEN 2 ELSE 1
Rounded(n) == ((n + Spacing(n) \div 2) \div Spacing(n)) * Spacing(n)
FromInt(n) == 2 * Rounded(n)
FBelow(f, g)   == f # NaN /\ g # NaN /\ f < g
FAtLeast(f, g) == f # NaN /\ g # NaN /\ f >= g
Truncated(f) == Quotient(f, 2)
FloatCast(s, w, f) ==
    IF f \in {NaN, Inf, -Inf} \/ ~Fits(s, w, Truncated(f)) THEN Undefined
    ELSE C(s, w, Truncated(f))
=============================================================================
