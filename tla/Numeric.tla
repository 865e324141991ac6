------------------------------- MODULE Numeric -------------------------------
(***************************************************************************)
(* The numeric types of the language as the checker sees them: which type  *)
(* widens to which, which operands an operator takes, in concrete code and *)
(* in an instance of a generic body, which literals fit, which casts are   *)
(* allowed, which operations `checked` and `unguarded` govern (facts.c),   *)
(* and the compile-time arithmetic of constants (types.c, and the folding  *)
(* of module constants in pass2.c).                                        *)
(***************************************************************************)
EXTENDS CInt

(***************************************************************************)
(* Types.  bool counts as an unsigned type of its own.                     *)
(***************************************************************************)
SignedTypes   == {"i8", "i16", "i32", "i64", "isize"}
UnsignedTypes == {"u8", "u16", "u32", "u64", "usize"}
IntTypes == SignedTypes \cup UnsignedTypes
IsSigned(t) == t \in SignedTypes

Fixed(t) ==
    CASE t \in {"i8", "u8"}   -> 2
      [] t \in {"i16", "u16"} -> 4
      [] t \in {"i32", "u32"} -> 8
      [] t \in {"i64", "u64"} -> 16
      [] OTHER -> 0
Bits(t) == IF t \in {"isize", "usize"} THEN target.size ELSE IF t = "bool" THEN 1 ELSE Fixed(t)
InRange(t, v) == Fits(IsSigned(t), Bits(t), v)

WidensTo ==
    [i8  |-> {"i16", "i32", "i64"}, i16 |-> {"i32", "i64"}, i32 |-> {"i64"},
     u8  |-> {"u16", "u32", "u64", "i16", "i32", "i64"},
     u16 |-> {"u32", "u64", "i32", "i64"}, u32 |-> {"u64", "i64"}]
type_can_widen(from, to) == from = to \/ (from \in DOMAIN WidensTo /\ to \in WidensTo[from])

\* The type two numbers meet at, or "none".
type_common_numeric(a, b) ==
    IF type_can_widen(a, b) THEN b ELSE IF type_can_widen(b, a) THEN a ELSE "none"

(***************************************************************************)
(* Operators and their operands.                                           *)
(***************************************************************************)
Wrapping == {"+", "-", "*"}
Dividing == {"/", "%"}
Logic    == {"&&", "||"}
Ordering == {"<", ">", "<=", ">="}
Equality == {"==", "!="}
BitOps   == {"&", "|", "^"}
Shifts   == {"<<", ">>"}
YieldsBool == Equality \cup Ordering \cup Logic
BinaryOps  == Wrapping \cup Dividing \cup BitOps \cup Shifts \cup YieldsBool

\* Whether an operator takes operands of these types; they may still have to
\* widen to their common type.
binary_operands_ok(op, lt, rt) ==
    CASE op \in Shifts   -> {lt, rt} \subseteq IntTypes
      [] op \in Logic    -> lt = "bool" /\ rt = "bool"
      [] op \in Equality -> type_common_numeric(lt, rt) # "none"
      [] OTHER -> {lt, rt} \subseteq IntTypes /\ type_common_numeric(lt, rt) # "none"

unary_operand_ok(op, t) ==
    CASE op = "-" -> t \in SignedTypes
      [] op = "~" -> t \in IntTypes
      [] op = "!" -> t = "bool"

\* The type of an operation on these operand types; a shift keeps its left one.
OperandType(op, lt, rt) == IF op \in Shifts THEN lt ELSE type_common_numeric(lt, rt)
ResultType(op, lt, rt)  == IF op \in YieldsBool THEN "bool" ELSE OperandType(op, lt, rt)

(***************************************************************************)
(* A generic body is checked once, before its type variable is bound.  An  *)
(* operation on the variable gets the variable as its type, and every      *)
(* instance checks that this is the type the concrete rule gives.  `body`  *)
(* says which operand the body types by the variable, and the concrete     *)
(* rule covers a body where both have it.                                  *)
(***************************************************************************)
Bodies == {"concrete", "left", "right"}
Promised(op, body, lt, rt) ==
    IF op \in YieldsBool THEN "bool"
    ELSE CASE body = "concrete" -> OperandType(op, lt, rt)
           [] body = "right" -> rt
           [] body = "left"  -> lt
check_generic_binary(op, body, lt, rt) ==
    Promised(op, body, lt, rt) = ResultType(op, lt, rt)
check_binary(op, body, lt, rt) ==
    /\ binary_operands_ok(op, lt, rt)
    /\ body # "concrete" => check_generic_binary(op, body, lt, rt)

\* An integer literal: its magnitude, and whether a minus precedes it.
check_int_literal_range(t, magnitude, negative) ==
    /\ negative => t \in SignedTypes
    /\ Fixed(t) # 0 => InRange(t, IF negative THEN -magnitude ELSE magnitude)

check_cast(from, to) ==
    \/ from = to
    \/ from \in IntTypes \cup {"f64", "bool"} /\ to \in IntTypes \cup {"f64"}

(***************************************************************************)
(* The operations each marker governs.                                     *)
(***************************************************************************)
OverflowGovernsBinary(op, t) ==
    \/ op \in Wrapping /\ t \in IntTypes
    \/ op = "/" /\ t \in SignedTypes
OverflowGovernsUnary(op, t) == op = "-" /\ t \in SignedTypes
OverflowGovernsCast(from, to) ==
    {from, to} \subseteq IntTypes /\ ~type_can_widen(from, to)
GuardGovernsBinary(op, t)  == op \in Dividing /\ t \in IntTypes
GuardGovernsCast(from, to) == from = "f64" /\ to \in IntTypes

(***************************************************************************)
(* Constants.  The compiler computes on 64-bit patterns: a value of a type *)
(* is its pattern extended from the type's width.                          *)
(***************************************************************************)
Word == 2^LongLong
\* Faulty: a negative value is not extended.
Faulty_const_mask_extend(v, w, s) == v % 2^w

const_mask_extend(v, w, s) ==
    LET m == v % 2^w IN IF s /\ m >= 2^(w - 1) THEN m + Word - 2^w ELSE m

AsInt64(v) == IF v >= Word \div 2 THEN v - Word ELSE v
ReadAs(v, s) == IF s THEN AsInt64(v) ELSE v
Pattern(v)   == v % Word

\* A shift count is masked by the width less one.
Masked(v, w) == v % w

DivZero == -1
const_computed(op, lv, rv, w, s) ==
    CASE op = "+" -> lv + rv
      [] op = "-" -> lv - rv
      [] op = "*" -> AsInt64(lv) * AsInt64(rv)
      [] op \in BitOps -> BitsOf(op, LongLong, lv, rv)
      [] op = "<<" -> AsInt64(lv) * 2^Masked(rv, w)
      [] op = ">>" -> ReadAs(lv, s) \div 2^Masked(rv, w)
      [] op = "/"  -> IF s /\ AsInt64(rv) = -1 THEN 0 - lv
                      ELSE Quotient(ReadAs(lv, s), ReadAs(rv, s))
      [] op = "%"  -> IF s /\ AsInt64(rv) = -1 THEN 0
                      ELSE Remainder(ReadAs(lv, s), ReadAs(rv, s))
const_binary_op(op, l, r, w, s) ==
    IF op \in YieldsBool THEN IF Compare(op, ReadAs(l, s), ReadAs(r, s)) THEN 1 ELSE 0
    ELSE LET lv == const_mask_extend(l, w, s)
             rv == const_mask_extend(r, w, s)
         IN IF op \in Dividing /\ rv = 0 THEN DivZero
            ELSE const_mask_extend(const_computed(op, lv, rv, w, s), w, s)
const_unary_op(op, v, w, s) ==
    CASE op = "-" -> const_mask_extend(0 - v, w, s)
      [] op = "~" -> const_mask_extend(Word - 1 - v, w, s)
      [] op = "!" -> IF v = 0 THEN 1 ELSE 0

\* Folding a node whose operands are literals; only the fixed widths are the
\* compiler's to compute.  A comparison is made at the operands' type.
FoldWidth(op, lt, rt) ==
    IF op \in Logic THEN 2 ELSE Fixed(OperandType(op, lt, rt))
Foldable(t) == t = "bool" \/ Fixed(t) # 0
try_eval_binary(op, lt, rt, a, b) ==
    const_binary_op(op, Pattern(a), Pattern(b), FoldWidth(op, lt, rt),
                    IsSigned(OperandType(op, lt, rt)))
\* The same node in a const argument or a static_assert, each operand at its
\* own type; a bool, like a width the compiler does not know, counts as i64.
EvalWidth(t)  == IF Fixed(t) # 0 THEN Fixed(t) ELSE LongLong
EvalSigned(t) == Fixed(t) = 0 \/ IsSigned(t)
const_expr_eval(op, lt, rt, a, b) ==
    const_binary_op(op, Pattern(a), Pattern(b), EvalWidth(OperandType(op, lt, rt)),
                    EvalSigned(OperandType(op, lt, rt)))
try_eval_unary(op, t, a) ==
    const_unary_op(op, Pattern(a), IF op = "!" THEN 1 ELSE Fixed(t), op # "!" /\ IsSigned(t))
const_cast_value(to, a) == const_mask_extend(Pattern(a), Fixed(to), IsSigned(to))
const_fold_type_property(t, prop) ==
    CASE prop = "bits" -> Fixed(t)
      [] prop = "min"  -> const_mask_extend(IF IsSigned(t) THEN 2^(Fixed(t) - 1) ELSE 0,
                                            Fixed(t), IsSigned(t))
      [] prop = "max"  -> const_mask_extend(IF IsSigned(t) THEN 2^(Fixed(t) - 1) - 1 ELSE Word - 1,
                                            Fixed(t), IsSigned(t))
=============================================================================
