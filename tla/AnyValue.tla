------------------------------ MODULE AnyValue -------------------------------
(***************************************************************************)
(* The values of the C& evaluator, hir::AnyValue (inc/hir/AnyValue.hpp),   *)
(* with the operators EvalPrimaryExpr applies to them.                     *)
(*                                                                         *)
(* A value is a record with its kind and its data.  The integers have a    *)
(* width each, scaled down from 8, 16, 32 and 64 bits; no literal the      *)
(* evaluator accepts and no operator on integers makes a floating-point    *)
(* number, a string object, an array or an iterator, so those are left     *)
(* out.  An operator that throws has the result Throw, one the processor   *)
(* stops at (a division it cannot carry out) the result Trap, and one that *)
(* overflows a signed type, which C++ leaves open, the result Undefined.   *)
(***************************************************************************)
EXTENDS Integers, Sequences, SequencesExt

CONSTANT Width                  \* the bits of an int, the least of them 4
ASSUME WidthAssumption == Width \in Nat /\ Width >= 4

Bits == [I8 |-> Width - 2, I16 |-> Width - 1, I32 |-> Width, I64 |-> Width + 1,
         U8 |-> Width - 2, U16 |-> Width - 1, U32 |-> Width, U64 |-> Width + 1, Bool |-> 1]
Integral == DOMAIN Bits
Signed == {"I8", "I16", "I32", "I64"}

Value(kind, data) == [kind |-> kind, data |-> data]
Error == Value("Error", "Invalid Operation")
Throw == Value("Throw", "bad variant access")
Trap == Value("Trap", "division")
Undefined == Value("Undefined", "overflow")

(* The conversion of a number to an integer kind.                          *)
Lowest(kind) == IF kind \in Signed THEN -(2 ^ (Bits[kind] - 1)) ELSE 0
Convert(kind, n) ==
  IF kind = "Bool" THEN (IF n = 0 THEN 0 ELSE 1)
  ELSE ((n - Lowest(kind)) % (2 ^ Bits[kind])) + Lowest(kind)
Highest(kind) == Lowest(kind) + 2 ^ Bits[kind] - 1

(* A value of a variable.                                                  *)
IsValue(v) == IF v.kind \in Integral THEN v.data \in Lowest(v.kind) .. Highest(v.kind) ELSE v.kind = "CStr"

------------------------------------------------------------------------------
(* Literals: FromLiteral of I32 takes the digits that fit an int, that of  *)
(* Bool only true and false, that of CStr anything.                        *)

DigitValue == [d \in {"0", "1", "2", "3", "4", "5", "6", "7", "8", "9"} |->
  CASE d = "0" -> 0 [] d = "1" -> 1 [] d = "2" -> 2 [] d = "3" -> 3 [] d = "4" -> 4
    [] d = "5" -> 5 [] d = "6" -> 6 [] d = "7" -> 7 [] d = "8" -> 8 [] d = "9" -> 9]
Decimal(digits) ==
  LET read[i \in 0 .. Len(digits)] ==
        IF i = 0 THEN 0 ELSE 10 * read[i - 1] + DigitValue[SubSeq(digits, i, i)]
  IN read[Len(digits)]
Unreadable == Value("Fail", "literal")
I32FromLiteralUnchecked(lit) == Value("I32", Decimal(lit))     \* a variant that trusts its digits
I32FromLiteral(lit) ==
  IF Decimal(lit) > Highest("I32") THEN Unreadable ELSE Value("I32", Decimal(lit))
BoolFromLiteral(lit) ==
  CASE lit = "true" -> Value("Bool", 1) [] lit = "false" -> Value("Bool", 0) [] OTHER -> Unreadable
CStrFromLiteral(lit) == Value("CStr", lit)

------------------------------------------------------------------------------
(* The arithmetic operators.  C++ computes in the common type of both      *)
(* operands; the kind of the result depends on the left operand alone.     *)

ConversionOrder == <<"I32", "U32", "I64", "U64">>
Rank(kind) == IF kind \in {"U32", "I64", "U64"}
              THEN CHOOSE i \in DOMAIN ConversionOrder : ConversionOrder[i] = kind ELSE 1
CommonType(a, b) == ConversionOrder[IF Rank(a) > Rank(b) THEN Rank(a) ELSE Rank(b)]
ResultKind(kind) ==
  CASE kind \in {"I8", "I16", "I32"} -> "I32"
    [] kind \in {"Bool", "U8", "U16", "U32"} -> "U32"
    [] OTHER -> kind

(* The right operand is looked at first; an I8 there is read as an I32.    *)
Arithmetic(op(_, _, _), l, r) ==
  LET common == CommonType(l.kind, r.kind)
  IN IF r.kind \notin Integral THEN Error
     ELSE IF r.kind = "I8" THEN Throw
     ELSE IF l.kind \notin Integral THEN Error
     ELSE op(l, r, common)
Exact(l, common, n) ==
  IF common \in Signed /\ n \notin Lowest(common) .. Highest(common) THEN Undefined
  ELSE Value(ResultKind(l.kind), Convert(ResultKind(l.kind), Convert(common, n)))

Abs(n) == IF n < 0 THEN -n ELSE n
Floored(x, y) == IF y < 0 THEN (-x) \div (-y) ELSE x \div y       \* a variant of Truncated
Truncated(x, y) == IF (x < 0) = (y < 0) THEN Abs(x) \div Abs(y) ELSE -(Abs(x) \div Abs(y))
Untenable(common, x, y) == y = 0 \/ (x = Lowest(common) /\ y = -1 /\ common \in Signed)
Dividing(quotient(_, _), l, r, common) ==
  LET x == Convert(common, l.data)
      y == Convert(common, r.data)
  IN IF Untenable(common, x, y) THEN Trap ELSE Exact(l, common, quotient(x, y))

Add(l, r) == Arithmetic(LAMBDA a, b, c : Exact(a, c, Convert(c, a.data) + Convert(c, b.data)), l, r)
Sub(l, r) == Arithmetic(LAMBDA a, b, c : Exact(a, c, Convert(c, a.data) - Convert(c, b.data)), l, r)
Mul(l, r) == Arithmetic(LAMBDA a, b, c : Exact(a, c, Convert(c, a.data) * Convert(c, b.data)), l, r)
Div(l, r) == Arithmetic(LAMBDA a, b, c : Dividing(Truncated, a, b, c), l, r)
Mod(l, r) ==
  Arithmetic(LAMBDA a, b, c : Dividing(LAMBDA x, y : x - y * Truncated(x, y), a, b, c), l, r)
(* The bodies of these five are the body of Div.                           *)
And(l, r) == Div(l, r)
Or(l, r) == Div(l, r)
Xor(l, r) == Div(l, r)
Lsh(l, r) == Div(l, r)
Rsh(l, r) == Div(l, r)

(* The comparisons: the right operand is read as the kind of the left one. *)
Comparison(op(_, _), l, r) ==
  IF l.kind \notin {"I32", "Bool", "U64", "I8", "U8"} THEN Error
  ELSE IF r.kind # l.kind THEN Throw
  ELSE Value("Bool", IF op(l.data, r.data) THEN 1 ELSE 0)
Lt(l, r) == Comparison(<, l, r)
Gt(l, r) == Comparison(>, l, r)
Lte(l, r) == Comparison(<=, l, r)
Gte(l, r) == Comparison(>=, l, r)
Eq(l, r) == Comparison(LAMBDA x, y : x = y, l, r)
(* Neq goes through EqualToDirect, which throws what Eq calls an error.    *)
Neq(l, r) ==
  LET eq == Eq(l, r)
  IN IF eq.kind = "Bool" THEN Value("Bool", 1 - eq.data) ELSE Throw
=============================================================================
