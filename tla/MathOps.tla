-------------------------------- MODULE MathOps -------------------------------
(***************************************************************************)
(* The arithmetic operators (src/src/builtins/sli_math.cpp and             *)
(* sli_op_bodies.h).  A compact operator (add, max, gt...) looks at the    *)
(* tags of its operands; its typed leaves (add_ii, add_di...) are commands *)
(* of their own, do not look, and stand behind a type trie: they are       *)
(* stated here for operands of their types.                                *)
(***************************************************************************)
EXTENDS ArrayOps

CONSTANT Libm(_, _)     \* the functions of the C library, by name

\* The ones of one argument; pow has two.  They make a double of doubles.
LibmNames == {"sin", "asin", "cos", "acos", "exp", "ln", "log"}
ASSUME LibmAssumption ==
    \A x \in DoubleValues :
        /\ \A f \in LibmNames : Libm(f, <<x>>) \in DoubleValues
        /\ \A y \in DoubleValues : Libm("pow", <<x, y>>) \in DoubleValues

Dbl(x) == <<"double", x>>

\* The operands as longs, and as doubles: slot 1 on the left, slot 0 on the right.
Left(m) == DataAt(m, 1)
Right(m) == DataAt(m, 0)
DLeft(m) == AsDouble(At(m, 1))
DRight(m) == AsDouble(At(m, 0))

IsNumber(t) == Tag(t) \in NumberTags

\* The result takes slot 1 and the right operand goes.
Gives(m, t) == Done(SlotSet(Popped(m, 1), 0, t))
\* A result that does not fit a long is an error.
GivesLong(m, n) == Unless(m, n \notin Longs, "RangeCheck", Gives(m, IntTok(n)))
GivesTop(m, t) == Done(SlotSet(m, 0, t))

\* Two integers, or two numbers of which one is a double.
Arithmetic(m, onLongs, onDoubles) ==
    Needs(m, 2,
        Unless(m, ~IsNumber(At(m, 1)) \/ ~IsNumber(At(m, 0)), "ArgumentType",
            IF TagAt(m, 1) = "integer" /\ TagAt(m, 0) = "integer" THEN onLongs ELSE onDoubles))

-----------------------------------------------------------------------------
(* add, sub, mul, div, mod *)

AddFunction(m) ==
    Arithmetic(m, GivesLong(m, Left(m) + Right(m)), Gives(m, Dbl(Plus(DLeft(m), DRight(m)))))
SubFunction(m) ==
    Arithmetic(m, GivesLong(m, Left(m) - Right(m)), Gives(m, Dbl(Minus(DLeft(m), DRight(m)))))
MulFunction(m) ==
    Arithmetic(m, GivesLong(m, Left(m) * Right(m)), Gives(m, Dbl(Times(DLeft(m), DRight(m)))))

\* The one quotient of longs that does not fit is MinLong / -1.
DivLongs(m) ==
    Unless(m, Right(m) = 0, "DivisionByZero",
    Unless(m, Left(m) = MinLong /\ Right(m) = -1, "RangeCheck",
        Gives(m, IntTok(Quot(Left(m), Right(m))))))
DivDoubles(m) ==
    Unless(m, DRight(m) = Zero, "DivisionByZero", Gives(m, Dbl(Over(DLeft(m), DRight(m)))))
DivFunction(m) == Arithmetic(m, DivLongs(m), DivDoubles(m))

Add_iiFunction(m) == Needs(m, 2, GivesLong(m, Left(m) + Right(m)))
Add_ddFunction(m) == Needs(m, 2, Gives(m, Dbl(Plus(Left(m), Right(m)))))
Add_diFunction(m) == Needs(m, 2, Gives(m, Dbl(Plus(Left(m), FromLong(Right(m))))))
Add_idFunction(m) == Needs(m, 2, Gives(m, Dbl(Plus(FromLong(Left(m)), Right(m)))))
Sub_iiFunction(m) == Needs(m, 2, GivesLong(m, Left(m) - Right(m)))
Sub_ddFunction(m) == Needs(m, 2, Gives(m, Dbl(Minus(Left(m), Right(m)))))
Sub_diSwapped(m) == Needs(m, 2, Gives(m, Dbl(Minus(FromLong(Right(m)), Left(m)))))
Sub_diFunction(m) == Needs(m, 2, Gives(m, Dbl(Minus(Left(m), FromLong(Right(m))))))
Sub_idFunction(m) == Needs(m, 2, Gives(m, Dbl(Minus(FromLong(Left(m)), Right(m)))))
Mul_iiFunction(m) == Needs(m, 2, GivesLong(m, Left(m) * Right(m)))
Mul_ddFunction(m) == Needs(m, 2, Gives(m, Dbl(Times(Left(m), Right(m)))))
Mul_diFunction(m) == Needs(m, 2, Gives(m, Dbl(Times(Left(m), FromLong(Right(m))))))
Mul_idFunction(m) == Needs(m, 2, Gives(m, Dbl(Times(FromLong(Left(m)), Right(m)))))
Div_iiFunction(m) == Needs(m, 2, DivLongs(m))
Div_ddFunction(m) ==
    Needs(m, 2, Unless(m, Right(m) = Zero, "DivisionByZero",
        Gives(m, Dbl(Over(Left(m), Right(m))))))
Div_diFunction(m) ==
    Needs(m, 2, Unless(m, Right(m) = 0, "DivisionByZero",
        Gives(m, Dbl(Over(Left(m), FromLong(Right(m)))))))
Div_idFunction(m) ==
    Needs(m, 2, Unless(m, Right(m) = Zero, "DivisionByZero",
        Gives(m, Dbl(Over(FromLong(Left(m)), Right(m))))))

\* mod is this leaf itself, and no trie looks at the types for it: the payloads
\* are read as n and d, and the left one is overwritten whatever it is.
Mod_iiFunction(m, n, d) ==
    Needs(m, 2,
        Unless(m, d = 0, "DivisionByZero",
        Unless(m, n = MinLong /\ d = -1, "RangeCheck",
            Gives(m, IF TagAt(m, 1) = "integer" THEN IntTok(Rem(n, d)) ELSE Garbage))))

-----------------------------------------------------------------------------
(* max, min *)

Greatest(x, y) == IF x > y THEN x ELSE y
Least(x, y) == IF x < y THEN x ELSE y
\* Of doubles: the second unless the first is strictly beyond it.
DGreatest(x, y) == IF Smaller(y, x) THEN x ELSE y
DLeast(x, y) == IF Smaller(x, y) THEN x ELSE y

MaxFunction(m) ==
    Arithmetic(m, Gives(m, IntTok(Greatest(Left(m), Right(m)))),
                  Gives(m, Dbl(DGreatest(DLeft(m), DRight(m)))))
MinFunction(m) ==
    Arithmetic(m, Gives(m, IntTok(Least(Left(m), Right(m)))),
                  Gives(m, Dbl(DLeast(DLeft(m), DRight(m)))))

Max_i_iFunction(m) == Needs(m, 2, Gives(m, IntTok(Greatest(Right(m), Left(m)))))
Max_i_dFunction(m) == Needs(m, 2, Gives(m, Dbl(DGreatest(FromLong(Left(m)), Right(m)))))
Max_d_iFunction(m) == Needs(m, 2, Gives(m, Dbl(DGreatest(FromLong(Right(m)), Left(m)))))
Max_d_dFunction(m) == Needs(m, 2, Gives(m, Dbl(DGreatest(Right(m), Left(m)))))
Min_i_iFunction(m) == Needs(m, 2, Gives(m, IntTok(Least(Left(m), Right(m)))))
Min_i_dFunction(m) == Needs(m, 2, Gives(m, Dbl(DLeast(FromLong(Left(m)), Right(m)))))
Min_d_iFunction(m) == Needs(m, 2, Gives(m, Dbl(DLeast(FromLong(Right(m)), Left(m)))))
Min_d_dFunction(m) == Needs(m, 2, Gives(m, Dbl(DLeast(Right(m), Left(m)))))

-----------------------------------------------------------------------------
(* gt, lt, geq, leq *)

Holds(m, b) == Gives(m, Bool(b))

\* Numbers, or two strings by the order of their characters; strings are read
\* whatever their access state.
Compare(m, onLongs, onDoubles, onStrings) ==
    Needs(m, 2,
        IF TagAt(m, 1) = "string" /\ TagAt(m, 0) = "string" THEN Holds(m, onStrings)
        ELSE Arithmetic(m, Holds(m, onLongs), Holds(m, onDoubles)))

DAtMost(x, y) == Smaller(x, y) \/ Equal(x, y)

GtFunction(m) ==
    Compare(m, Left(m) > Right(m), Smaller(DRight(m), DLeft(m)), Before(Body(m, 0), Body(m, 1)))
LtFunction(m) ==
    Compare(m, Left(m) < Right(m), Smaller(DLeft(m), DRight(m)), Before(Body(m, 1), Body(m, 0)))
GeqOfEqualFails(m) ==
    Compare(m, Left(m) >= Right(m), DAtMost(DRight(m), DLeft(m)), Before(Body(m, 0), Body(m, 1)))
GeqFunction(m) ==
    Compare(m, Left(m) >= Right(m), DAtMost(DRight(m), DLeft(m)), ~Before(Body(m, 1), Body(m, 0)))
LeqFunction(m) ==
    Compare(m, Left(m) <= Right(m), DAtMost(DLeft(m), DRight(m)), ~Before(Body(m, 0), Body(m, 1)))

Gt_iiFunction(m) == Needs(m, 2, Holds(m, Left(m) > Right(m)))
Gt_ddFunction(m) == Needs(m, 2, Holds(m, Smaller(Right(m), Left(m))))
Gt_idFunction(m) == Needs(m, 2, Holds(m, Smaller(Right(m), FromLong(Left(m)))))
Gt_diFunction(m) == Needs(m, 2, Holds(m, Smaller(FromLong(Right(m)), Left(m))))
Lt_iiFunction(m) == Needs(m, 2, Holds(m, Left(m) < Right(m)))
Lt_ddFunction(m) == Needs(m, 2, Holds(m, Smaller(Left(m), Right(m))))
Lt_idFunction(m) == Needs(m, 2, Holds(m, Smaller(FromLong(Left(m)), Right(m))))
Lt_diFunction(m) == Needs(m, 2, Holds(m, Smaller(Left(m), FromLong(Right(m)))))
Geq_iiFunction(m) == Needs(m, 2, Holds(m, Left(m) >= Right(m)))
Geq_ddFunction(m) == Needs(m, 2, Holds(m, DAtMost(Right(m), Left(m))))
Geq_idFunction(m) == Needs(m, 2, Holds(m, DAtMost(Right(m), FromLong(Left(m)))))
Geq_diFunction(m) == Needs(m, 2, Holds(m, DAtMost(FromLong(Right(m)), Left(m))))
Leq_iiFunction(m) == Needs(m, 2, Holds(m, Left(m) <= Right(m)))
Leq_ddFunction(m) == Needs(m, 2, Holds(m, DAtMost(Left(m), Right(m))))
Leq_idFunction(m) == Needs(m, 2, Holds(m, DAtMost(FromLong(Left(m)), Right(m))))
Leq_diFunction(m) == Needs(m, 2, Holds(m, DAtMost(Left(m), FromLong(Right(m)))))

\* The left token becomes a boolean without giving its string back.
StringLeaf(m, holds) ==
    Typed(m, <<"string", "string">>, Holds(Lost(m, Left(m)), holds))
Gt_ssFunction(m) == StringLeaf(m, Before(Body(m, 0), Body(m, 1)))
Lt_ssFunction(m) == StringLeaf(m, Before(Body(m, 1), Body(m, 0)))

-----------------------------------------------------------------------------
(* and, or, xor, not *)

\* Two booleans or two integers.
Logical(m, onBools, onLongs) ==
    Needs(m, 2,
        CASE TagAt(m, 1) = "bool" /\ TagAt(m, 0) = "bool" -> Gives(m, Bool(onBools))
          [] TagAt(m, 1) = "integer" /\ TagAt(m, 0) = "integer" -> Gives(m, IntTok(onLongs))
          [] OTHER -> Raise(m, "ArgumentType"))

AndPolyFunction(m) == Logical(m, Left(m) /\ Right(m), BitAnd(Left(m), Right(m)))
OrPolyFunction(m) == Logical(m, Left(m) \/ Right(m), BitOr(Left(m), Right(m)))
XorPolyFunction(m) == Logical(m, Left(m) # Right(m), BitXor(Left(m), Right(m)))
NotPolyFunction(m) ==
    Needs(m, 1,
        CASE TagAt(m, 0) = "bool" -> GivesTop(m, Bool(~Right(m)))
          [] TagAt(m, 0) = "integer" -> GivesTop(m, IntTok(-Right(m) - 1))
          [] OTHER -> Raise(m, "ArgumentType"))

And_iiFunction(m) == Needs(m, 2, Gives(m, IntTok(BitAnd(Left(m), Right(m)))))
Or_bbFunction(m) == Needs(m, 2, Gives(m, Bool(Left(m) \/ Right(m))))
Or_iiFunction(m) == Needs(m, 2, Gives(m, IntTok(BitOr(Left(m), Right(m)))))
Xor_bbFunction(m) == Needs(m, 2, Gives(m, Bool(Left(m) # Right(m))))
Xor_iiFunction(m) == Needs(m, 2, Gives(m, IntTok(BitXor(Left(m), Right(m)))))
Not_bFunction(m) == Needs(m, 1, GivesTop(m, Bool(~Right(m))))
Not_iFunction(m) == Needs(m, 1, GivesTop(m, IntTok(-Right(m) - 1)))

-----------------------------------------------------------------------------
(* One operand *)

\* A compact function of a double: an integer is converted first.
UnaryDouble(m, x) ==
    Needs(m, 1, IF IsNumber(At(m, 0)) THEN GivesTop(m, Dbl(x)) ELSE Raise(m, "ArgumentType"))

\* sin, asin, cos, acos, exp, ln, log: what the C library makes of the operand.
UnaryFunction(m, f) == UnaryDouble(m, Libm(f, <<DRight(m)>>))
SqrFunction(m) == UnaryDouble(m, Times(DRight(m), DRight(m)))
SqrtFunction(m) == UnaryDouble(m, SquareRoot(DRight(m)))

\* The leaves of the same names look at their operand's value first.
TrigLeaf(m, f) == Typed(m, <<"double">>, GivesTop(m, Dbl(Libm(f, <<Right(m)>>))))
Log_dFunction(m) ==
    Typed(m, <<"double">>, Unless(m, ~Smaller(Zero, Right(m)), "RangeCheck",
        GivesTop(m, Dbl(Libm("log", <<Right(m)>>)))))
Ln_dFunction(m) ==
    Typed(m, <<"double">>, Unless(m, ~Smaller(Zero, Right(m)), "RangeCheck",
        GivesTop(m, Dbl(Libm("ln", <<Right(m)>>)))))
Sqr_dFunction(m) == Typed(m, <<"double">>, GivesTop(m, Dbl(Times(Right(m), Right(m)))))
Sqrt_dFunction(m) ==
    Typed(m, <<"double">>, Unless(m, ~DAtMost(Zero, Right(m)), "RangeCheck",
        GivesTop(m, Dbl(SquareRoot(Right(m))))))

\* The sign of the exponent is looked at before it becomes a double.
PowFunction(m) ==
    Needs(m, 2,
        Unless(m, ~IsNumber(At(m, 1)) \/ ~IsNumber(At(m, 0)), "ArgumentType",
        Unless(m, DLeft(m) = Zero /\ Smaller(DRight(m), Zero), "RangeCheck",
            Gives(m, Dbl(Libm("pow", <<DLeft(m), DRight(m)>>))))))
Pow_ddFunction(m) ==
    Typed(m, <<"double", "double">>,
        Unless(m, Left(m) = Zero /\ Smaller(Right(m), Zero), "RangeCheck",
            Gives(m, Dbl(Libm("pow", <<Left(m), Right(m)>>)))))
Pow_diFunction(m) ==
    Typed(m, <<"double", "integer">>,
        Unless(m, Left(m) = Zero /\ Right(m) < 0, "RangeCheck",
            Gives(m, Dbl(Libm("pow", <<Left(m), FromLong(Right(m))>>)))))

Modf_dFunction(m) ==
    Typed(m, <<"double">>,
        LET x == Right(m)
            frac == IF IsFinite(x) THEN Minus(x, Truncated(x)) ELSE IF x = NaN THEN NaN ELSE Zero
        IN  Done(Pushed(SlotSet(m, 0, Dbl(frac)), Dbl(Truncated(x)))))
Frexp_dFunction(m) ==
    Typed(m, <<"double">>,
        Done(Pushed(SlotSet(m, 0, Dbl(Fraction(Right(m)))), IntTok(Exponent(Right(m))))))

\* std::ldexp takes an int: a long loses its high bits on the way.
Ldexp_diFunction(m) ==
    Typed(m, <<"double", "integer">>, Gives(m, Dbl(Scaled(Left(m), ToInt(Right(m))))))
Dexp_iFunction(m) == Typed(m, <<"integer">>, GivesTop(m, Dbl(Scaled(One, ToInt(Right(m))))))

Abs_iFunction(m) ==
    Typed(m, <<"integer">>,
        Unless(m, Right(m) = MinLong, "RangeCheck", GivesTop(m, IntTok(Abs(Right(m))))))
Neg_iFunction(m) ==
    Typed(m, <<"integer">>,
        Unless(m, Right(m) = MinLong, "RangeCheck", GivesTop(m, IntTok(-Right(m)))))
Abs_dFunction(m) ==
    Typed(m, <<"double">>,
        GivesTop(m, Dbl(IF Smaller(Right(m), Zero) THEN Negated(Right(m)) ELSE Right(m))))
Neg_dFunction(m) == Typed(m, <<"double">>, GivesTop(m, Dbl(Negated(Right(m)))))
Inv_dFunction(m) ==
    Typed(m, <<"double">>,
        Unless(m, Right(m) = Zero, "DivisionByZero", GivesTop(m, Dbl(Over(One, Right(m))))))

UnitStep_dFunction(m) ==
    Needs(m, 1, GivesTop(m, Dbl(IF DAtMost(Zero, Right(m)) THEN One ELSE Zero)))
UnitStep_iFunction(m) == Needs(m, 1, GivesTop(m, IntTok(IF Right(m) >= 0 THEN 1 ELSE 0)))

\* The elements are looked at one by one up to the first that is negative, so a
\* wrong type after it goes unnoticed.
StepOver(m, tag, negative, on, off) ==
    LET s == Body(m, 0)
        stops == {i \in DOMAIN s : Tag(s[i]) # tag \/ s[i] \in negative}
        stop == CHOOSE i \in stops : \A j \in stops : i <= j
    IN  IF stops = {} THEN GivesTop(m, on)
        ELSE IF Tag(s[stop]) # tag THEN Raise(m, "TypeMismatch")
        ELSE GivesTop(m, off)
UnitStep_daFunction(m) ==
    Needs(m, 1, StepOver(m, "double", {Dbl(x) : x \in {y \in DoubleValues : Smaller(y, Zero)}},
                         Dbl(One), Dbl(Zero)))
UnitStep_iaFunction(m) ==
    Needs(m, 1, StepOver(m, "integer", {IntTok(n) : n \in MinLong..(-1)}, IntTok(1), IntTok(0)))

Round_dFunction(m) == Needs(m, 1, GivesTop(m, Dbl(Nearest(Right(m)))))
Floor_dFunction(m) == Needs(m, 1, GivesTop(m, Dbl(Floor(Right(m)))))
Ceil_dFunction(m) == Needs(m, 1, GivesTop(m, Dbl(Ceil(Right(m)))))

-----------------------------------------------------------------------------
(* int_d, double_i, cvi, cvd *)

\* The cast of a double outside the range of long is undefined: the caller
\* passes what the build makes of it.
Casts(t) ==
    LET q == Truncated(Data(t))
    IN  IF IsFinite(q) /\ q[2] \div Unit \in Longs THEN {q[2] \div Unit} ELSE Longs
IntegerFunction(m, cast) == Needs(m, 1, GivesTop(m, IntTok(cast)))
DoubleFunction(m) == Needs(m, 1, GivesTop(m, Dbl(FromLong(Right(m)))))

CviFunction(m, cast) ==
    Needs(m, 1,
        CASE TagAt(m, 0) = "integer" -> Done(m)
          [] TagAt(m, 0) = "double" -> IntegerFunction(m, cast)
          [] OTHER -> Raise(m, "ArgumentType"))
CvdFunction(m) ==
    Needs(m, 1,
        CASE TagAt(m, 0) = "integer" -> DoubleFunction(m)
          [] TagAt(m, 0) = "double" -> Done(m)
          [] OTHER -> Raise(m, "ArgumentType"))

FiniteQDFunction(m) == Typed(m, <<"double">>, GivesTop(m, Bool(IsFinite(Right(m)))))
=============================================================================
