-------------------------------- MODULE Doubles -------------------------------
(***************************************************************************)
(* The numbers of the arithmetic operators (src/src/builtins/sli_math.cpp):*)
(* long and int of a few bits, and a small binary floating-point format    *)
(* that keeps what matters about double: rounding to nearest, ties to even,*)
(* of sums, products, quotients and of converted integers; overflow to     *)
(* infinity; NaN.  It has no negative zero.                                *)
(*                                                                         *)
(* A finite double is <<"fin", u>>, u counting quarters.                   *)
(***************************************************************************)
EXTENDS Integers, FiniteSetsExt

CONSTANTS
    LongBits,       \* the width of long
    IntBits,        \* the width of int, at most that of long
    Precision,      \* significant bits of a double
    MaxFinite       \* the largest finite double, in quarters

Pow2[n \in Nat] == IF n = 0 THEN 1 ELSE 2 * Pow2[n - 1]

ASSUME DoublesAssumption ==
    /\ LongBits \in Nat \ {0} /\ IntBits \in 1..LongBits
    /\ Precision \in Nat \ {0}
    /\ MaxFinite \in Nat /\ MaxFinite >= 4 * Pow2[LongBits - 1]

-----------------------------------------------------------------------------
(* long and int *)

MinLong == -Pow2[LongBits - 1]
MaxLong == Pow2[LongBits - 1] - 1
Longs == MinLong..MaxLong

\* Conversion of a long to int keeps the low bits.
ToInt(n) == ((n + Pow2[IntBits - 1]) % Pow2[IntBits]) - Pow2[IntBits - 1]

Abs(n) == IF n < 0 THEN -n ELSE n
Sign(n) == IF n < 0 THEN -1 ELSE 1

QuotFloor(n, d) == (n * Sign(d)) \div Abs(d)
\* C's quotient and remainder: the quotient is cut towards zero.
Quot(n, d) == Sign(n) * Sign(d) * (Abs(n) \div Abs(d))
Rem(n, d) == n - d * Quot(n, d)

\* Two's complement, bit by bit.
Bit(n, i) == (n \div Pow2[i]) % 2
FromBits(b) ==
    LET low[n \in 0..(LongBits - 1)] == IF n = 0 THEN 0 ELSE low[n - 1] + b[n - 1] * Pow2[n - 1]
    IN  low[LongBits - 1] - b[LongBits - 1] * Pow2[LongBits - 1]
BitAnd(m, n) == FromBits([i \in 0..(LongBits - 1) |-> Bit(m, i) * Bit(n, i)])
BitXor(m, n) == FromBits([i \in 0..(LongBits - 1) |-> (Bit(m, i) + Bit(n, i)) % 2])
BitOr(m, n) == BitXor(BitXor(m, n), BitAnd(m, n))

-----------------------------------------------------------------------------
(* The format *)

Unit == 4
NaN == <<"nan", 0>>
Inf(s) == <<"inf", s>>
Fin(u) == <<"fin", u>>
Zero == Fin(0)
One == Fin(Unit)
IsFinite(x) == x[1] = "fin"

\* The distance between u and the next double away from zero.
Ulp(u) ==
    IF Abs(u) < Pow2[Precision] THEN 1
    ELSE Pow2[CHOOSE k \in 1..Abs(u) :
                  Pow2[Precision - 1 + k] <= Abs(u) /\ Abs(u) < Pow2[Precision + k]]

Finite == {u \in (-MaxFinite)..MaxFinite : u % Ulp(u) = 0}
ASSUME MaxFiniteAssumption == MaxFinite \in Finite /\ MaxFinite % Unit = 0
DoubleValues == {Fin(u) : u \in Finite} \cup {Inf(1), Inf(-1), NaN}

\* The double nearest to p / q quarters, q > 0.
Rounded(p, q) ==
    LET z == Ulp(Abs(p) \div q)
        Below == (Abs(p) \div (q * z)) * z
        Twice == 2 * (Abs(p) - Below * q)
        Down == Twice < z * q \/ (Twice = z * q /\ (Below \div z) % 2 = 0)
    IN  IF 2 * Abs(p) >= (2 * MaxFinite + Ulp(MaxFinite)) * q THEN Inf(Sign(p))
        ELSE Fin(Sign(p) * (IF Down THEN Below ELSE Below + z))

FromLong(n) == Rounded(n * Unit, 1)

-----------------------------------------------------------------------------
(* Operations *)

Negated(x) == <<x[1], -x[2]>>

Plus(x, y) ==
    CASE IsFinite(x) /\ IsFinite(y) -> Rounded(x[2] + y[2], 1)
      [] x = NaN \/ y = NaN \/ (~IsFinite(x) /\ y = Negated(x)) -> NaN
      [] OTHER -> IF IsFinite(x) THEN y ELSE x
Minus(x, y) == Plus(x, Negated(y))

Times(x, y) ==
    IF IsFinite(x) /\ IsFinite(y) THEN Rounded(x[2] * y[2], Unit)
    ELSE IF x = NaN \/ y = NaN \/ x = Zero \/ y = Zero THEN NaN
    ELSE Inf(Sign(x[2]) * Sign(y[2]))

\* For a divisor that is not zero.
Over(x, y) ==
    CASE IsFinite(x) /\ IsFinite(y) -> Rounded(x[2] * Unit * Sign(y[2]), Abs(y[2]))
      [] x = NaN \/ y = NaN \/ (~IsFinite(x) /\ ~IsFinite(y)) -> NaN
      [] OTHER -> IF IsFinite(x) THEN Zero ELSE Inf(Sign(x[2]) * Sign(y[2]))

Equal(x, y) == x = y /\ x # NaN
Smaller(x, y) ==
    /\ x # NaN /\ y # NaN
    /\ IF IsFinite(x) /\ IsFinite(y) THEN x[2] < y[2]
       ELSE x # y /\ (x = Inf(-1) \/ y = Inf(1))

SquareRoot(x) ==
    IF x = NaN \/ Smaller(x, Zero) THEN NaN
    ELSE IF ~IsFinite(x) THEN x
    ELSE LET below == Max({u \in Finite : u >= 0 /\ u * u <= Unit * x[2]})
             above == IF below = MaxFinite THEN below ELSE Min({u \in Finite : u > below})
         IN  IF (below + above)^2 > 4 * Unit * x[2] THEN Fin(below) ELSE Fin(above)

\* floor, ceil and round are exact; round takes halves away from zero.
Floor(x) == IF IsFinite(x) THEN Fin((x[2] \div Unit) * Unit) ELSE x
Ceil(x) == Negated(Floor(Negated(x)))
Nearest(x) ==
    IF IsFinite(x) THEN Fin(Sign(x[2]) * ((Abs(x[2]) + Unit \div 2) \div Unit) * Unit) ELSE x
Truncated(x) == IF Smaller(x, Zero) THEN Ceil(x) ELSE Floor(x)

\* x * 2^n.
Scaled(x, n) ==
    IF ~IsFinite(x) THEN x
    ELSE IF n >= 0 THEN Rounded(x[2] * Pow2[n], 1) ELSE Rounded(x[2], Pow2[-n])

\* The fraction in [1/2, 1) and the exponent of a finite double; a unit is 2^2.
Exponent(x) ==
    IF x = Zero \/ ~IsFinite(x) THEN 0
    ELSE CHOOSE e \in -1..MaxFinite : Pow2[e + 1] <= Abs(x[2]) /\ Abs(x[2]) < Pow2[e + 2]
Fraction(x) == Scaled(x, -Exponent(x))
=============================================================================
