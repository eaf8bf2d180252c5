----------------------------- MODULE OperatorsProofs ---------------------------
(***************************************************************************)
(* Programs of literals and operators, for any programs, operators and     *)
(* bounds: the operators on numbers, the two ways of saved states, the     *)
(* steps of a program, and the theorems.                                   *)
(***************************************************************************)
EXTENDS HeapProofs

-----------------------------------------------------------------------------
(* Numbers *)

LEMMA RightOperand ==
    ASSUME NEW k, Sound(k), Load(k) >= 1
    PROVE  /\ TagAt(k, 0) = "integer" => Right(k) \in Int /\ FromLong(Right(k)) \in DoubleValues
           /\ TagAt(k, 0) = "double" => Right(k) \in DoubleValues
           /\ TagAt(k, 0) = "bool" => Right(k) \in BOOLEAN
           /\ IsNumber(At(k, 0)) => DRight(k) \in DoubleValues
<1>1. At(k, 0) \in Toks(k.heap) /\ Right(k) = Data(At(k, 0)) /\ TagAt(k, 0) = Tag(At(k, 0))
  BY Operands DEF Right, DataAt, TagAt
<1>2. IsNumber(At(k, 0)) => DRight(k) \in DoubleValues
  BY <1>1, NumberIsDouble DEF IsNumber, DRight
<1> QED
  BY <1>1, <1>2, TokenData, FromLongIsDouble

LEMMA LeftOperand ==
    ASSUME NEW k, Sound(k), Load(k) >= 2
    PROVE  /\ TagAt(k, 1) = "integer" => Left(k) \in Int /\ FromLong(Left(k)) \in DoubleValues
           /\ TagAt(k, 1) = "double" => Left(k) \in DoubleValues
           /\ TagAt(k, 1) = "bool" => Left(k) \in BOOLEAN
           /\ IsNumber(At(k, 1)) => DLeft(k) \in DoubleValues
<1>1. At(k, 1) \in Toks(k.heap) /\ Left(k) = Data(At(k, 1)) /\ TagAt(k, 1) = Tag(At(k, 1))
  BY Operands DEF Left, DataAt, TagAt
<1>2. IsNumber(At(k, 1)) => DLeft(k) \in DoubleValues
  BY <1>1, NumberIsDouble DEF IsNumber, DLeft
<1> QED
  BY <1>1, <1>2, TokenData, FromLongIsDouble

\* The result of a binary operator takes the place of its operands.
LEMMA GivesGood ==
    ASSUME NEW k, Sound(k), Load(k) >= 2, NEW t \in Toks(k.heap)
    PROVE  Good(k, Gives(k, t))
<1>1. PICK g : g = Popped(k, 1)
  OBVIOUS
<1>2. Load(k) \in Nat
  BY LoadIsNat
<1>3. PICK one \in Nat : one = 1 /\ one <= Load(k) /\ one \in 0..Load(k)
  BY <1>2
<1>4. Ok(k, g) /\ Load(g) = Load(k) - 1 /\ g.heap = k.heap
  BY <1>1, <1>3, OkPopped
<1>5. Sound(g) /\ 0 \in 0..(Load(g) - 1)
  BY <1>2, <1>4 DEF Ok
<1>6. Ok(g, SlotSet(g, 0, t))
  BY <1>4, <1>5, OkSlotSet
<1>7. Ok(k, SlotSet(g, 0, t))
  BY <1>4, <1>6, OkTrans
<1> QED
  BY <1>1, <1>7, GoodDone DEF Gives

LEMMA GivesInt ==
    ASSUME NEW k, Sound(k), Load(k) >= 2, NEW n \in Int
    PROVE  Good(k, Gives(k, IntTok(n)))
BY ScalarsAreTokens, GivesGood

LEMMA GivesLongGood ==
    ASSUME NEW k, Sound(k), Load(k) >= 2, NEW n \in Int
    PROVE  Good(k, GivesLong(k, n))
<1>1. PICK out : out = Gives(k, IntTok(n))
  OBVIOUS
<1>2. Good(k, out)
  BY <1>1, GivesInt
<1>3. Good(k, Unless(k, n \notin Longs, "RangeCheck", out))
  BY <1>2, GoodUnless, PlainErrors
<1> QED
  BY <1>1, <1>3 DEF GivesLong

LEMMA GivesDouble ==
    ASSUME NEW k, Sound(k), Load(k) >= 2, NEW x \in DoubleValues
    PROVE  Good(k, Gives(k, Dbl(x)))
BY ScalarsAreTokens, GivesGood

LEMMA GivesBool ==
    ASSUME NEW k, Sound(k), Load(k) >= 2, NEW b \in BOOLEAN
    PROVE  Good(k, Gives(k, Bool(b))) /\ Good(k, Holds(k, b))
<1>1. Bool(b) \in Toks(k.heap)
  BY ScalarsAreTokens, Zenon
<1>2. Good(k, Gives(k, Bool(b)))
  BY <1>1, GivesGood, Zenon
<1> QED
  BY <1>2, Zenon DEF Holds

LEMMA GivesTopGood ==
    ASSUME NEW k, Sound(k), Load(k) >= 1, NEW t \in Toks(k.heap)
    PROVE  Good(k, GivesTop(k, t))
BY GoodTop DEF GivesTop

LEMMA TopInt ==
    ASSUME NEW k, Sound(k), Load(k) >= 1, NEW n \in Int
    PROVE  Good(k, GivesTop(k, IntTok(n)))
BY ScalarsAreTokens, GivesTopGood

LEMMA TopDouble ==
    ASSUME NEW k, Sound(k), Load(k) >= 1, NEW x \in DoubleValues
    PROVE  Good(k, GivesTop(k, Dbl(x)))
BY ScalarsAreTokens, GivesTopGood

LEMMA TopBool ==
    ASSUME NEW k, Sound(k), Load(k) >= 1, NEW b \in BOOLEAN
    PROVE  Good(k, GivesTop(k, Bool(b)))
<1>1. Bool(b) \in Toks(k.heap)
  BY ScalarsAreTokens, Zenon
<1> QED
  BY <1>1, GivesTopGood, Zenon

\* A compact operator on two numbers.
LEMMA ArithmeticGood ==
    ASSUME NEW k, Sound(k), NEW a, NEW b,
           Load(k) >= 2 /\ TagAt(k, 1) = "integer" /\ TagAt(k, 0) = "integer" => Good(k, a),
           Load(k) >= 2 /\ IsNumber(At(k, 1)) /\ IsNumber(At(k, 0)) => Good(k, b)
    PROVE  Good(k, Arithmetic(k, a, b))
<1>1. Good(k, Raise(k, "ArgumentType"))
  BY GoodRaise, PlainErrors
<1>2. PICK out : out = IF ~IsNumber(At(k, 1)) \/ ~IsNumber(At(k, 0)) THEN Raise(k, "ArgumentType")
                       ELSE IF TagAt(k, 1) = "integer" /\ TagAt(k, 0) = "integer" THEN a ELSE b
  OBVIOUS
<1>3. ASSUME Load(k) >= 2 PROVE Good(k, out)
  BY <1>1, <1>2, <1>3
<1>4. Good(k, Needs(k, 2, out))
  BY <1>3, GoodNeeds
<1> QED
  BY <1>2, <1>4 DEF Arithmetic, Unless

\* An integer that is not zero becomes a double of its sign.
LEMMA FromLongKeepsSign ==
    ASSUME NEW n \in Int, n # 0
    PROVE  FromLong(n) # Zero /\ FromLong(n) # NaN /\ (Smaller(FromLong(n), Zero) <=> n < 0)
<1>1. PICK p \in Int : p = n * Unit /\ p # 0 /\ (p < 0 <=> n < 0)
  BY DEF Unit
<1>2. PICK a \in Nat : a = Abs(p) /\ a # 0
  BY <1>1, AbsIsNat
<1>3. PICK one \in Nat \ {0} : one = 1 /\ a \div one = a
  BY <1>2
<1>4. PICK k \in Nat : Binade(a, k)
  BY BinadeExists
<1>5. PICK z \in Nat \ {0} : z = Ulp(a) /\ z = Pow2[k]
  <2>1. Abs(a) = a
    BY AbsIsNat
  <2> QED
    BY <1>4, <2>1, UlpIsOfBinade, PowersUnfold
<1>6. z <= a
  <2>1. CASE k = 0
    BY <1>2, <1>5, <2>1, PowersUnfold
  <2>2. CASE k # 0
    <3>1. PICK l \in Nat : l = Precision - 1 + k /\ k <= l
      BY <2>2, DoublesAssumption
    <3>2. Pow2[l] <= a
      BY <1>4, <2>2, <3>1 DEF Binade
    <3>3. Pow2[k] <= Pow2[l] /\ Pow2[k] \in Nat /\ Pow2[l] \in Nat
      BY <3>1, PowersAreOrdered, PowersUnfold
    <3> QED
      BY <1>5, <3>2, <3>3
  <2> QED
    BY <2>1, <2>2
<1>7. PICK c \in Nat : c = a \div (one * z) /\ c >= 1
  <2>1. one * z = z
    BY <1>3
  <2>2. a \div z >= 1 /\ a \div z \in Nat
    BY <1>6
  <2> QED
    BY <2>1, <2>2
<1>8. PICK w \in Nat : w = c * z /\ w >= 1
  BY <1>7
<1>9. PICK s \in {1, -1} : s = Sign(p) /\ (s = -1 <=> p < 0)
  BY AbsIsNat DEF Sign
<1>10. PICK b \in {w, w + z} : FromLong(n) = Fin(s * b) \/ FromLong(n) = Inf(s)
  <2>1. PICK down : down = IF 2 * (a - w * one) < z * one \/ (2 * (a - w * one) = z * one /\ (w \div z) % 2 = 0) THEN w ELSE w + z
    OBVIOUS
  <2>2. Rounded(p, one) = Fin(s * down) \/ Rounded(p, one) = Inf(s)
    BY <1>2, <1>3, <1>5, <1>7, <1>8, <1>9, <2>1 DEF Rounded
  <2>3. down \in {w, w + z}
    BY <2>1
  <2> QED
    BY <1>1, <1>3, <2>2, <2>3 DEF FromLong
<1>11. PICK v \in Int : v = s * b /\ v # 0 /\ (v < 0 <=> n < 0)
  BY <1>1, <1>8, <1>9, <1>10
<1>12. CASE FromLong(n) = Fin(s * b)
  BY <1>11, <1>12 DEF Zero, Fin, NaN, Smaller, IsFinite
<1>13. CASE FromLong(n) = Inf(s)
  BY <1>1, <1>9, <1>13 DEF Zero, Fin, NaN, Inf, Smaller, IsFinite
<1> QED
  BY <1>10, <1>12, <1>13

LEMMA ZeroBecomesZero == FromLong(0) = Zero
<1>1. PICK p \in Int : p = 0 * Unit /\ p = 0
  BY DEF Unit
<1>2. PICK a \in Nat : a = Abs(p) /\ a = 0
  BY <1>1, AbsIsNat
<1>3. PICK one \in Nat \ {0} : one = 1 /\ a \div one = a
  BY <1>2
<1>4. PICK k \in Nat : Binade(a, k)
  BY BinadeExists
<1>5. PICK z \in Nat \ {0} : z = Ulp(a)
  <2>1. Abs(a) = a
    BY AbsIsNat
  <2> QED
    BY <1>4, <2>1, UlpIsOfBinade, PowersUnfold
<1>6. PICK c \in Nat : c = a \div (one * z) /\ c = 0
  <2>1. PICK y \in Nat \ {0} : y = one * z
    BY <1>3
  <2> QED
    BY <1>2, <2>1
<1>7. PICK w \in Nat : w = c * z /\ w = 0
  BY <1>6
<1>8. PICK lim \in Nat \ {0} : lim = (2 * MaxFinite + Ulp(MaxFinite)) * one
  <2>1. PICK i \in Nat : Binade(MaxFinite, i)
    BY DoublesAssumption, BinadeExists
  <2>2. Abs(MaxFinite) = MaxFinite /\ MaxFinite \in Nat
    BY DoublesAssumption, AbsIsNat
  <2>3. PICK y \in Nat \ {0} : y = Ulp(MaxFinite)
    BY <2>1, <2>2, UlpIsOfBinade, PowersUnfold
  <2>4. PICK x \in Nat \ {0} : x = 2 * MaxFinite + y
    BY <2>2
  <2> QED
    BY <1>3, <2>3, <2>4
<1>9. PICK s \in {1, -1} : s = Sign(p)
  BY AbsIsNat
<1>10. 2 * (a - w * one) < z * one /\ ~(2 * a >= lim)
  BY <1>2, <1>3, <1>7, <1>8
<1>11. Rounded(p, one) = Fin(s * w)
  BY <1>2, <1>3, <1>5, <1>6, <1>7, <1>8, <1>9, <1>10 DEF Rounded
<1>12. s * w = 0
  BY <1>7, <1>9
<1> QED
  BY <1>1, <1>3, <1>11, <1>12 DEF FromLong, Zero

LEMMA BothOperands ==
    ASSUME NEW k, Sound(k), Load(k) >= 2
    PROVE  /\ TagAt(k, 1) = "integer" => Left(k) \in Int /\ FromLong(Left(k)) \in DoubleValues
           /\ TagAt(k, 0) = "integer" => Right(k) \in Int /\ FromLong(Right(k)) \in DoubleValues
           /\ TagAt(k, 1) = "double" => Left(k) \in DoubleValues
           /\ TagAt(k, 0) = "double" => Right(k) \in DoubleValues
           /\ TagAt(k, 1) = "bool" => Left(k) \in BOOLEAN
           /\ TagAt(k, 0) = "bool" => Right(k) \in BOOLEAN
           /\ IsNumber(At(k, 1)) => DLeft(k) \in DoubleValues
           /\ IsNumber(At(k, 0)) => DRight(k) \in DoubleValues
<1>1. Load(k) >= 1
  BY LoadIsNat
<1> QED
  BY <1>1, LeftOperand, RightOperand

LEMMA NeedsTwo ==
    ASSUME NEW k, Sound(k), NEW out, Good(k, out)
    PROVE  Good(k, Needs(k, 2, out))
BY GoodNeeds

LEMMA AddGood == ASSUME NEW k, Sound(k) PROVE Good(k, AddFunction(k))
<1> DEFINE longs == GivesLong(k, Left(k) + Right(k))
           doubles == Gives(k, Dbl(Plus(DLeft(k), DRight(k))))
<1>1. ASSUME Load(k) >= 2 /\ TagAt(k, 1) = "integer" /\ TagAt(k, 0) = "integer" PROVE Good(k, longs)
  <2>1. PICK n \in Int : n = Left(k) + Right(k)
    BY <1>1, BothOperands
  <2> QED
    BY <1>1, <2>1, GivesLongGood
<1>2. ASSUME Load(k) >= 2 /\ IsNumber(At(k, 1)) /\ IsNumber(At(k, 0)) PROVE Good(k, doubles)
  <2>1. Plus(DLeft(k), DRight(k)) \in DoubleValues
    BY <1>2, BothOperands, PlusIsDouble
  <2> QED
    BY <1>2, <2>1, GivesDouble
<1> HIDE DEF longs, doubles
<1>3. Good(k, Arithmetic(k, longs, doubles))
  BY <1>1, <1>2, ArithmeticGood
<1> QED
  BY <1>3 DEF AddFunction, longs, doubles

LEMMA SubGood == ASSUME NEW k, Sound(k) PROVE Good(k, SubFunction(k))
<1> DEFINE longs == GivesLong(k, Left(k) - Right(k))
           doubles == Gives(k, Dbl(Minus(DLeft(k), DRight(k))))
<1>1. ASSUME Load(k) >= 2 /\ TagAt(k, 1) = "integer" /\ TagAt(k, 0) = "integer" PROVE Good(k, longs)
  <2>1. PICK n \in Int : n = Left(k) - Right(k)
    BY <1>1, BothOperands
  <2> QED
    BY <1>1, <2>1, GivesLongGood
<1>2. ASSUME Load(k) >= 2 /\ IsNumber(At(k, 1)) /\ IsNumber(At(k, 0)) PROVE Good(k, doubles)
  <2>1. Minus(DLeft(k), DRight(k)) \in DoubleValues
    BY <1>2, BothOperands, MinusIsDouble
  <2> QED
    BY <1>2, <2>1, GivesDouble
<1> HIDE DEF longs, doubles
<1>3. Good(k, Arithmetic(k, longs, doubles))
  BY <1>1, <1>2, ArithmeticGood
<1> QED
  BY <1>3 DEF SubFunction, longs, doubles

LEMMA MulGood == ASSUME NEW k, Sound(k) PROVE Good(k, MulFunction(k))
<1> DEFINE longs == GivesLong(k, Left(k) * Right(k))
           doubles == Gives(k, Dbl(Times(DLeft(k), DRight(k))))
<1>1. ASSUME Load(k) >= 2 /\ TagAt(k, 1) = "integer" /\ TagAt(k, 0) = "integer" PROVE Good(k, longs)
  <2>1. PICK n \in Int : n = Left(k) * Right(k)
    BY <1>1, BothOperands
  <2> QED
    BY <1>1, <2>1, GivesLongGood
<1>2. ASSUME Load(k) >= 2 /\ IsNumber(At(k, 1)) /\ IsNumber(At(k, 0)) PROVE Good(k, doubles)
  <2>1. Times(DLeft(k), DRight(k)) \in DoubleValues
    BY <1>2, BothOperands, TimesIsDouble
  <2> QED
    BY <1>2, <2>1, GivesDouble
<1> HIDE DEF longs, doubles
<1>3. Good(k, Arithmetic(k, longs, doubles))
  BY <1>1, <1>2, ArithmeticGood
<1> QED
  BY <1>3 DEF MulFunction, longs, doubles

LEMMA MaxMinOfInts ==
    /\ \A i, j \in Int : Greatest(i, j) \in Int /\ Least(i, j) \in Int
    /\ \A x, y \in DoubleValues : DGreatest(x, y) \in DoubleValues /\ DLeast(x, y) \in DoubleValues
BY DEF Greatest, Least, DGreatest, DLeast

LEMMA MaxGood == ASSUME NEW k, Sound(k) PROVE Good(k, MaxFunction(k))
<1> DEFINE longs == Gives(k, IntTok(Greatest(Left(k), Right(k))))
           doubles == Gives(k, Dbl(DGreatest(DLeft(k), DRight(k))))
<1>1. ASSUME Load(k) >= 2 /\ TagAt(k, 1) = "integer" /\ TagAt(k, 0) = "integer" PROVE Good(k, longs)
  <2>1. PICK n \in Int : n = Greatest(Left(k), Right(k))
    BY <1>1, BothOperands, MaxMinOfInts
  <2> QED
    BY <1>1, <2>1, GivesInt
<1>2. ASSUME Load(k) >= 2 /\ IsNumber(At(k, 1)) /\ IsNumber(At(k, 0)) PROVE Good(k, doubles)
  <2>1. DGreatest(DLeft(k), DRight(k)) \in DoubleValues
    BY <1>2, BothOperands, MaxMinOfInts
  <2> QED
    BY <1>2, <2>1, GivesDouble
<1> HIDE DEF longs, doubles
<1>3. Good(k, Arithmetic(k, longs, doubles))
  BY <1>1, <1>2, ArithmeticGood
<1> QED
  BY <1>3 DEF MaxFunction, longs, doubles

LEMMA MinGood == ASSUME NEW k, Sound(k) PROVE Good(k, MinFunction(k))
<1> DEFINE longs == Gives(k, IntTok(Least(Left(k), Right(k))))
           doubles == Gives(k, Dbl(DLeast(DLeft(k), DRight(k))))
<1>1. ASSUME Load(k) >= 2 /\ TagAt(k, 1) = "integer" /\ TagAt(k, 0) = "integer" PROVE Good(k, longs)
  <2>1. PICK n \in Int : n = Least(Left(k), Right(k))
    BY <1>1, BothOperands, MaxMinOfInts
  <2> QED
    BY <1>1, <2>1, GivesInt
<1>2. ASSUME Load(k) >= 2 /\ IsNumber(At(k, 1)) /\ IsNumber(At(k, 0)) PROVE Good(k, doubles)
  <2>1. DLeast(DLeft(k), DRight(k)) \in DoubleValues
    BY <1>2, BothOperands, MaxMinOfInts
  <2> QED
    BY <1>2, <2>1, GivesDouble
<1> HIDE DEF longs, doubles
<1>3. Good(k, Arithmetic(k, longs, doubles))
  BY <1>1, <1>2, ArithmeticGood
<1> QED
  BY <1>3 DEF MinFunction, longs, doubles

LEMMA DivLongsGood ==
    ASSUME NEW k, Sound(k), Load(k) >= 2, TagAt(k, 1) = "integer", TagAt(k, 0) = "integer"
    PROVE  Good(k, DivLongs(k))
<1> DEFINE done == Gives(k, IntTok(Quot(Left(k), Right(k))))
           cut == Unless(k, Left(k) = MinLong /\ Right(k) = -1, "RangeCheck", done)
<1>1. ASSUME ~(Right(k) = 0) PROVE Good(k, done)
  <2>1. Quot(Left(k), Right(k)) \in Int
    BY <1>1, BothOperands, QuotientsAreInts
  <2> QED
    BY <2>1, GivesInt
<1> HIDE DEF done
<1>2. ASSUME ~(Right(k) = 0) PROVE Good(k, cut)
  BY <1>1, <1>2, GoodUnless, PlainErrors
<1> HIDE DEF cut
<1>3. Good(k, Unless(k, Right(k) = 0, "DivisionByZero", cut))
  BY <1>2, GoodUnless, PlainErrors
<1> QED
  BY <1>3 DEF DivLongs, cut, done

LEMMA QuotientGood ==
    ASSUME NEW k, Sound(k), Load(k) >= 2, NEW x \in DoubleValues, NEW y, NEW z,
           ~(z = Zero) => y # Zero /\ y \in DoubleValues
    PROVE  Good(k, Unless(k, z = Zero, "DivisionByZero", Gives(k, Dbl(Over(x, y)))))
<1> DEFINE done == Gives(k, Dbl(Over(x, y)))
<1>1. ASSUME ~(z = Zero) PROVE Good(k, done)
  <2>1. Over(x, y) \in DoubleValues
    BY <1>1, OverIsDouble
  <2> QED
    BY <2>1, GivesDouble
<1> HIDE DEF done
<1>2. Good(k, Unless(k, z = Zero, "DivisionByZero", done))
  BY <1>1, GoodUnless, PlainErrors
<1> QED
  BY <1>2 DEF done

LEMMA DivGood == ASSUME NEW k, Sound(k) PROVE Good(k, DivFunction(k))
<1>1. ASSUME Load(k) >= 2 /\ TagAt(k, 1) = "integer" /\ TagAt(k, 0) = "integer" PROVE Good(k, DivLongs(k))
  BY <1>1, DivLongsGood
<1>2. ASSUME Load(k) >= 2 /\ IsNumber(At(k, 1)) /\ IsNumber(At(k, 0)) PROVE Good(k, DivDoubles(k))
  BY <1>2, BothOperands, QuotientGood DEF DivDoubles
<1> QED
  BY <1>1, <1>2, ArithmeticGood DEF DivFunction

LEMMA ModGood == ASSUME NEW k, Sound(k), NEW n \in Int, NEW d \in Int PROVE Good(k, Mod_iiFunction(k, n, d))
<1>1. PICK t : t = IF TagAt(k, 1) = "integer" THEN IntTok(Rem(n, d)) ELSE Garbage
  OBVIOUS
<1> DEFINE done == Gives(k, t)
           cut == Unless(k, n = MinLong /\ d = -1, "RangeCheck", done)
           out == Unless(k, d = 0, "DivisionByZero", cut)
<1>2. ASSUME Load(k) >= 2 PROVE Good(k, out)
  <2>1. ASSUME ~(d = 0) PROVE Good(k, done)
    <3>1. t \in Toks(k.heap)
      BY <1>1, <2>1, QuotientsAreInts, ScalarsAreTokens
    <3> QED
      BY <1>2, <3>1, GivesGood
  <2> HIDE DEF done
  <2>2. ASSUME ~(d = 0) PROVE Good(k, cut)
    BY <2>1, <2>2, GoodUnless, PlainErrors
  <2> HIDE DEF cut
  <2> QED
    BY <2>2, GoodUnless, PlainErrors
<1> HIDE DEF out
<1>3. Good(k, Needs(k, 2, out))
  BY <1>2, GoodNeeds
<1> QED
  BY <1>1, <1>3 DEF Mod_iiFunction, out, cut, done

LEMMA DoubleLeavesGood ==
    ASSUME NEW k, Sound(k), Load(k) >= 2, TagAt(k, 1) = "double", TagAt(k, 0) = "double"
    PROVE  /\ Good(k, Add_ddFunction(k)) /\ Good(k, Sub_ddFunction(k))
           /\ Good(k, Mul_ddFunction(k)) /\ Good(k, Max_d_dFunction(k))
           /\ Good(k, Min_d_dFunction(k)) /\ Good(k, Div_ddFunction(k))
           /\ Good(k, Gt_ddFunction(k)) /\ Good(k, Lt_ddFunction(k))
           /\ Good(k, Geq_ddFunction(k)) /\ Good(k, Leq_ddFunction(k))
<1>1. Left(k) \in DoubleValues /\ Right(k) \in DoubleValues
  BY BothOperands
<1>2. Good(k, Add_ddFunction(k))
  <2>1. Plus(Left(k), Right(k)) \in DoubleValues
    BY <1>1, PlusIsDouble
  <2>2. Good(k, Gives(k, Dbl(Plus(Left(k), Right(k)))))
    BY <2>1, GivesDouble
  <2> QED
    BY <2>2, GoodNeeds DEF Add_ddFunction
<1>3. Good(k, Sub_ddFunction(k))
  <2>1. Minus(Left(k), Right(k)) \in DoubleValues
    BY <1>1, MinusIsDouble
  <2>2. Good(k, Gives(k, Dbl(Minus(Left(k), Right(k)))))
    BY <2>1, GivesDouble
  <2> QED
    BY <2>2, GoodNeeds DEF Sub_ddFunction
<1>4. Good(k, Mul_ddFunction(k))
  <2>1. Times(Left(k), Right(k)) \in DoubleValues
    BY <1>1, TimesIsDouble
  <2>2. Good(k, Gives(k, Dbl(Times(Left(k), Right(k)))))
    BY <2>1, GivesDouble
  <2> QED
    BY <2>2, GoodNeeds DEF Mul_ddFunction
<1>5. Good(k, Max_d_dFunction(k))
  <2>1. DGreatest(Right(k), Left(k)) \in DoubleValues
    BY <1>1, MaxMinOfInts
  <2>2. Good(k, Gives(k, Dbl(DGreatest(Right(k), Left(k)))))
    BY <2>1, GivesDouble
  <2> QED
    BY <2>2, GoodNeeds DEF Max_d_dFunction
<1>6. Good(k, Min_d_dFunction(k))
  <2>1. DLeast(Right(k), Left(k)) \in DoubleValues
    BY <1>1, MaxMinOfInts
  <2>2. Good(k, Gives(k, Dbl(DLeast(Right(k), Left(k)))))
    BY <2>1, GivesDouble
  <2> QED
    BY <2>2, GoodNeeds DEF Min_d_dFunction
<1>7. Good(k, Div_ddFunction(k))
  <2>1. Good(k, Unless(k, Right(k) = Zero, "DivisionByZero", Gives(k, Dbl(Over(Left(k), Right(k))))))
    BY <1>1, QuotientGood
  <2> QED
    BY <2>1, GoodNeeds DEF Div_ddFunction
<1>8. Good(k, Gt_ddFunction(k))
  <2>1. (Smaller(Right(k), Left(k))) \in BOOLEAN
    BY DEF Smaller
  <2>2. Good(k, Holds(k, Smaller(Right(k), Left(k))))
    BY <2>1, GivesBool, Zenon
  <2> QED
    BY <2>2, NeedsTwo, Zenon DEF Gt_ddFunction
<1>9. Good(k, Lt_ddFunction(k))
  <2>1. (Smaller(Left(k), Right(k))) \in BOOLEAN
    BY DEF Smaller
  <2>2. Good(k, Holds(k, Smaller(Left(k), Right(k))))
    BY <2>1, GivesBool, Zenon
  <2> QED
    BY <2>2, NeedsTwo, Zenon DEF Lt_ddFunction
<1>10. Good(k, Geq_ddFunction(k))
  <2>1. (DAtMost(Right(k), Left(k))) \in BOOLEAN
    BY DEF Smaller, Equal, DAtMost
  <2>2. Good(k, Holds(k, DAtMost(Right(k), Left(k))))
    BY <2>1, GivesBool, Zenon
  <2> QED
    BY <2>2, NeedsTwo, Zenon DEF Geq_ddFunction
<1>11. Good(k, Leq_ddFunction(k))
  <2>1. (DAtMost(Left(k), Right(k))) \in BOOLEAN
    BY DEF Smaller, Equal, DAtMost
  <2>2. Good(k, Holds(k, DAtMost(Left(k), Right(k))))
    BY <2>1, GivesBool, Zenon
  <2> QED
    BY <2>2, NeedsTwo, Zenon DEF Leq_ddFunction
<1> QED
  BY <1>2, <1>3, <1>4, <1>5, <1>6, <1>7, <1>8, <1>9, <1>10, <1>11

LEMMA DoubleLongLeavesGood ==
    ASSUME NEW k, Sound(k), Load(k) >= 2, TagAt(k, 1) = "double", TagAt(k, 0) = "integer"
    PROVE  /\ Good(k, Add_diFunction(k)) /\ Good(k, Sub_diFunction(k))
           /\ Good(k, Mul_diFunction(k)) /\ Good(k, Max_d_iFunction(k))
           /\ Good(k, Min_d_iFunction(k)) /\ Good(k, Div_diFunction(k))
           /\ Good(k, Gt_diFunction(k)) /\ Good(k, Lt_diFunction(k))
           /\ Good(k, Geq_diFunction(k)) /\ Good(k, Leq_diFunction(k))
<1>1. Left(k) \in DoubleValues /\ FromLong(Right(k)) \in DoubleValues
  BY BothOperands
<1>2. Good(k, Add_diFunction(k))
  <2>1. Plus(Left(k), FromLong(Right(k))) \in DoubleValues
    BY <1>1, PlusIsDouble
  <2>2. Good(k, Gives(k, Dbl(Plus(Left(k), FromLong(Right(k))))))
    BY <2>1, GivesDouble
  <2> QED
    BY <2>2, GoodNeeds DEF Add_diFunction
<1>3. Good(k, Sub_diFunction(k))
  <2>1. Minus(Left(k), FromLong(Right(k))) \in DoubleValues
    BY <1>1, MinusIsDouble
  <2>2. Good(k, Gives(k, Dbl(Minus(Left(k), FromLong(Right(k))))))
    BY <2>1, GivesDouble
  <2> QED
    BY <2>2, GoodNeeds DEF Sub_diFunction
<1>4. Good(k, Mul_diFunction(k))
  <2>1. Times(Left(k), FromLong(Right(k))) \in DoubleValues
    BY <1>1, TimesIsDouble
  <2>2. Good(k, Gives(k, Dbl(Times(Left(k), FromLong(Right(k))))))
    BY <2>1, GivesDouble
  <2> QED
    BY <2>2, GoodNeeds DEF Mul_diFunction
<1>5. Good(k, Max_d_iFunction(k))
  <2>1. DGreatest(FromLong(Right(k)), Left(k)) \in DoubleValues
    BY <1>1, MaxMinOfInts
  <2>2. Good(k, Gives(k, Dbl(DGreatest(FromLong(Right(k)), Left(k)))))
    BY <2>1, GivesDouble
  <2> QED
    BY <2>2, GoodNeeds DEF Max_d_iFunction
<1>6. Good(k, Min_d_iFunction(k))
  <2>1. DLeast(FromLong(Right(k)), Left(k)) \in DoubleValues
    BY <1>1, MaxMinOfInts
  <2>2. Good(k, Gives(k, Dbl(DLeast(FromLong(Right(k)), Left(k)))))
    BY <2>1, GivesDouble
  <2> QED
    BY <2>2, GoodNeeds DEF Min_d_iFunction
<1>7. Good(k, Div_diFunction(k))
  <2> DEFINE done == Gives(k, Dbl(Over(Left(k), FromLong(Right(k)))))
  <2>1. ASSUME ~(Right(k) = 0) PROVE Good(k, done)
    <3>1. FromLong(Right(k)) # Zero
      BY <2>1, BothOperands, FromLongKeepsSign
    <3>2. Over(Left(k), FromLong(Right(k))) \in DoubleValues
      BY <1>1, <3>1, OverIsDouble
    <3> QED
      BY <3>2, GivesDouble
  <2> HIDE DEF done
  <2>2. Good(k, Unless(k, Right(k) = 0, "DivisionByZero", done))
    BY <2>1, GoodUnless, PlainErrors
  <2>3. Good(k, Needs(k, 2, Unless(k, Right(k) = 0, "DivisionByZero", done)))
    BY <2>2, GoodNeeds
  <2> QED
    BY <2>3 DEF Div_diFunction, done
<1>8. Good(k, Gt_diFunction(k))
  <2>1. (Smaller(FromLong(Right(k)), Left(k))) \in BOOLEAN
    BY DEF Smaller
  <2>2. Good(k, Holds(k, Smaller(FromLong(Right(k)), Left(k))))
    BY <2>1, GivesBool, Zenon
  <2> QED
    BY <2>2, NeedsTwo, Zenon DEF Gt_diFunction
<1>9. Good(k, Lt_diFunction(k))
  <2>1. (Smaller(Left(k), FromLong(Right(k)))) \in BOOLEAN
    BY DEF Smaller
  <2>2. Good(k, Holds(k, Smaller(Left(k), FromLong(Right(k)))))
    BY <2>1, GivesBool, Zenon
  <2> QED
    BY <2>2, NeedsTwo, Zenon DEF Lt_diFunction
<1>10. Good(k, Geq_diFunction(k))
  <2>1. (DAtMost(FromLong(Right(k)), Left(k))) \in BOOLEAN
    BY DEF Smaller, Equal, DAtMost
  <2>2. Good(k, Holds(k, DAtMost(FromLong(Right(k)), Left(k))))
    BY <2>1, GivesBool, Zenon
  <2> QED
    BY <2>2, NeedsTwo, Zenon DEF Geq_diFunction
<1>11. Good(k, Leq_diFunction(k))
  <2>1. (DAtMost(Left(k), FromLong(Right(k)))) \in BOOLEAN
    BY DEF Smaller, Equal, DAtMost
  <2>2. Good(k, Holds(k, DAtMost(Left(k), FromLong(Right(k)))))
    BY <2>1, GivesBool, Zenon
  <2> QED
    BY <2>2, NeedsTwo, Zenon DEF Leq_diFunction
<1> QED
  BY <1>2, <1>3, <1>4, <1>5, <1>6, <1>7, <1>8, <1>9, <1>10, <1>11

LEMMA LongDoubleLeavesGood ==
    ASSUME NEW k, Sound(k), Load(k) >= 2, TagAt(k, 1) = "integer", TagAt(k, 0) = "double"
    PROVE  /\ Good(k, Add_idFunction(k)) /\ Good(k, Sub_idFunction(k))
           /\ Good(k, Mul_idFunction(k)) /\ Good(k, Max_i_dFunction(k))
           /\ Good(k, Min_i_dFunction(k)) /\ Good(k, Div_idFunction(k))
           /\ Good(k, Gt_idFunction(k)) /\ Good(k, Lt_idFunction(k))
           /\ Good(k, Geq_idFunction(k)) /\ Good(k, Leq_idFunction(k))
<1>1. FromLong(Left(k)) \in DoubleValues /\ Right(k) \in DoubleValues
  BY BothOperands
<1>2. Good(k, Add_idFunction(k))
  <2>1. Plus(FromLong(Left(k)), Right(k)) \in DoubleValues
    BY <1>1, PlusIsDouble
  <2>2. Good(k, Gives(k, Dbl(Plus(FromLong(Left(k)), Right(k)))))
    BY <2>1, GivesDouble
  <2> QED
    BY <2>2, GoodNeeds DEF Add_idFunction
<1>3. Good(k, Sub_idFunction(k))
  <2>1. Minus(FromLong(Left(k)), Right(k)) \in DoubleValues
    BY <1>1, MinusIsDouble
  <2>2. Good(k, Gives(k, Dbl(Minus(FromLong(Left(k)), Right(k)))))
    BY <2>1, GivesDouble
  <2> QED
    BY <2>2, GoodNeeds DEF Sub_idFunction
<1>4. Good(k, Mul_idFunction(k))
  <2>1. Times(FromLong(Left(k)), Right(k)) \in DoubleValues
    BY <1>1, TimesIsDouble
  <2>2. Good(k, Gives(k, Dbl(Times(FromLong(Left(k)), Right(k)))))
    BY <2>1, GivesDouble
  <2> QED
    BY <2>2, GoodNeeds DEF Mul_idFunction
<1>5. Good(k, Max_i_dFunction(k))
  <2>1. DGreatest(FromLong(Left(k)), Right(k)) \in DoubleValues
    BY <1>1, MaxMinOfInts
  <2>2. Good(k, Gives(k, Dbl(DGreatest(FromLong(Left(k)), Right(k)))))
    BY <2>1, GivesDouble
  <2> QED
    BY <2>2, GoodNeeds DEF Max_i_dFunction
<1>6. Good(k, Min_i_dFunction(k))
  <2>1. DLeast(FromLong(Left(k)), Right(k)) \in DoubleValues
    BY <1>1, MaxMinOfInts
  <2>2. Good(k, Gives(k, Dbl(DLeast(FromLong(Left(k)), Right(k)))))
    BY <2>1, GivesDouble
  <2> QED
    BY <2>2, GoodNeeds DEF Min_i_dFunction
<1>7. Good(k, Div_idFunction(k))
  <2>1. Good(k, Unless(k, Right(k) = Zero, "DivisionByZero", Gives(k, Dbl(Over(FromLong(Left(k)), Right(k))))))
    BY <1>1, QuotientGood
  <2> QED
    BY <2>1, GoodNeeds DEF Div_idFunction
<1>8. Good(k, Gt_idFunction(k))
  <2>1. (Smaller(Right(k), FromLong(Left(k)))) \in BOOLEAN
    BY DEF Smaller
  <2>2. Good(k, Holds(k, Smaller(Right(k), FromLong(Left(k)))))
    BY <2>1, GivesBool, Zenon
  <2> QED
    BY <2>2, NeedsTwo, Zenon DEF Gt_idFunction
<1>9. Good(k, Lt_idFunction(k))
  <2>1. (Smaller(FromLong(Left(k)), Right(k))) \in BOOLEAN
    BY DEF Smaller
  <2>2. Good(k, Holds(k, Smaller(FromLong(Left(k)), Right(k))))
    BY <2>1, GivesBool, Zenon
  <2> QED
    BY <2>2, NeedsTwo, Zenon DEF Lt_idFunction
<1>10. Good(k, Geq_idFunction(k))
  <2>1. (DAtMost(Right(k), FromLong(Left(k)))) \in BOOLEAN
    BY DEF Smaller, Equal, DAtMost
  <2>2. Good(k, Holds(k, DAtMost(Right(k), FromLong(Left(k)))))
    BY <2>1, GivesBool, Zenon
  <2> QED
    BY <2>2, NeedsTwo, Zenon DEF Geq_idFunction
<1>11. Good(k, Leq_idFunction(k))
  <2>1. (DAtMost(FromLong(Left(k)), Right(k))) \in BOOLEAN
    BY DEF Smaller, Equal, DAtMost
  <2>2. Good(k, Holds(k, DAtMost(FromLong(Left(k)), Right(k))))
    BY <2>1, GivesBool, Zenon
  <2> QED
    BY <2>2, NeedsTwo, Zenon DEF Leq_idFunction
<1> QED
  BY <1>2, <1>3, <1>4, <1>5, <1>6, <1>7, <1>8, <1>9, <1>10, <1>11

LEMMA LongLeavesGood ==
    ASSUME NEW k, Sound(k), Load(k) >= 2, TagAt(k, 1) = "integer", TagAt(k, 0) = "integer"
    PROVE  /\ Good(k, Add_iiFunction(k)) /\ Good(k, Sub_iiFunction(k))
           /\ Good(k, Mul_iiFunction(k)) /\ Good(k, Max_i_iFunction(k))
           /\ Good(k, Min_i_iFunction(k)) /\ Good(k, And_iiFunction(k))
           /\ Good(k, Or_iiFunction(k)) /\ Good(k, Xor_iiFunction(k))
           /\ Good(k, Div_iiFunction(k)) /\ Good(k, Gt_iiFunction(k))
           /\ Good(k, Lt_iiFunction(k)) /\ Good(k, Geq_iiFunction(k))
           /\ Good(k, Leq_iiFunction(k))
<1>1. Left(k) \in Int /\ Right(k) \in Int
  BY BothOperands
<1>2. Good(k, Add_iiFunction(k))
  <2>1. PICK n \in Int : n = Left(k) + Right(k)
    BY <1>1
  <2>2. Good(k, GivesLong(k, n))
    BY GivesLongGood
  <2>3. Good(k, Needs(k, 2, GivesLong(k, n)))
    BY <2>2, GoodNeeds
  <2> QED
    BY <2>1, <2>3 DEF Add_iiFunction
<1>3. Good(k, Sub_iiFunction(k))
  <2>1. PICK n \in Int : n = Left(k) - Right(k)
    BY <1>1
  <2>2. Good(k, GivesLong(k, n))
    BY GivesLongGood
  <2>3. Good(k, Needs(k, 2, GivesLong(k, n)))
    BY <2>2, GoodNeeds
  <2> QED
    BY <2>1, <2>3 DEF Sub_iiFunction
<1>4. Good(k, Mul_iiFunction(k))
  <2>1. PICK n \in Int : n = Left(k) * Right(k)
    BY <1>1
  <2>2. Good(k, GivesLong(k, n))
    BY GivesLongGood
  <2>3. Good(k, Needs(k, 2, GivesLong(k, n)))
    BY <2>2, GoodNeeds
  <2> QED
    BY <2>1, <2>3 DEF Mul_iiFunction
<1>5. Good(k, Max_i_iFunction(k))
  <2>1. PICK n \in Int : n = Greatest(Right(k), Left(k))
    BY <1>1, MaxMinOfInts
  <2>2. Good(k, Gives(k, IntTok(n)))
    BY GivesInt
  <2>3. Good(k, Needs(k, 2, Gives(k, IntTok(n))))
    BY <2>2, GoodNeeds
  <2> QED
    BY <2>1, <2>3 DEF Max_i_iFunction
<1>6. Good(k, Min_i_iFunction(k))
  <2>1. PICK n \in Int : n = Least(Left(k), Right(k))
    BY <1>1, MaxMinOfInts
  <2>2. Good(k, Gives(k, IntTok(n)))
    BY GivesInt
  <2>3. Good(k, Needs(k, 2, Gives(k, IntTok(n))))
    BY <2>2, GoodNeeds
  <2> QED
    BY <2>1, <2>3 DEF Min_i_iFunction
<1>7. Good(k, And_iiFunction(k))
  <2>1. PICK n \in Int : n = BitAnd(Left(k), Right(k))
    BY <1>1, BitsAreInts
  <2>2. Good(k, Gives(k, IntTok(n)))
    BY GivesInt
  <2>3. Good(k, Needs(k, 2, Gives(k, IntTok(n))))
    BY <2>2, GoodNeeds
  <2> QED
    BY <2>1, <2>3 DEF And_iiFunction
<1>8. Good(k, Or_iiFunction(k))
  <2>1. PICK n \in Int : n = BitOr(Left(k), Right(k))
    BY <1>1, BitsAreInts
  <2>2. Good(k, Gives(k, IntTok(n)))
    BY GivesInt
  <2>3. Good(k, Needs(k, 2, Gives(k, IntTok(n))))
    BY <2>2, GoodNeeds
  <2> QED
    BY <2>1, <2>3 DEF Or_iiFunction
<1>9. Good(k, Xor_iiFunction(k))
  <2>1. PICK n \in Int : n = BitXor(Left(k), Right(k))
    BY <1>1, BitsAreInts
  <2>2. Good(k, Gives(k, IntTok(n)))
    BY GivesInt
  <2>3. Good(k, Needs(k, 2, Gives(k, IntTok(n))))
    BY <2>2, GoodNeeds
  <2> QED
    BY <2>1, <2>3 DEF Xor_iiFunction
<1>10. Good(k, Div_iiFunction(k))
  BY DivLongsGood, GoodNeeds DEF Div_iiFunction
<1>11. Good(k, Gt_iiFunction(k))
  <2>1. (Left(k) > Right(k)) \in BOOLEAN
    BY <1>1
  <2>2. Good(k, Holds(k, Left(k) > Right(k)))
    BY <2>1, GivesBool, Zenon
  <2> QED
    BY <2>2, NeedsTwo, Zenon DEF Gt_iiFunction
<1>12. Good(k, Lt_iiFunction(k))
  <2>1. (Left(k) < Right(k)) \in BOOLEAN
    BY <1>1
  <2>2. Good(k, Holds(k, Left(k) < Right(k)))
    BY <2>1, GivesBool, Zenon
  <2> QED
    BY <2>2, NeedsTwo, Zenon DEF Lt_iiFunction
<1>13. Good(k, Geq_iiFunction(k))
  <2>1. (Left(k) >= Right(k)) \in BOOLEAN
    BY <1>1
  <2>2. Good(k, Holds(k, Left(k) >= Right(k)))
    BY <2>1, GivesBool, Zenon
  <2> QED
    BY <2>2, NeedsTwo, Zenon DEF Geq_iiFunction
<1>14. Good(k, Leq_iiFunction(k))
  <2>1. (Left(k) <= Right(k)) \in BOOLEAN
    BY <1>1
  <2>2. Good(k, Holds(k, Left(k) <= Right(k)))
    BY <2>1, GivesBool, Zenon
  <2> QED
    BY <2>2, NeedsTwo, Zenon DEF Leq_iiFunction
<1> QED
  BY <1>2, <1>3, <1>4, <1>5, <1>6, <1>7, <1>8, <1>9, <1>10, <1>11, <1>12, <1>13, <1>14

LEMMA CompareGood ==
    ASSUME NEW k, Sound(k), NEW a \in BOOLEAN, NEW b \in BOOLEAN, NEW c \in BOOLEAN
    PROVE  Good(k, Compare(k, a, b, c))
<1>1. ASSUME Load(k) >= 2 PROVE Good(k, Holds(k, a)) /\ Good(k, Holds(k, b)) /\ Good(k, Holds(k, c))
  BY <1>1, GivesBool, Zenon
<1>2. PICK oa : oa = Holds(k, a)
  OBVIOUS
<1>3. PICK ob : ob = Holds(k, b)
  OBVIOUS
<1>4. PICK oc : oc = Holds(k, c)
  OBVIOUS
<1>5. Load(k) >= 2 => Good(k, oa) /\ Good(k, ob) /\ Good(k, oc)
  BY <1>1, <1>2, <1>3, <1>4, Zenon
<1>6. Good(k, Arithmetic(k, oa, ob))
  BY <1>5, ArithmeticGood
<1>7. PICK out : out = IF TagAt(k, 1) = "string" /\ TagAt(k, 0) = "string" THEN oc ELSE Arithmetic(k, oa, ob)
  OBVIOUS
<1>8. Load(k) >= 2 => Good(k, out)
  BY <1>5, <1>6, <1>7
<1>9. Good(k, Needs(k, 2, out))
  BY <1>8, GoodNeeds
<1> QED
  BY <1>2, <1>3, <1>4, <1>7, <1>9, Zenon DEF Compare

LEMMA ComparisonsAreBooleans ==
    ASSUME NEW x, NEW y
    PROVE  /\ Smaller(x, y) \in BOOLEAN /\ DAtMost(x, y) \in BOOLEAN
           /\ Before(x, y) \in BOOLEAN /\ (~Before(x, y)) \in BOOLEAN
           /\ (x > y) \in BOOLEAN /\ (x < y) \in BOOLEAN /\ (x >= y) \in BOOLEAN /\ (x <= y) \in BOOLEAN
BY DEF Smaller, DAtMost, Equal, Before

LEMMA ComparisonsGood ==
    ASSUME NEW k, Sound(k)
    PROVE  /\ Good(k, GtFunction(k)) /\ Good(k, LtFunction(k))
           /\ Good(k, GeqFunction(k)) /\ Good(k, LeqFunction(k))
BY ComparisonsAreBooleans, CompareGood, Zenon DEF GtFunction, LtFunction, GeqFunction, LeqFunction

LEMMA StringLeafGood ==
    ASSUME NEW k, Sound(k), NEW b \in BOOLEAN
    PROVE  Good(k, StringLeaf(k, b))
<1>1. PICK out : out = Holds(Lost(k, Left(k)), b)
  OBVIOUS
<1>2. ASSUME Load(k) >= 2 /\ Matches(k, 1, "string") /\ Matches(k, 0, "string") PROVE Good(k, out)
  <2>1. PICK x : x = Left(k)
    OBVIOUS
  <2>2. PICK g : g = Lost(k, x)
    OBVIOUS
  <2>3. TagAt(k, 1) = "string" /\ "string" \in CompositeTags
    BY <1>2, CompositesAreTypes, MatchesType, KindOf
  <2>4. x \in Ids /\ k.heap[x].kind # "free"
    BY <1>2, <2>1, <2>3, LoadIsNat, OperandParts DEF Left
  <2>5. Ok(k, g) /\ g.st = k.st
    BY <2>2, <2>4, OkLost
  <2>6. Sound(g) /\ Load(g) >= 2
    BY <1>2, <2>5 DEF Ok, Load
  <2>7. Good(g, Holds(g, b))
    BY <2>6, GivesBool, Zenon
  <2>8. out = Holds(g, b)
    BY <1>1, <2>1, <2>2, Zenon
  <2>9. out.err = "none"
    <3>1. PICK t : t = Bool(b)
      OBVIOUS
    <3>2. out = Gives(g, t)
      BY <2>8, <3>1, Zenon DEF Holds
    <3> QED
      BY <3>2 DEF Gives, Done
  <2>10. Good(g, out)
    BY <2>7, <2>8, Zenon
  <2>11. Ok(g, out.m)
    BY <2>10 DEF Good
  <2>12. Ok(k, out.m)
    BY <2>5, <2>11, OkTrans
  <2> QED
    BY <2>9, <2>12 DEF Good
<1>3. PICK sig : sig = <<"string", "string">>
  OBVIOUS
<1>4. Good(k, Typed(k, sig, out))
  BY <1>2, <1>3, GoodTyped2
<1> QED
  BY <1>1, <1>3, <1>4, Zenon DEF StringLeaf

LEMMA StringLeavesGood == ASSUME NEW k, Sound(k) PROVE Good(k, Gt_ssFunction(k)) /\ Good(k, Lt_ssFunction(k))
BY ComparisonsAreBooleans, StringLeafGood, Zenon DEF Gt_ssFunction, Lt_ssFunction

LEMMA LogicalGood ==
    ASSUME NEW k, Sound(k), NEW b \in BOOLEAN, NEW n,
           Load(k) >= 2 /\ TagAt(k, 1) = "integer" /\ TagAt(k, 0) = "integer" => n \in Int
    PROVE  Good(k, Logical(k, b, n))
<1>1. PICK a : a = Gives(k, Bool(b))
  OBVIOUS
<1>2. Load(k) >= 2 => Good(k, a)
  BY <1>1, GivesBool, Zenon
<1>3. Good(k, Raise(k, "ArgumentType"))
  BY GoodRaise, PlainErrors
<1>4. PICK out : out = CASE TagAt(k, 1) = "bool" /\ TagAt(k, 0) = "bool" -> a
                         [] TagAt(k, 1) = "integer" /\ TagAt(k, 0) = "integer" -> Gives(k, IntTok(n))
                         [] OTHER -> Raise(k, "ArgumentType")
  OBVIOUS
<1>5. ASSUME Load(k) >= 2 PROVE Good(k, out)
  <2>1. \/ out = a
        \/ out = Gives(k, IntTok(n)) /\ TagAt(k, 1) = "integer" /\ TagAt(k, 0) = "integer"
        \/ out = Raise(k, "ArgumentType")
    BY <1>4
  <2> QED
    BY <1>2, <1>3, <1>5, <2>1, GivesInt
<1>6. Good(k, Needs(k, 2, out))
  BY <1>5, GoodNeeds
<1> QED
  BY <1>1, <1>4, <1>6, Zenon DEF Logical

LEMMA LogicIsBoolean ==
    ASSUME NEW x, NEW y
    PROVE  (x /\ y) \in BOOLEAN /\ (x \/ y) \in BOOLEAN /\ (x # y) \in BOOLEAN /\ (~y) \in BOOLEAN
OBVIOUS

LEMMA LogicalsGood ==
    ASSUME NEW k, Sound(k)
    PROVE  Good(k, AndPolyFunction(k)) /\ Good(k, OrPolyFunction(k)) /\ Good(k, XorPolyFunction(k))
<1>1. Load(k) >= 2 /\ TagAt(k, 1) = "integer" /\ TagAt(k, 0) = "integer"
      => BitAnd(Left(k), Right(k)) \in Int /\ BitOr(Left(k), Right(k)) \in Int
         /\ BitXor(Left(k), Right(k)) \in Int
  BY BothOperands, BitsAreInts
<1> QED
  BY <1>1, LogicIsBoolean, LogicalGood, Zenon DEF AndPolyFunction, OrPolyFunction, XorPolyFunction

LEMMA NotGood == ASSUME NEW k, Sound(k) PROVE Good(k, NotPolyFunction(k))
<1>1. PICK a : a = GivesTop(k, Bool(~Right(k)))
  OBVIOUS
<1>2. Load(k) >= 1 => Good(k, a)
  BY <1>1, LogicIsBoolean, TopBool, Zenon
<1>3. Good(k, Raise(k, "ArgumentType"))
  BY GoodRaise, PlainErrors
<1>4. PICK n : n = -Right(k) - 1
  OBVIOUS
<1>5. PICK out : out = CASE TagAt(k, 0) = "bool" -> a
                         [] TagAt(k, 0) = "integer" -> GivesTop(k, IntTok(n))
                         [] OTHER -> Raise(k, "ArgumentType")
  OBVIOUS
<1>6. ASSUME Load(k) >= 1 PROVE Good(k, out)
  <2>1. \/ out = a
        \/ out = GivesTop(k, IntTok(n)) /\ TagAt(k, 0) = "integer"
        \/ out = Raise(k, "ArgumentType")
    BY <1>5
  <2>2. TagAt(k, 0) = "integer" => n \in Int
    BY <1>4, <1>6, RightOperand
  <2> QED
    BY <1>2, <1>3, <1>6, <2>1, <2>2, TopInt
<1>7. Good(k, Needs(k, 1, out))
  BY <1>6, GoodNeeds
<1> QED
  BY <1>1, <1>4, <1>5, <1>7, Zenon DEF NotPolyFunction

LEMMA NeedsOne ==
    ASSUME NEW k, Sound(k), NEW out, Load(k) >= 1 => Good(k, out)
    PROVE  Good(k, Needs(k, 1, out))
BY GoodNeeds

LEMMA LogicalLeavesGood ==
    ASSUME NEW k, Sound(k)
    PROVE  /\ Load(k) >= 2 => Good(k, Or_bbFunction(k)) /\ Good(k, Xor_bbFunction(k))
           /\ Load(k) >= 1 => Good(k, Not_bFunction(k))
           /\ Load(k) >= 1 /\ TagAt(k, 0) = "integer" => Good(k, Not_iFunction(k))
<1>1. ASSUME Load(k) >= 2 PROVE Good(k, Or_bbFunction(k)) /\ Good(k, Xor_bbFunction(k))
  BY <1>1, LogicIsBoolean, GivesBool, NeedsTwo, Zenon DEF Or_bbFunction, Xor_bbFunction
<1>2. ASSUME Load(k) >= 1 PROVE Good(k, Not_bFunction(k))
  BY <1>2, LogicIsBoolean, TopBool, NeedsOne, Zenon DEF Not_bFunction
<1>3. ASSUME Load(k) >= 1, TagAt(k, 0) = "integer" PROVE Good(k, Not_iFunction(k))
  <2>1. PICK n \in Int : n = -Right(k) - 1
    BY <1>3, RightOperand
  <2>2. Good(k, Needs(k, 1, GivesTop(k, IntTok(n))))
    BY TopInt, NeedsOne
  <2> QED
    BY <2>1, <2>2 DEF Not_iFunction
<1> QED
  BY <1>1, <1>2, <1>3

-----------------------------------------------------------------------------
(* One operand *)

LEMMA UnaryDoubleGood ==
    ASSUME NEW k, Sound(k), NEW x,
           Load(k) >= 1 /\ IsNumber(At(k, 0)) => x \in DoubleValues
    PROVE  Good(k, UnaryDouble(k, x))
<1>1. Good(k, Raise(k, "ArgumentType"))
  BY GoodRaise, PlainErrors
<1>2. PICK out : out = IF IsNumber(At(k, 0)) THEN GivesTop(k, Dbl(x)) ELSE Raise(k, "ArgumentType")
  OBVIOUS
<1>3. Load(k) >= 1 => Good(k, out)
  BY <1>1, <1>2, TopDouble
<1>4. Good(k, Needs(k, 1, out))
  BY <1>3, GoodNeeds
<1> QED
  BY <1>2, <1>4 DEF UnaryDouble

LEMMA UnaryGood ==
    ASSUME NEW k, Sound(k)
    PROVE  /\ Good(k, SqrFunction(k)) /\ Good(k, SqrtFunction(k))
           /\ \A f \in LibmNames : Good(k, UnaryFunction(k, f))
<1>1. Load(k) >= 1 /\ IsNumber(At(k, 0)) => DRight(k) \in DoubleValues
  BY RightOperand
<1>2. Good(k, SqrFunction(k))
  BY <1>1, TimesIsDouble, UnaryDoubleGood DEF SqrFunction
<1>3. Good(k, SqrtFunction(k))
  BY <1>1, SquareRootIsDouble, UnaryDoubleGood DEF SqrtFunction
<1>4. ASSUME NEW f \in LibmNames PROVE Good(k, UnaryFunction(k, f))
  <2>1. PICK y : y = Libm(f, <<DRight(k)>>)
    OBVIOUS
  <2>2. Load(k) >= 1 /\ IsNumber(At(k, 0)) => y \in DoubleValues
    BY <1>1, <2>1, LibmAssumption
  <2>3. Good(k, UnaryDouble(k, y))
    BY <2>2, UnaryDoubleGood
  <2> QED
    BY <2>1, <2>3 DEF UnaryFunction
<1> QED
  BY <1>2, <1>3, <1>4

LEMMA LongLeafGood ==
    ASSUME NEW k, Sound(k), NEW out, Load(k) >= 1 /\ Right(k) \in Int => Good(k, out)
    PROVE  Good(k, Typed(k, <<"integer">>, out))
<1>1. ASSUME Load(k) >= 1 /\ Matches(k, 0, "integer") PROVE Good(k, out)
  BY <1>1, CompositesAreTypes, MatchesType, RightOperand
<1> QED
  BY <1>1, GoodTyped1

LEMMA DoubleLeafGood ==
    ASSUME NEW k, Sound(k), NEW out, Load(k) >= 1 /\ Right(k) \in DoubleValues => Good(k, out)
    PROVE  Good(k, Typed(k, <<"double">>, out))
<1>1. ASSUME Load(k) >= 1 /\ Matches(k, 0, "double") PROVE Good(k, out)
  BY <1>1, CompositesAreTypes, MatchesType, RightOperand
<1> QED
  BY <1>1, GoodTyped1

LEMMA SinLeafGood == ASSUME NEW k, Sound(k) PROVE Good(k, TrigLeaf(k, "sin"))
<1>1. PICK v : v = Libm("sin", <<Right(k)>>)
  OBVIOUS
<1> DEFINE out == GivesTop(k, Dbl(v))
<1>2. ASSUME Load(k) >= 1 /\ Right(k) \in DoubleValues PROVE Good(k, out)
  <2>1. v \in DoubleValues
    BY <1>1, <1>2, LibmAssumption DEF LibmNames
  <2> QED
    BY <1>2, <2>1, TopDouble
<1> HIDE DEF out
<1>3. Good(k, Typed(k, <<"double">>, out))
  BY <1>2, DoubleLeafGood
<1> QED
  BY <1>1, <1>3 DEF TrigLeaf, out

LEMMA Log_dGood == ASSUME NEW k, Sound(k) PROVE Good(k, Log_dFunction(k))
<1>1. PICK v : v = Libm("log", <<Right(k)>>)
  OBVIOUS
<1> DEFINE done == GivesTop(k, Dbl(v))
           out == Unless(k, ~Smaller(Zero, Right(k)), "RangeCheck", done)
<1>2. ASSUME Load(k) >= 1 /\ Right(k) \in DoubleValues PROVE Good(k, out)
  <2>1. ASSUME ~(~Smaller(Zero, Right(k))) PROVE Good(k, done)
    <3>1. v \in DoubleValues
      BY <1>1, <1>2, <2>1, LibmAssumption DEF LibmNames
    <3> QED
      BY <1>2, <3>1, TopDouble
  <2> HIDE DEF done
  <2> QED
    BY <2>1, GoodUnless, PlainErrors
<1> HIDE DEF out
<1>3. Good(k, Typed(k, <<"double">>, out))
  BY <1>2, DoubleLeafGood
<1> QED
  BY <1>1, <1>3 DEF Log_dFunction, out, done

LEMMA Ln_dGood == ASSUME NEW k, Sound(k) PROVE Good(k, Ln_dFunction(k))
<1>1. PICK v : v = Libm("ln", <<Right(k)>>)
  OBVIOUS
<1> DEFINE done == GivesTop(k, Dbl(v))
           out == Unless(k, ~Smaller(Zero, Right(k)), "RangeCheck", done)
<1>2. ASSUME Load(k) >= 1 /\ Right(k) \in DoubleValues PROVE Good(k, out)
  <2>1. ASSUME ~(~Smaller(Zero, Right(k))) PROVE Good(k, done)
    <3>1. v \in DoubleValues
      BY <1>1, <1>2, <2>1, LibmAssumption DEF LibmNames
    <3> QED
      BY <1>2, <3>1, TopDouble
  <2> HIDE DEF done
  <2> QED
    BY <2>1, GoodUnless, PlainErrors
<1> HIDE DEF out
<1>3. Good(k, Typed(k, <<"double">>, out))
  BY <1>2, DoubleLeafGood
<1> QED
  BY <1>1, <1>3 DEF Ln_dFunction, out, done

LEMMA Sqr_dGood == ASSUME NEW k, Sound(k) PROVE Good(k, Sqr_dFunction(k))
<1>1. PICK v : v = Times(Right(k), Right(k))
  OBVIOUS
<1> DEFINE out == GivesTop(k, Dbl(v))
<1>2. ASSUME Load(k) >= 1 /\ Right(k) \in DoubleValues PROVE Good(k, out)
  <2>1. v \in DoubleValues
    BY <1>1, <1>2, TimesIsDouble
  <2> QED
    BY <1>2, <2>1, TopDouble
<1> HIDE DEF out
<1>3. Good(k, Typed(k, <<"double">>, out))
  BY <1>2, DoubleLeafGood
<1> QED
  BY <1>1, <1>3 DEF Sqr_dFunction, out

LEMMA Sqrt_dGood == ASSUME NEW k, Sound(k) PROVE Good(k, Sqrt_dFunction(k))
<1>1. PICK v : v = SquareRoot(Right(k))
  OBVIOUS
<1> DEFINE done == GivesTop(k, Dbl(v))
           out == Unless(k, ~DAtMost(Zero, Right(k)), "RangeCheck", done)
<1>2. ASSUME Load(k) >= 1 /\ Right(k) \in DoubleValues PROVE Good(k, out)
  <2>1. ASSUME ~(~DAtMost(Zero, Right(k))) PROVE Good(k, done)
    <3>1. v \in DoubleValues
      BY <1>1, <1>2, <2>1, SquareRootIsDouble
    <3> QED
      BY <1>2, <3>1, TopDouble
  <2> HIDE DEF done
  <2> QED
    BY <2>1, GoodUnless, PlainErrors
<1> HIDE DEF out
<1>3. Good(k, Typed(k, <<"double">>, out))
  BY <1>2, DoubleLeafGood
<1> QED
  BY <1>1, <1>3 DEF Sqrt_dFunction, out, done

LEMMA Dexp_iGood == ASSUME NEW k, Sound(k) PROVE Good(k, Dexp_iFunction(k))
<1>1. PICK v : v = Scaled(One, ToInt(Right(k)))
  OBVIOUS
<1> DEFINE out == GivesTop(k, Dbl(v))
<1>2. ASSUME Load(k) >= 1 /\ Right(k) \in Int PROVE Good(k, out)
  <2>1. v \in DoubleValues
    BY <1>1, <1>2, ToIntIsInt, OneIsDouble, ScaledIsDouble
  <2> QED
    BY <1>2, <2>1, TopDouble
<1> HIDE DEF out
<1>3. Good(k, Typed(k, <<"integer">>, out))
  BY <1>2, LongLeafGood
<1> QED
  BY <1>1, <1>3 DEF Dexp_iFunction, out

LEMMA Abs_iGood == ASSUME NEW k, Sound(k) PROVE Good(k, Abs_iFunction(k))
<1>1. PICK v : v = Abs(Right(k))
  OBVIOUS
<1> DEFINE done == GivesTop(k, IntTok(v))
           out == Unless(k, Right(k) = MinLong, "RangeCheck", done)
<1>2. ASSUME Load(k) >= 1 /\ Right(k) \in Int PROVE Good(k, out)
  <2>1. ASSUME ~(Right(k) = MinLong) PROVE Good(k, done)
    <3>1. v \in Int
      BY <1>1, <1>2, <2>1, AbsIsNat
    <3> QED
      BY <1>2, <3>1, TopInt
  <2> HIDE DEF done
  <2> QED
    BY <2>1, GoodUnless, PlainErrors
<1> HIDE DEF out
<1>3. Good(k, Typed(k, <<"integer">>, out))
  BY <1>2, LongLeafGood
<1> QED
  BY <1>1, <1>3 DEF Abs_iFunction, out, done

LEMMA Neg_iGood == ASSUME NEW k, Sound(k) PROVE Good(k, Neg_iFunction(k))
<1>1. PICK v : v = -Right(k)
  OBVIOUS
<1> DEFINE done == GivesTop(k, IntTok(v))
           out == Unless(k, Right(k) = MinLong, "RangeCheck", done)
<1>2. ASSUME Load(k) >= 1 /\ Right(k) \in Int PROVE Good(k, out)
  <2>1. ASSUME ~(Right(k) = MinLong) PROVE Good(k, done)
    <3>1. v \in Int
      BY <1>1, <1>2, <2>1, AbsIsNat
    <3> QED
      BY <1>2, <3>1, TopInt
  <2> HIDE DEF done
  <2> QED
    BY <2>1, GoodUnless, PlainErrors
<1> HIDE DEF out
<1>3. Good(k, Typed(k, <<"integer">>, out))
  BY <1>2, LongLeafGood
<1> QED
  BY <1>1, <1>3 DEF Neg_iFunction, out, done

LEMMA Abs_dGood == ASSUME NEW k, Sound(k) PROVE Good(k, Abs_dFunction(k))
<1>1. PICK v : v = IF Smaller(Right(k), Zero) THEN Negated(Right(k)) ELSE Right(k)
  OBVIOUS
<1> DEFINE out == GivesTop(k, Dbl(v))
<1>2. ASSUME Load(k) >= 1 /\ Right(k) \in DoubleValues PROVE Good(k, out)
  <2>1. v \in DoubleValues
    BY <1>1, <1>2, NegatedIsDouble
  <2> QED
    BY <1>2, <2>1, TopDouble
<1> HIDE DEF out
<1>3. Good(k, Typed(k, <<"double">>, out))
  BY <1>2, DoubleLeafGood
<1> QED
  BY <1>1, <1>3 DEF Abs_dFunction, out

LEMMA Neg_dGood == ASSUME NEW k, Sound(k) PROVE Good(k, Neg_dFunction(k))
<1>1. PICK v : v = Negated(Right(k))
  OBVIOUS
<1> DEFINE out == GivesTop(k, Dbl(v))
<1>2. ASSUME Load(k) >= 1 /\ Right(k) \in DoubleValues PROVE Good(k, out)
  <2>1. v \in DoubleValues
    BY <1>1, <1>2, NegatedIsDouble
  <2> QED
    BY <1>2, <2>1, TopDouble
<1> HIDE DEF out
<1>3. Good(k, Typed(k, <<"double">>, out))
  BY <1>2, DoubleLeafGood
<1> QED
  BY <1>1, <1>3 DEF Neg_dFunction, out

LEMMA Inv_dGood == ASSUME NEW k, Sound(k) PROVE Good(k, Inv_dFunction(k))
<1>1. PICK v : v = Over(One, Right(k))
  OBVIOUS
<1> DEFINE done == GivesTop(k, Dbl(v))
           out == Unless(k, Right(k) = Zero, "DivisionByZero", done)
<1>2. ASSUME Load(k) >= 1 /\ Right(k) \in DoubleValues PROVE Good(k, out)
  <2>1. ASSUME ~(Right(k) = Zero) PROVE Good(k, done)
    <3>1. v \in DoubleValues
      BY <1>1, <1>2, <2>1, OneIsDouble, OverIsDouble
    <3> QED
      BY <1>2, <3>1, TopDouble
  <2> HIDE DEF done
  <2> QED
    BY <2>1, GoodUnless, PlainErrors
<1> HIDE DEF out
<1>3. Good(k, Typed(k, <<"double">>, out))
  BY <1>2, DoubleLeafGood
<1> QED
  BY <1>1, <1>3 DEF Inv_dFunction, out, done

LEMMA FiniteQDGood == ASSUME NEW k, Sound(k) PROVE Good(k, FiniteQDFunction(k))
<1>1. PICK out : out = GivesTop(k, Bool(IsFinite(Right(k))))
  OBVIOUS
<1>2. IsFinite(Right(k)) \in BOOLEAN
  BY DEF IsFinite
<1>3. Load(k) >= 1 => Good(k, out)
  BY <1>1, <1>2, TopBool, Zenon
<1>4. Good(k, Typed(k, <<"double">>, out))
  BY <1>3, DoubleLeafGood
<1> QED
  BY <1>1, <1>4, Zenon DEF FiniteQDFunction

LEMMA OkTwo ==
    ASSUME NEW k, Sound(k), Load(k) >= 1, NEW t \in Toks(k.heap), NEW u \in Toks(k.heap)
    PROVE  Good(k, Done(Pushed(SlotSet(k, 0, t), u)))
<1>1. PICK g : g = SlotSet(k, 0, t)
  OBVIOUS
<1>2. 0 \in 0..(Load(k) - 1)
  BY LoadIsNat
<1>3. Ok(k, g)
  BY <1>1, <1>2, OkSlotSet
<1>4. Ok(k, Pushed(g, u))
  BY <1>3, OkPushedOn
<1> QED
  BY <1>1, <1>4, GoodDone

LEMMA ModfGood == ASSUME NEW k, Sound(k) PROVE Good(k, Modf_dFunction(k))
<1>1. PICK x : x = Right(k)
  OBVIOUS
<1>2. PICK frac : frac = IF IsFinite(x) THEN Minus(x, Truncated(x)) ELSE IF x = NaN THEN NaN ELSE Zero
  OBVIOUS
<1> DEFINE out == Done(Pushed(SlotSet(k, 0, Dbl(frac)), Dbl(Truncated(x))))
<1>3. ASSUME Load(k) >= 1 /\ Right(k) \in DoubleValues PROVE Good(k, out)
  <2>1. Truncated(x) \in DoubleValues
    BY <1>1, <1>3, CeilIsDouble
  <2>2. Minus(x, Truncated(x)) \in DoubleValues
    BY <1>1, <1>3, <2>1, MinusIsDouble
  <2>3. frac \in DoubleValues
    BY <1>2, <2>2, SpecialsAreDoubles, ZeroIsFinite
  <2>4. Dbl(frac) \in Toks(k.heap) /\ Dbl(Truncated(x)) \in Toks(k.heap)
    BY <2>1, <2>3, ScalarsAreTokens
  <2> QED
    BY <1>3, <2>4, OkTwo
<1> HIDE DEF out
<1>4. Good(k, Typed(k, <<"double">>, out))
  BY <1>3, DoubleLeafGood
<1> QED
  BY <1>1, <1>2, <1>4 DEF Modf_dFunction, out

LEMMA FrexpGood == ASSUME NEW k, Sound(k) PROVE Good(k, Frexp_dFunction(k))
<1> DEFINE out == Done(Pushed(SlotSet(k, 0, Dbl(Fraction(Right(k)))), IntTok(Exponent(Right(k)))))
<1>1. ASSUME Load(k) >= 1 /\ Right(k) \in DoubleValues PROVE Good(k, out)
  <2>1. Fraction(Right(k)) \in DoubleValues /\ Exponent(Right(k)) \in Int
    BY <1>1, FractionIsDouble, ExponentIsInt
  <2>2. Dbl(Fraction(Right(k))) \in Toks(k.heap) /\ IntTok(Exponent(Right(k))) \in Toks(k.heap)
    BY <2>1, ScalarsAreTokens
  <2> QED
    BY <1>1, <2>2, OkTwo
<1> HIDE DEF out
<1>2. Good(k, Typed(k, <<"double">>, out))
  BY <1>1, DoubleLeafGood
<1> QED
  BY <1>2 DEF Frexp_dFunction, out

LEMMA PowGood == ASSUME NEW k, Sound(k) PROVE Good(k, PowFunction(k))
<1>1. PICK v : v = Libm("pow", <<DLeft(k), DRight(k)>>)
  OBVIOUS
<1> DEFINE done == Gives(k, Dbl(v))
           cut == Unless(k, DLeft(k) = Zero /\ Smaller(DRight(k), Zero), "RangeCheck", done)
           out == Unless(k, ~IsNumber(At(k, 1)) \/ ~IsNumber(At(k, 0)), "ArgumentType", cut)
<1>2. ASSUME Load(k) >= 2 PROVE Good(k, out)
  <2>1. ASSUME ~(~IsNumber(At(k, 1)) \/ ~IsNumber(At(k, 0))) PROVE Good(k, done)
    <3>1. v \in DoubleValues
      BY <1>1, <1>2, <2>1, BothOperands, LibmAssumption
    <3> QED
      BY <1>2, <3>1, GivesDouble
  <2> HIDE DEF done
  <2>2. ASSUME ~(~IsNumber(At(k, 1)) \/ ~IsNumber(At(k, 0))) PROVE Good(k, cut)
    BY <2>1, <2>2, GoodUnless, PlainErrors
  <2> HIDE DEF cut
  <2> QED
    BY <2>2, GoodUnless, PlainErrors
<1> HIDE DEF out
<1>3. Good(k, Needs(k, 2, out))
  BY <1>2, GoodNeeds
<1> QED
  BY <1>1, <1>3 DEF PowFunction, out, cut, done

LEMMA Pow_ddGood == ASSUME NEW k, Sound(k) PROVE Good(k, Pow_ddFunction(k))
<1>1. PICK v : v = Libm("pow", <<Left(k), Right(k)>>)
  OBVIOUS
<1> DEFINE done == Gives(k, Dbl(v))
           out == Unless(k, Left(k) = Zero /\ Smaller(Right(k), Zero), "RangeCheck", done)
<1>2. ASSUME Load(k) >= 2 /\ Matches(k, 1, "double") /\ Matches(k, 0, "double") PROVE Good(k, out)
  <2>1. TagAt(k, 1) = "double" /\ TagAt(k, 0) = "double"
    BY <1>2, CompositesAreTypes, MatchesType
  <2>2. v \in DoubleValues
    BY <1>1, <1>2, <2>1, BothOperands, LibmAssumption
  <2>3. Good(k, done)
    BY <1>2, <2>2, GivesDouble
  <2> HIDE DEF done
  <2> QED
    BY <2>3, GoodUnless, PlainErrors
<1> HIDE DEF out
<1>3. PICK sig : sig = <<"double", "double">>
  OBVIOUS
<1>4. Good(k, Typed(k, sig, out))
  BY <1>2, <1>3, GoodTyped2
<1> QED
  BY <1>1, <1>3, <1>4 DEF Pow_ddFunction, out, done

LEMMA Pow_diGood == ASSUME NEW k, Sound(k) PROVE Good(k, Pow_diFunction(k))
<1>1. PICK v : v = Libm("pow", <<Left(k), FromLong(Right(k))>>)
  OBVIOUS
<1> DEFINE done == Gives(k, Dbl(v))
           out == Unless(k, Left(k) = Zero /\ Right(k) < 0, "RangeCheck", done)
<1>2. ASSUME Load(k) >= 2 /\ Matches(k, 1, "double") /\ Matches(k, 0, "integer") PROVE Good(k, out)
  <2>1. TagAt(k, 1) = "double" /\ TagAt(k, 0) = "integer"
    BY <1>2, CompositesAreTypes, MatchesType
  <2>2. v \in DoubleValues
    BY <1>1, <1>2, <2>1, BothOperands, LibmAssumption
  <2>3. Good(k, done)
    BY <1>2, <2>2, GivesDouble
  <2> HIDE DEF done
  <2> QED
    BY <2>3, GoodUnless, PlainErrors
<1> HIDE DEF out
<1>3. PICK sig : sig = <<"double", "integer">>
  OBVIOUS
<1>4. Good(k, Typed(k, sig, out))
  BY <1>2, <1>3, GoodTyped2
<1> QED
  BY <1>1, <1>3, <1>4 DEF Pow_diFunction, out, done

LEMMA Ldexp_diGood == ASSUME NEW k, Sound(k) PROVE Good(k, Ldexp_diFunction(k))
<1>1. PICK v : v = Scaled(Left(k), ToInt(Right(k)))
  OBVIOUS
<1> DEFINE done == Gives(k, Dbl(v))
<1>2. ASSUME Load(k) >= 2 /\ Matches(k, 1, "double") /\ Matches(k, 0, "integer") PROVE Good(k, done)
  <2>1. TagAt(k, 1) = "double" /\ TagAt(k, 0) = "integer"
    BY <1>2, CompositesAreTypes, MatchesType
  <2>2. v \in DoubleValues
    BY <1>1, <1>2, <2>1, BothOperands, ToIntIsInt, ScaledIsDouble
  <2>3. Good(k, done)
    BY <1>2, <2>2, GivesDouble
  <2> QED
    BY <2>3
<1> HIDE DEF done
<1>3. PICK sig : sig = <<"double", "integer">>
  OBVIOUS
<1>4. Good(k, Typed(k, sig, done))
  BY <1>2, <1>3, GoodTyped2
<1> QED
  BY <1>1, <1>3, <1>4 DEF Ldexp_diFunction, done

LEMMA StepOverGood ==
    ASSUME NEW k, Sound(k), NEW tag, NEW negative, NEW t \in Toks(k.heap), NEW u \in Toks(k.heap)
    PROVE  Good(k, Needs(k, 1, StepOver(k, tag, negative, t, u)))
<1>1. Good(k, Raise(k, "TypeMismatch"))
  BY GoodRaise, PlainErrors
<1>2. ASSUME Load(k) >= 1 PROVE Good(k, StepOver(k, tag, negative, t, u))
  <2>1. Good(k, GivesTop(k, t)) /\ Good(k, GivesTop(k, u))
    BY <1>2, GivesTopGood
  <2>2. StepOver(k, tag, negative, t, u) \in {GivesTop(k, t), GivesTop(k, u), Raise(k, "TypeMismatch")}
    BY DEF StepOver
  <2> QED
    BY <1>1, <2>1, <2>2
<1> QED
  BY <1>2, NeedsOne

LEMMA StepsGood ==
    ASSUME NEW k, Sound(k)
    PROVE  Good(k, UnitStep_iaFunction(k)) /\ Good(k, UnitStep_daFunction(k))
<1>1. IntTok(0) \in Toks(k.heap) /\ IntTok(1) \in Toks(k.heap)
      /\ Dbl(Zero) \in Toks(k.heap) /\ Dbl(One) \in Toks(k.heap)
  BY ScalarsAreTokens, ZeroIsFinite, OneIsDouble
<1>2. Good(k, UnitStep_iaFunction(k))
  BY <1>1, StepOverGood, Zenon DEF UnitStep_iaFunction
<1>3. Good(k, UnitStep_daFunction(k))
  BY <1>1, StepOverGood, Zenon DEF UnitStep_daFunction
<1> QED
  BY <1>2, <1>3

LEMMA DoubleTopGood ==
    ASSUME NEW k, Sound(k), Load(k) >= 1, TagAt(k, 0) = "double"
    PROVE  /\ Good(k, UnitStep_dFunction(k)) /\ Good(k, Round_dFunction(k))
           /\ Good(k, Floor_dFunction(k)) /\ Good(k, Ceil_dFunction(k))
<1>1. Right(k) \in DoubleValues
  BY RightOperand
<1>2. Good(k, UnitStep_dFunction(k))
  <2>1. PICK x : x = IF DAtMost(Zero, Right(k)) THEN One ELSE Zero
    OBVIOUS
  <2>2. x \in DoubleValues
    BY <2>1, ZeroIsFinite, OneIsDouble
  <2>3. Good(k, Needs(k, 1, GivesTop(k, Dbl(x))))
    BY <2>2, TopDouble, NeedsOne
  <2> QED
    BY <2>1, <2>3 DEF UnitStep_dFunction
<1>3. Good(k, Round_dFunction(k))
  BY <1>1, NearestIsDouble, TopDouble, NeedsOne DEF Round_dFunction
<1>4. Good(k, Floor_dFunction(k))
  BY <1>1, FloorIsDouble, TopDouble, NeedsOne DEF Floor_dFunction
<1>5. Good(k, Ceil_dFunction(k))
  BY <1>1, CeilIsDouble, TopDouble, NeedsOne DEF Ceil_dFunction
<1> QED
  BY <1>2, <1>3, <1>4, <1>5

LEMMA LongTopGood ==
    ASSUME NEW k, Sound(k), Load(k) >= 1, TagAt(k, 0) = "integer"
    PROVE  Good(k, UnitStep_iFunction(k)) /\ Good(k, DoubleFunction(k))
<1>1. FromLong(Right(k)) \in DoubleValues
  BY RightOperand
<1>2. Good(k, UnitStep_iFunction(k))
  <2>1. PICK n \in Int : n = IF Right(k) >= 0 THEN 1 ELSE 0
    OBVIOUS
  <2>2. Good(k, Needs(k, 1, GivesTop(k, IntTok(n))))
    BY TopInt, NeedsOne
  <2> QED
    BY <2>1, <2>2 DEF UnitStep_iFunction
<1>3. Good(k, DoubleFunction(k))
  BY <1>1, TopDouble, NeedsOne DEF DoubleFunction
<1> QED
  BY <1>2, <1>3

LEMMA IntegerGood == ASSUME NEW k, Sound(k), NEW n \in Int PROVE Good(k, IntegerFunction(k, n))
BY TopInt, NeedsOne DEF IntegerFunction

LEMMA CviGood == ASSUME NEW k, Sound(k), NEW n \in Int PROVE Good(k, CviFunction(k, n))
<1>1. PICK out : out = CASE TagAt(k, 0) = "integer" -> Done(k)
                         [] TagAt(k, 0) = "double" -> IntegerFunction(k, n)
                         [] OTHER -> Raise(k, "ArgumentType")
  OBVIOUS
<1>2. out \in {Done(k), IntegerFunction(k, n), Raise(k, "ArgumentType")}
  BY <1>1
<1>3. Good(k, out)
  BY <1>2, GoodSame, IntegerGood
<1> QED
  BY <1>1, <1>3, GoodNeeds DEF CviFunction

LEMMA CvdGood == ASSUME NEW k, Sound(k) PROVE Good(k, CvdFunction(k))
<1>1. PICK out : out = CASE TagAt(k, 0) = "integer" -> DoubleFunction(k)
                         [] TagAt(k, 0) = "double" -> Done(k)
                         [] OTHER -> Raise(k, "ArgumentType")
  OBVIOUS
<1>2. out \in {Done(k), Raise(k, "ArgumentType")} \/ (out = DoubleFunction(k) /\ TagAt(k, 0) = "integer")
  BY <1>1
<1>3. Load(k) >= 1 => Good(k, out)
  BY <1>2, GoodSame, LongTopGood
<1> QED
  BY <1>1, <1>3, GoodNeeds DEF CvdFunction

-----------------------------------------------------------------------------
(* What nobody holds any more *)

LEMMA OrphansGrow ==
    ASSUME NEW k, NEW c \in SUBSET Ids, NEW d \in SUBSET Ids, c \subseteq d
    PROVE  /\ Orphans(k, c) \in SUBSET Ids /\ Orphans(k, c) \subseteq Orphans(k, d)
           /\ Orphans(k, c) \subseteq {x \in Ids : k.heap[x].kind # "free" /\ ~Rooted(k, x)}
BY DEF Orphans

\* The dead are the least set that holds all of its orphans.
LEMMA DeadIsLeast ==
    ASSUME NEW k
    PROVE  /\ Dead(k) \in SUBSET Ids /\ Orphans(k, Dead(k)) = Dead(k)
           /\ \A d \in SUBSET Ids : Orphans(k, d) \subseteq d => Dead(k) \subseteq d
<1>1. PICK M \in Nat : M = MaxObjects /\ Ids = 1..M
  BY MaxObjectsAssumption DEF Ids
<1>2. PICK loose : loose = {x \in Ids : k.heap[x].kind # "free" /\ ~Rooted(k, x)}
  OBVIOUS
<1>3. loose \subseteq 1..M
  BY <1>1, <1>2
<1>4. PICK N \in Nat : N = Cardinality(loose)
  BY <1>1, <1>3, PartOfSegment
<1>5. PICK D : D = SUBSET Ids
  OBVIOUS
<1>6. PICK a \in D : a = {}
  BY <1>5
<1>7. PICK S : S = [p \in Nat \X D |-> Orphans(k, p[2])]
  OBVIOUS
<1>8. S \in [Nat \X D -> D]
  BY <1>5, <1>7, OrphansGrow
<1>9. PICK f \in [Nat -> D] : Unfolds(Nat, a, S, f)
  BY <1>6, <1>8, RecursionWorks
<1>10. \A n \in Nat : n # 0 => n - 1 \in Nat
  OBVIOUS
<1>11. \A n \in Nat : f[n] = IF n = 0 THEN {} ELSE Orphans(k, f[n - 1])
  BY <1>6, <1>7, <1>9, <1>10 DEF Unfolds
<1>12. f = [n \in Nat |-> IF n = 0 THEN {} ELSE Orphans(k, f[n - 1])]
  BY <1>9, <1>11
<1>13. PICK dead : dead = CHOOSE g : g = [n \in Nat |-> IF n = 0 THEN {} ELSE Orphans(k, g[n - 1])]
  OBVIOUS
<1>14. dead = [n \in Nat |-> IF n = 0 THEN {} ELSE Orphans(k, dead[n - 1])]
  BY <1>12, <1>13
<1>15. \A n \in Nat : dead[n] = IF n = 0 THEN {} ELSE Orphans(k, dead[n - 1])
  BY <1>14
<1>16. dead[0] = {} /\ \A n \in Nat : dead[n + 1] = Orphans(k, dead[n])
  <2>1. ASSUME NEW n \in Nat PROVE dead[n + 1] = Orphans(k, dead[n])
    <3>1. PICK l \in Nat : l = n + 1 /\ l # 0 /\ l - 1 = n
      OBVIOUS
    <3> QED
      BY <1>15, <3>1
  <2> QED
    BY <1>15, <2>1
<1>17. Dead(k) = dead[N]
  BY <1>2, <1>4, <1>13 DEF Dead
\* They grow.
<1>18. \A n \in Nat : dead[n] \in SUBSET Ids /\ dead[n] \subseteq loose /\ dead[n] \subseteq Orphans(k, dead[n])
  <2>1. PICK P : P = {n \in Nat : dead[n] \in SUBSET Ids /\ dead[n] \subseteq loose /\ dead[n] \subseteq Orphans(k, dead[n])}
    OBVIOUS
  <2>2. 0 \in P
    BY <1>16, <2>1
  <2>3. ASSUME NEW n \in Nat, n \in P PROVE n + 1 \in P
    <3>1. PICK c : c = dead[n]
      OBVIOUS
    <3>2. PICK d : d = Orphans(k, c)
      OBVIOUS
    <3>3. c \in SUBSET Ids /\ c \subseteq d
      BY <2>1, <2>3, <3>1, <3>2
    <3>4. d \in SUBSET Ids /\ d \subseteq loose
      BY <1>2, <3>2, <3>3, OrphansGrow
    <3>5. d \subseteq Orphans(k, d)
      BY <3>2, <3>3, <3>4, OrphansGrow
    <3>6. dead[n + 1] = d /\ n + 1 \in Nat
      BY <1>16, <3>1, <3>2
    <3> QED
      BY <2>1, <3>4, <3>5, <3>6
  <2>4. \A n \in Nat : n \in P
    BY <2>2, <2>3, NaturalsByInduction
  <2> QED
    BY <2>1, <2>4
<1>19. \A d : d \subseteq loose => IsFiniteSet(d) /\ Cardinality(d) \in Nat
  BY <1>3, PartOfSegment
\* As long as they change there is one more.
<1>20. \A n \in Nat : Cardinality(dead[n]) >= n \/ dead[n] = Orphans(k, dead[n])
  <2>1. PICK P : P = {n \in Nat : Cardinality(dead[n]) >= n \/ dead[n] = Orphans(k, dead[n])}
    OBVIOUS
  <2>2. 0 \in P
    BY <1>18, <1>19, <2>1
  <2>3. ASSUME NEW n \in Nat, n \in P PROVE n + 1 \in P
    <3>1. PICK l \in Nat : l = n + 1
      OBVIOUS
    <3>2. dead[l] = Orphans(k, dead[n])
      BY <1>16, <3>1
    <3>3. CASE dead[n] = Orphans(k, dead[n])
      BY <2>1, <3>1, <3>2, <3>3
    <3>4. CASE dead[n] # Orphans(k, dead[n]) /\ Cardinality(dead[n]) >= n
      <4>1. PICK c : c = dead[n]
        OBVIOUS
      <4>2. PICK d : d = dead[l]
        OBVIOUS
      <4>3. c \subseteq d /\ c # d /\ d \subseteq loose
        BY <1>18, <3>1, <3>2, <3>4, <4>1, <4>2
      <4>4. IsFiniteSet(d) /\ Cardinality(d) \in Nat /\ c \in SUBSET d /\ c # d
        BY <1>19, <4>3
      <4>5. Cardinality(c) < Cardinality(d)
        <5>1. Cardinality(c) \in Nat
          BY <1>19, <3>4, <4>1, <4>3
        <5> QED
          BY <4>4, <5>1, FS_Subset
      <4> QED
        <5>1. Cardinality(c) \in Nat /\ Cardinality(c) >= n
          BY <1>19, <3>4, <4>1, <4>3
        <5>2. Cardinality(d) >= l
          BY <3>1, <4>4, <4>5, <5>1
        <5> QED
          BY <2>1, <3>1, <4>2, <5>2
    <3> QED
      BY <2>1, <2>3, <3>3, <3>4
  <2>4. \A n \in Nat : n \in P
    BY <2>2, <2>3, NaturalsByInduction
  <2> QED
    BY <2>1, <2>4
<1>21. dead[N] = Orphans(k, dead[N])
  <2>1. PICK c : c = dead[N]
    OBVIOUS
  <2>2. c \in SUBSET Ids /\ c \subseteq loose /\ c \subseteq Orphans(k, c)
    BY <1>18, <2>1
  <2>3. Orphans(k, c) \subseteq loose
    BY <1>2, <2>2, OrphansGrow
  <2>4. CASE Cardinality(c) >= N
    <3>1. IsFiniteSet(loose) /\ c \in SUBSET loose /\ Cardinality(c) \in Nat
      BY <1>19, <2>2
    <3>2. c # loose => Cardinality(c) < Cardinality(loose)
      BY <1>4, <3>1, FS_Subset
    <3>3. c = loose
      BY <1>4, <2>4, <3>1, <3>2
    <3> QED
      BY <2>1, <2>2, <2>3, <3>3
  <2> QED
    BY <1>20, <2>1, <2>4
<1>22. ASSUME NEW d \in SUBSET Ids, Orphans(k, d) \subseteq d PROVE \A n \in Nat : dead[n] \subseteq d
  <2>1. PICK P : P = {n \in Nat : dead[n] \subseteq d}
    OBVIOUS
  <2>2. 0 \in P
    BY <1>16, <2>1
  <2>3. ASSUME NEW n \in Nat, n \in P PROVE n + 1 \in P
    <3>1. PICK c \in SUBSET Ids : c = dead[n] /\ c \subseteq d
      BY <1>18, <2>1, <2>3
    <3>2. Orphans(k, c) \subseteq d
      BY <1>22, <3>1, OrphansGrow
    <3>3. dead[n + 1] = Orphans(k, c) /\ n + 1 \in Nat
      BY <1>16, <3>1
    <3> QED
      BY <2>1, <3>2, <3>3
  <2>4. \A n \in Nat : n \in P
    BY <2>2, <2>3, NaturalsByInduction
  <2> QED
    BY <2>1, <2>4
<1> QED
  BY <1>17, <1>18, <1>21, <1>22

LEMMA ReleasedParts ==
    ASSUME NEW k, Sound(k)
    PROVE  /\ Released(k).st = k.st /\ Released(k).es = k.es /\ Released(k).room = k.room
           /\ DOMAIN Released(k).heap = Ids /\ Shape(Released(k))
           /\ \A x \in Ids : Released(k).heap[x] = IF x \in Dead(k) THEN Free ELSE k.heap[x]
<1>1. PICK d : d = Dead(k)
  OBVIOUS
<1>2. k = [st |-> k.st, es |-> k.es, heap |-> k.heap, room |-> k.room]
  BY DEF Sound, Shape
<1>3. DOMAIN k.heap = Ids
  BY DEF Sound, WellFormed
<1>4. CASE Orphans(k, {}) = {}
  <2>1. Dead(k) \subseteq {}
    BY <1>4, DeadIsLeast
  <2>2. Released(k) = k
    BY <1>4 DEF Released
  <2> QED
    BY <1>2, <1>3, <2>1, <2>2 DEF Shape
<1>5. CASE Orphans(k, {}) # {}
  <2>1. PICK g : g = [x \in Ids |-> IF x \in d THEN Free ELSE k.heap[x]]
    OBVIOUS
  <2>2. Released(k) = [k EXCEPT !.heap = [x \in Ids |-> IF x \in Dead(k) THEN Free ELSE k.heap[x]]]
    BY <1>5 DEF Released
  <2>3. Released(k) = [k EXCEPT !.heap = g]
    BY <1>1, <2>1, <2>2
  <2>4. Released(k) = [st |-> k.st, es |-> k.es, heap |-> g, room |-> k.room]
    BY <1>2, <2>3
  <2> QED
    BY <1>1, <2>1, <2>4 DEF Shape
<1> QED
  BY <1>4, <1>5

\* What a token that is not dead refers to is not dead.
LEMMA DeadAreUnused ==
    ASSUME NEW k, Sound(k), NEW x \in Dead(k)
    PROVE  /\ x \in Ids /\ k.heap[x].kind # "free" /\ k.heap[x].lost = 0
           /\ \A i \in DOMAIN k.st : ~Refers(k.st[i], x)
           /\ \A i \in DOMAIN k.es : ~Refers(k.es[i], x)
           /\ \A y \in Ids : y \notin Dead(k) =>
                  \A i \in DOMAIN Contents(k.heap[y]) : ~Refers(Contents(k.heap[y])[i], x)
<1>1. PICK d : d = Dead(k)
  OBVIOUS
<1>2. x \in Orphans(k, d)
  BY <1>1, DeadIsLeast
<1> QED
  BY <1>1, <1>2 DEF Orphans, Rooted, Holders, Uses

LEMMA LiveTokens ==
    ASSUME NEW k, Sound(k), NEW g, NEW t \in Toks(k.heap),
           \A x \in Ids : g[x] = IF x \in Dead(k) THEN Free ELSE k.heap[x],
           \A x \in Dead(k) : ~Refers(t, x)
    PROVE  t \in Toks(g)
<1>1. Tag(t) \in CompositeTags => Data(t) \in Ids /\ Data(t) \notin Dead(k)
  BY TokenData DEF Refers
<1> QED
  BY <1>1 DEF Toks, IsToken

LEMMA LiveSequence ==
    ASSUME NEW k, Sound(k), NEW g, NEW s \in Seq(Toks(k.heap)),
           \A x \in Ids : g[x] = IF x \in Dead(k) THEN Free ELSE k.heap[x],
           \A x \in Dead(k) : \A i \in DOMAIN s : ~Refers(s[i], x)
    PROVE  s \in Seq(Toks(g))
<1>1. \A i \in 1..Len(s) : s[i] \in Toks(g)
  <2> SUFFICES ASSUME NEW i \in 1..Len(s) PROVE s[i] \in Toks(g)
    OBVIOUS
  <2>1. s[i] \in Toks(k.heap) /\ i \in DOMAIN s
    BY SeqParts
  <2>2. PICK t : t = s[i]
    OBVIOUS
  <2>3. \A x \in Dead(k) : ~Refers(t, x)
    BY <2>1, <2>2
  <2> QED
    BY <2>1, <2>2, <2>3, LiveTokens
<1>2. Len(s) \in Nat /\ s = [i \in 1..Len(s) |-> s[i]]
  OBVIOUS
<1> QED
  BY <1>1, <1>2, SeqBuilt

LEMMA ReleasedIsSound ==
    ASSUME NEW k, Sound(k)
    PROVE  Sound(Released(k))
<1>1. PICK g : g = Released(k).heap
  OBVIOUS
<1>2. \A x \in Ids : g[x] = IF x \in Dead(k) THEN Free ELSE k.heap[x]
  BY <1>1, ReleasedParts
<1>3. k.st \in Seq(Toks(k.heap)) /\ k.es \in Seq(Toks(k.heap)) /\ WellFormed(k.heap)
  BY DEF Sound
<1>4. k.st \in Seq(Toks(g)) /\ k.es \in Seq(Toks(g))
  BY <1>2, <1>3, LiveSequence, DeadAreUnused
<1>5. ASSUME NEW x \in Ids PROVE IsPayload(g, g[x])
  <2>1. CASE x \in Dead(k)
    <3>1. g[x] = Free
      BY <1>2, <2>1
    <3>2. IsPayload(g, Free)
      BY DEF IsPayload, Free, IsBody, Unlimited, NoAccess
    <3> QED
      BY <3>1, <3>2
  <2>2. CASE x \notin Dead(k)
    <3>1. PICK o : o = k.heap[x]
      OBVIOUS
    <3>2. g[x] = o
      BY <1>2, <2>2, <3>1
    <3>3. IsPayload(k.heap, o)
      BY <1>3, <3>1 DEF WellFormed
    <3>4. o.kind \in {"free", "array", "string", "dictionary"} /\ IsBody(k.heap, o.kind, o.body)
      BY <1>3, <3>1, PayloadParts
    <3>5. \A y \in Dead(k) : \A i \in DOMAIN Contents(o) : ~Refers(Contents(o)[i], y)
      BY <2>2, <3>1, DeadAreUnused
    <3>6. IsBody(g, o.kind, o.body)
      <4>1. CASE o.kind = "array"
        <5>1. o.body \in Seq(Toks(k.heap)) /\ Contents(o) = o.body
          BY <3>4, <4>1, TokensAreToks DEF IsBody, Contents
        <5>2. o.body \in Seq(Toks(g))
          BY <1>2, <3>5, <5>1, LiveSequence
        <5> QED
          BY <4>1, <5>2, TokensAreToks DEF IsBody
      <4>2. CASE o.kind = "dictionary"
        <5>1. DOMAIN o.body \subseteq Names /\ Contents(o) = o.body
              /\ \A l \in DOMAIN o.body : IsToken(k.heap, o.body[l])
          BY <3>4, <4>2 DEF IsBody, Contents
        <5>2. ASSUME NEW l \in DOMAIN o.body PROVE IsToken(g, o.body[l])
          <6>1. PICK t : t = o.body[l]
            OBVIOUS
          <6>2. t \in Toks(k.heap)
            BY <5>1, <6>1 DEF Toks, IsToken
          <6>3. \A y \in Dead(k) : ~Refers(t, y)
            BY <3>5, <5>1, <6>1
          <6>4. t \in Toks(g)
            BY <1>2, <6>2, <6>3, LiveTokens
          <6> QED
            BY <6>1, <6>4 DEF Toks
        <5> QED
          BY <4>2, <5>1, <5>2 DEF IsBody
      <4>3. CASE o.kind \in {"free", "string"}
        BY <3>4, <4>3 DEF IsBody
      <4> QED
        BY <3>4, <4>1, <4>2, <4>3
    <3> QED
      BY <3>2, <3>3, <3>6 DEF IsPayload
  <2> QED
    BY <2>1, <2>2
<1>6. WellFormed(g)
  BY <1>1, <1>5, ReleasedParts DEF WellFormed
<1> QED
  BY <1>1, <1>4, <1>6, ReleasedParts DEF Sound

\* What is left when the dead are gone is held by somebody.
LEMMA ReleasedIsCollected ==
    ASSUME NEW k, Sound(k)
    PROVE  Collected(Released(k))
<1>1. PICK g : g = Released(k)
  OBVIOUS
<1>2. /\ g.st = k.st /\ g.es = k.es
      /\ \A x \in Ids : g.heap[x] = IF x \in Dead(k) THEN Free ELSE k.heap[x]
  BY <1>1, ReleasedParts
<1>3. ASSUME NEW x \in Ids, g.heap[x].kind # "free", ~Rooted(g, x), ~(g.heap[x].lost > 0)
      PROVE  Holders(g, x) # {}
  <2>1. x \notin Dead(k) /\ g.heap[x] = k.heap[x]
    BY <1>2, <1>3 DEF Free
  <2>2. ~Rooted(k, x)
    BY <1>2, <1>3 DEF Rooted
  <2>3. k.heap[x].lost = 0
    <3>1. WellFormed(k.heap)
      BY DEF Sound
    <3>2. PICK n \in Nat : n = k.heap[x].lost
      BY <3>1, PayloadParts
    <3> QED
      BY <1>3, <2>1, <3>2
  <2>4. PICK d : d = Dead(k)
    OBVIOUS
  <2>5. x \notin Orphans(k, d)
    BY <2>1, <2>4, DeadIsLeast
  <2>6. ~(Holders(k, x) \subseteq d)
    BY <1>3, <2>1, <2>2, <2>3, <2>5 DEF Orphans
  <2>7. PICK y \in Holders(k, x) : y \notin d
    BY <2>6
  <2>8. y \in Ids /\ g.heap[y] = k.heap[y]
    BY <1>2, <2>4, <2>7 DEF Holders
  <2>9. y \in Holders(g, x)
    BY <2>7, <2>8 DEF Holders
  <2> QED
    BY <2>9
<1> QED
  BY <1>1, <1>3 DEF Collected

-----------------------------------------------------------------------------
(* Reading a saved state: payloads are made where there were none, and what is
   read refers only to payloads that are made so.  d is the set of those that a
   token may already refer to: a string is not among them before its characters
   are there, and an array is, though it may not be complete. *)

Fits(h, d) ==
    {t \in Values : Tag(t) \in CompositeTags => Data(t) \in d /\ h[Data(t)].kind = Kind(Tag(t))}

NewPayload(h, d, o) ==
    /\ o = [kind |-> o.kind, acc |-> o.acc, body |-> o.body, lost |-> o.lost]
    /\ o.acc \in Unlimited..NoAccess /\ o.lost \in Nat
    /\ \/ o.kind = "array" /\ o.body \in Seq(Fits(h, d))
       \/ o.kind = "string" /\ o.body \in Seq(Characters)

\* What was there is as it was.
Added(old, h, d) ==
    /\ DOMAIN h = Ids /\ d \subseteq Ids
    /\ \A x \in d : old[x].kind = "free" /\ h[x].kind # "free"
    /\ \A x \in Ids : IF old[x].kind = "free" THEN h[x] = Free \/ NewPayload(h, d, h[x])
                      ELSE h[x] = old[x]

Half(f) == f.tag = "string" /\ f.left = Unread
Frames(old, h, d) ==
    {f \in [tag : {"estack", "ostack"} \cup PayloadTags, x : Ids \cup {0}, left : Int,
            got : Seq(Values \cup Characters)] :
        /\ f.tag = "string" => f.x # 0 /\ f.left \in {Unread, 0} /\ f.got \in Seq(Characters)
        /\ f.tag # "string" => f.got \in Seq(Fits(h, d))
        /\ f.x # 0 => /\ old[f.x].kind = "free" /\ f.tag \in PayloadTags
                      /\ h[f.x].kind = Kind(f.tag) /\ (Half(f) \/ f.x \in d)}

\* n stacks have been read; a string is the innermost.
Opened(open, n) ==
    /\ n \in 0..2 /\ Len(open) >= 2 - n /\ (n = 2 => open = <<>>)
    /\ \A i \in 1..Len(open) :
           (open[i].x = 0 <=> i <= 2 - n) /\ (open[i].tag = "string" => i = Len(open))

HalfOn(open, x) == Len(open) > 0 /\ Half(open[Len(open)]) /\ open[Len(open)].x = x
Known(W, old, h, d, objects, open) ==
    \A n \in DOMAIN objects :
        /\ objects[n] \in Ids /\ old[objects[n]].kind = "free" /\ h[objects[n]].kind # "free"
        /\ \A w \in W : Tag(w) \in PayloadTags /\ Data(w) = n => h[objects[n]].kind = Kind(Tag(w))
        /\ objects[n] \in d \/ HalfOn(open, objects[n])

ReadSoFar(W, old, h, d, in, objects, stacks, open) ==
    /\ Added(old, h, d)
    /\ in \in Seq(W)
    /\ stacks \in Seq(Seq(Fits(h, d)))
    /\ open \in Seq(Frames(old, h, d)) /\ Opened(open, Len(stacks))
    /\ \A x \in d : ~HalfOn(open, x)
    /\ Known(W, old, h, d, objects, open)

Numbered(W) ==
    /\ W \subseteq Words
    /\ \A v, w \in W :
           Tag(v) \in PayloadTags /\ Tag(w) \in PayloadTags /\ Data(v) = Data(w)
           => Kind(Tag(v)) = Kind(Tag(w))

LEMMA FitsGrow ==
    ASSUME NEW h, NEW g, NEW d, NEW e, d \subseteq e, \A x \in d : g[x].kind = h[x].kind
    PROVE  Fits(h, d) \subseteq Fits(g, e)
BY DEF Fits

LEMMA FramesGrow ==
    ASSUME NEW old, NEW h, NEW g, NEW d, NEW e, d \subseteq e,
           \A x \in Ids : h[x].kind # "free" => g[x].kind = h[x].kind,
           \A x \in d : g[x].kind = h[x].kind
    PROVE  Frames(old, h, d) \subseteq Frames(old, g, e)
<1>1. PICK S : S = Seq(Fits(h, d))
  OBVIOUS
<1>2. PICK T : T = Seq(Fits(g, e))
  OBVIOUS
<1>3. S \subseteq T
  BY <1>1, <1>2, FitsGrow, SeqMono
<1>4. ASSUME NEW f \in Frames(old, h, d) PROVE f \in Frames(old, g, e)
  <2>1. f.x # 0 => f.x \in Ids /\ h[f.x].kind = Kind(f.tag) /\ f.tag \in PayloadTags
    BY <1>4 DEF Frames
  <2>2. f.x # 0 => g[f.x].kind = Kind(f.tag)
    BY <2>1, KindOf DEF PayloadTags
  <2> QED
    BY <1>1, <1>2, <1>3, <1>4, <2>2 DEF Frames
<1> QED
  BY <1>4

LEMMA NewPayloadsGrow ==
    ASSUME NEW h, NEW g, NEW d, NEW e, d \subseteq e, \A x \in d : g[x].kind = h[x].kind,
           NEW o, NewPayload(h, d, o)
    PROVE  NewPayload(g, e, o)
<1>1. PICK S : S = Fits(h, d)
  OBVIOUS
<1>2. PICK T : T = Fits(g, e)
  OBVIOUS
<1>3. S \subseteq T
  BY <1>1, <1>2, FitsGrow
<1>4. o.body \in Seq(S) => o.body \in Seq(T)
  BY <1>3, SeqMono
<1> QED
  BY <1>1, <1>2, <1>4 DEF NewPayload

LEMMA StacksGrow ==
    ASSUME NEW S, NEW T, S \subseteq T, NEW s \in Seq(Seq(S))
    PROVE  s \in Seq(Seq(T))
<1>1. Seq(S) \subseteq Seq(T)
  BY SeqMono
<1> QED
  BY <1>1, SeqMono

LEMMA NewTop ==
    ASSUME NEW S, NEW s \in Seq(S), Len(s) >= 1, NEW t \in S
    PROVE  /\ Append(Front(s), t) \in Seq(S) /\ Len(Append(Front(s), t)) = Len(s)
           /\ Append(Front(s), t)[Len(s)] = t
           /\ \A i \in 1..Len(s) : i # Len(s) => Append(Front(s), t)[i] = s[i]
           /\ Front(s) \in Seq(S) /\ Len(Front(s)) = Len(s) - 1
           /\ \A i \in 1..Len(s) : i # Len(s) => Front(s)[i] = s[i]
           /\ Last(s) = s[Len(s)] /\ Last(s) \in S
<1>1. PICK n \in Nat : n = Len(s) /\ n >= 1
  BY SeqParts
<1>2. PICK l \in Nat : l = n - 1
  BY <1>1
<1>3. PICK f : f = SubSeq(s, 1, l)
  OBVIOUS
<1>4. f \in Seq(S) /\ Len(f) = l /\ \A i \in 1..l : f[i] = s[i]
  BY <1>1, <1>2, <1>3, SeqCut
<1>5. Front(s) = f
  BY <1>1, <1>2, <1>3 DEF Front
<1>6. PICK g : g = Append(f, t)
  OBVIOUS
<1>7. g \in Seq(S) /\ Len(g) = l + 1 /\ g[l + 1] = t /\ \A i \in 1..l : g[i] = f[i]
  BY <1>4, <1>6, SeqAppend
<1>8. Last(s) = s[Len(s)] /\ Last(s) \in S
  BY <1>1 DEF Last
<1>9. g \in Seq(S) /\ Len(g) = n /\ g[n] = t /\ \A i \in 1..n : i # n => g[i] = s[i] /\ f[i] = s[i]
  BY <1>2, <1>4, <1>7
<1> QED
  BY <1>1, <1>2, <1>4, <1>5, <1>6, <1>8, <1>9

LEMMA SeqTail ==
    ASSUME NEW S, NEW s \in Seq(S), s # <<>>
    PROVE  Head(s) \in S /\ Tail(s) \in Seq(S) /\ Len(Tail(s)) = Len(s) - 1
OBVIOUS

LEMMA OpenWithTop ==
    ASSUME NEW S, NEW s \in Seq(S), Len(s) >= 1, NEW n, Opened(s, n), NEW f \in S,
           f.x = Last(s).x, f.tag = Last(s).tag
    PROVE  /\ Append(Front(s), f) \in Seq(S) /\ Opened(Append(Front(s), f), n)
           /\ Len(Append(Front(s), f)) = Len(s) /\ Append(Front(s), f)[Len(s)] = f
<1>1. PICK p : p = Append(Front(s), f)
  OBVIOUS
<1>2. PICK l \in Nat : l = Len(s) /\ l >= 1
  BY SeqParts
<1>3. /\ p \in Seq(S) /\ Len(p) = l /\ p[l] = f
      /\ \A i \in 1..l : i # l => p[i] = s[i]
      /\ Last(s) = s[l]
  BY <1>1, <1>2, NewTop
<1>4. /\ n \in 0..2 /\ l >= 2 - n /\ n # 2
      /\ \A i \in 1..l : (s[i].x = 0 <=> i <= 2 - n) /\ (s[i].tag = "string" => i = l)
  <2>1. s # <<>>
    BY <1>2, SeqParts
  <2> QED
    BY <1>2, <2>1 DEF Opened
<1>5. \A i \in 1..l : (p[i].x = 0 <=> i <= 2 - n) /\ (p[i].tag = "string" => i = l)
  BY <1>2, <1>3, <1>4
<1>6. Opened(p, n)
  BY <1>3, <1>4, <1>5 DEF Opened
<1> QED
  BY <1>1, <1>2, <1>3, <1>6

LEMMA OpenParts ==
    ASSUME NEW W, NEW old, NEW h, NEW d, NEW in, NEW objects, NEW stacks, NEW open,
           ReadSoFar(W, old, h, d, in, objects, stacks, open), open # <<>>
    PROVE  /\ Len(open) \in Nat /\ Len(open) >= 1 /\ Last(open) = open[Len(open)]
           /\ Last(open) \in Frames(old, h, d)
           /\ Len(stacks) \in 0..1 /\ Len(open) >= 2 - Len(stacks)
           /\ Last(open).x = 0 => Len(open) = 2 - Len(stacks)
           /\ Last(open).x # 0 => Len(open) > 2 - Len(stacks)
           /\ Last(open).tag # "string" => \A x : ~HalfOn(open, x)
<1>1. open \in Seq(Frames(old, h, d)) /\ Opened(open, Len(stacks))
  BY DEF ReadSoFar
<1>2. PICK l \in Nat : l = Len(open) /\ l >= 1
  BY <1>1, SeqParts
<1>3. PICK n : n = Len(stacks)
  OBVIOUS
<1>4. Last(open) = open[l] /\ Last(open) \in Frames(old, h, d)
  BY <1>1, <1>2, NewTop
<1>5. n \in 0..1 /\ l >= 2 - n /\ (open[l].x = 0 <=> l <= 2 - n)
  BY <1>1, <1>2, <1>3 DEF Opened
<1>6. Last(open).tag # "string" => \A x : ~HalfOn(open, x)
  BY <1>2, <1>4 DEF HalfOn, Half
<1> QED
  BY <1>2, <1>3, <1>4, <1>5, <1>6

\* When no string is half read, all that has a number may be referred to.
LEMMA KnownWhole ==
    ASSUME NEW W, NEW old, NEW h, NEW d, NEW in, NEW objects, NEW stacks, NEW open,
           ReadSoFar(W, old, h, d, in, objects, stacks, open), open # <<>>,
           Last(open).tag # "string", NEW n \in DOMAIN objects
    PROVE  /\ objects[n] \in d
           /\ \A w \in W : Tag(w) \in PayloadTags /\ Data(w) = n => h[objects[n]].kind = Kind(Tag(w))
<1>1. ~HalfOn(open, objects[n])
  BY OpenParts
<1> QED
  BY <1>1 DEF ReadSoFar, Known

LEMMA SameKnown ==
    ASSUME NEW W, NEW old, NEW h, NEW d, NEW objects, NEW open, NEW p,
           Known(W, old, h, d, objects, open), \A x : ~HalfOn(open, x)
    PROVE  Known(W, old, h, d, objects, p)
BY DEF Known

LEMMA CloseStackReads ==
    ASSUME NEW W, NEW old, NEW h, NEW d, NEW in, NEW objects, NEW stacks, NEW open,
           ReadSoFar(W, old, h, d, in, objects, stacks, open), open # <<>>, Last(open).x = 0
    PROVE  /\ ReadSoFar(W, old, h, d, in, objects, Append(stacks, Last(open).got), Front(open))
           /\ Len(Append(stacks, Last(open).got)) = Len(stacks) + 1
<1>1. PICK l \in Nat : l = Len(open) /\ l >= 1
  BY OpenParts
<1>2. PICK n \in 0..1 : n = Len(stacks)
  BY OpenParts
<1>3. l = 2 - n
  BY <1>1, <1>2, OpenParts
<1>4. PICK got : got = Last(open).got
  OBVIOUS
<1>5. Last(open) \in Frames(old, h, d) /\ Last(open) = open[l]
  BY <1>1, OpenParts
<1>6. got \in Seq(Fits(h, d)) /\ Last(open).tag # "string"
  BY <1>4, <1>5 DEF Frames
<1>7. PICK p : p = Front(open)
  OBVIOUS
<1>8. open \in Seq(Frames(old, h, d)) /\ Opened(open, n) /\ stacks \in Seq(Seq(Fits(h, d)))
  BY <1>2 DEF ReadSoFar
<1>9. PICK q \in Int : q = l - 1
  BY <1>1
<1>10. p \in Seq(Frames(old, h, d)) /\ Len(p) = q /\ \A i \in 1..l : i # l => p[i] = open[i]
  BY <1>1, <1>5, <1>7, <1>8, <1>9, NewTop
<1>11. PICK s : s = Append(stacks, got)
  OBVIOUS
<1>12. PICK o \in Nat : o = n + 1
  BY <1>2
<1>13. s \in Seq(Seq(Fits(h, d))) /\ Len(s) = o
  <2>1. PICK S : S = Seq(Fits(h, d))
    OBVIOUS
  <2> QED
    BY <1>2, <1>6, <1>8, <1>11, <1>12, <2>1, SeqAppend
<1>14. \A i \in 1..q : open[i].tag # "string"
  BY <1>1, <1>8, <1>9 DEF Opened
<1>15. Opened(p, o)
  <2>1. o \in 0..2 /\ q >= 2 - o /\ (o = 2 => p = <<>>)
    BY <1>1, <1>2, <1>3, <1>9, <1>10, <1>12, SeqParts
  <2>2. \A i \in 1..q : p[i] = open[i] /\ i \in 1..l
    BY <1>1, <1>9, <1>10
  <2>3. \A i \in 1..q : open[i].x = 0
    BY <1>1, <1>3, <1>8, <1>9 DEF Opened
  <2>4. \A i \in 1..q : i <= 2 - o
    BY <1>1, <1>2, <1>3, <1>9, <1>12
  <2> QED
    BY <1>10, <1>14, <2>1, <2>2, <2>3, <2>4 DEF Opened
<1>16. \A x : ~HalfOn(open, x)
  BY <1>6, OpenParts
<1>17. \A x : ~HalfOn(p, x)
  <2>1. q \in 1..q => p[q].tag # "string"
    BY <1>1, <1>9, <1>10, <1>14
  <2>2. q > 0 => q \in 1..q
    BY <1>9
  <2> QED
    BY <1>10, <2>1, <2>2 DEF HalfOn, Half
<1>18. Known(W, old, h, d, objects, p)
  BY <1>16, SameKnown DEF ReadSoFar
<1>19. ReadSoFar(W, old, h, d, in, objects, s, p)
  BY <1>10, <1>13, <1>15, <1>17, <1>18 DEF ReadSoFar
<1> QED
  BY <1>2, <1>4, <1>7, <1>11, <1>12, <1>13, <1>19

LEMMA FrameChanged ==
    ASSUME NEW f, f = [tag |-> f.tag, x |-> f.x, left |-> f.left, got |-> f.got], NEW a, NEW b
    PROVE  [f EXCEPT !.left = a, !.got = b] = [tag |-> f.tag, x |-> f.x, left |-> a, got |-> b]
<1>1. PICK g : g = [f EXCEPT !.left = a, !.got = b]
  OBVIOUS
<1>2. g.left = a /\ g.got = b /\ g.tag = f.tag /\ g.x = f.x
  BY <1>1
<1>3. g = [tag |-> g.tag, x |-> g.x, left |-> g.left, got |-> g.got]
  BY <1>1
<1> QED
  BY <1>1, <1>2, <1>3

\* A whole token for the innermost frame.
LEMMA GiveReads ==
    ASSUME NEW W, NEW old, NEW h, NEW d, NEW in, NEW objects, NEW stacks, NEW open,
           ReadSoFar(W, old, h, d, in, objects, stacks, open), open # <<>>, in # <<>>,
           Last(open).tag # "string", NEW t \in Fits(h, d)
    PROVE  ReadSoFar(W, old, h, d, Tail(in), objects, stacks, Give(open, t))
<1>1. PICK l \in Nat : l = Len(open) /\ l >= 1
  BY OpenParts
<1>2. PICK f : f = Last(open)
  OBVIOUS
<1>3. f \in Frames(old, h, d) /\ f.tag # "string"
  BY <1>2, OpenParts
<1>4. f.got \in Seq(Fits(h, d)) /\ f.left \in Int
      /\ f = [tag |-> f.tag, x |-> f.x, left |-> f.left, got |-> f.got]
  BY <1>3 DEF Frames
<1>5. PICK got : got = Append(f.got, t)
  OBVIOUS
<1>6. got \in Seq(Fits(h, d))
  BY <1>4, <1>5, SeqAppend
<1>7. PICK left \in Int : left = f.left - 1
  BY <1>4
<1>8. PICK g : g = [tag |-> f.tag, x |-> f.x, left |-> left, got |-> got]
  OBVIOUS
<1>9. [Last(open) EXCEPT !.got = Append(@, t), !.left = @ - 1] = g
  <2>1. PICK o : o = [f EXCEPT !.got = Append(f.got, t), !.left = f.left - 1]
    OBVIOUS
  <2>2. o.left = left /\ o.got = got /\ o.tag = f.tag /\ o.x = f.x
    BY <1>4, <1>5, <1>7, <2>1
  <2>3. o = [tag |-> o.tag, x |-> o.x, left |-> o.left, got |-> o.got]
    BY <1>4, <2>1
  <2>4. o = g
    BY <1>8, <2>2, <2>3
  <2> QED
    BY <1>2, <2>1, <2>4
<1>10. got \in Seq(Values \cup Characters)
  <2>1. Fits(h, d) \subseteq Values \cup Characters
    BY DEF Fits
  <2> QED
    BY <1>6, <2>1, SeqMono
<1>11. g \in Frames(old, h, d) /\ g.x = f.x /\ g.tag = f.tag
  BY <1>3, <1>6, <1>7, <1>8, <1>10 DEF Frames, Half
<1>12. open \in Seq(Frames(old, h, d)) /\ Opened(open, Len(stacks))
  BY DEF ReadSoFar
<1>13. PICK p : p = Append(Front(open), g)
  OBVIOUS
<1>14. p \in Seq(Frames(old, h, d)) /\ Opened(p, Len(stacks)) /\ Len(p) = l /\ p[l] = g
  <2>1. PICK S : S = Frames(old, h, d)
    OBVIOUS
  <2>2. Len(open) >= 1
    BY <1>1
  <2> QED
    BY <1>1, <1>2, <1>11, <1>12, <1>13, <2>1, <2>2, OpenWithTop
<1>15. Give(open, t) = p
  BY <1>9, <1>13 DEF Give
<1>16. \A x : ~HalfOn(open, x) /\ ~HalfOn(p, x)
  <2>1. \A x : ~HalfOn(open, x)
    BY <1>2, <1>3, OpenParts
  <2>2. \A x : ~HalfOn(p, x)
    BY <1>3, <1>11, <1>14 DEF HalfOn, Half
  <2> QED
    BY <2>1, <2>2
<1>17. Known(W, old, h, d, objects, p)
  BY <1>16, SameKnown DEF ReadSoFar
<1>18. Tail(in) \in Seq(W)
  BY SeqTail DEF ReadSoFar
<1>19. ReadSoFar(W, old, h, d, Tail(in), objects, stacks, p)
  BY <1>14, <1>16, <1>17, <1>18 DEF ReadSoFar
<1> QED
  BY <1>15, <1>19

\* The length of a stack or an array.
LEMMA CountReads ==
    ASSUME NEW W, NEW old, NEW h, NEW d, NEW in, NEW objects, NEW stacks, NEW open,
           ReadSoFar(W, old, h, d, in, objects, stacks, open), open # <<>>, in # <<>>,
           Last(open).tag # "string", NEW n \in Int
    PROVE  ReadSoFar(W, old, h, d, Tail(in), objects, stacks,
                     Append(Front(open), [Last(open) EXCEPT !.left = n]))
<1>1. PICK l \in Nat : l = Len(open) /\ l >= 1
  BY OpenParts
<1>2. PICK f : f = Last(open)
  OBVIOUS
<1>3. f \in Frames(old, h, d) /\ f.tag # "string"
  BY <1>2, OpenParts
<1>4. f = [tag |-> f.tag, x |-> f.x, left |-> f.left, got |-> f.got]
  BY <1>3 DEF Frames
<1>8. PICK g : g = [tag |-> f.tag, x |-> f.x, left |-> n, got |-> f.got]
  OBVIOUS
<1>9. [Last(open) EXCEPT !.left = n] = g
  BY <1>2, <1>4, <1>8
<1>11. g \in Frames(old, h, d) /\ g.x = f.x /\ g.tag = f.tag
  BY <1>3, <1>8 DEF Frames, Half
<1>12. open \in Seq(Frames(old, h, d)) /\ Opened(open, Len(stacks))
  BY DEF ReadSoFar
<1>13. PICK p : p = Append(Front(open), g)
  OBVIOUS
<1>14. p \in Seq(Frames(old, h, d)) /\ Opened(p, Len(stacks)) /\ Len(p) = l /\ p[l] = g
  <2>1. PICK S : S = Frames(old, h, d)
    OBVIOUS
  <2>2. Len(open) >= 1
    BY <1>1
  <2> QED
    BY <1>1, <1>2, <1>11, <1>12, <1>13, <2>1, <2>2, OpenWithTop
<1>16. \A x : ~HalfOn(open, x) /\ ~HalfOn(p, x)
  <2>1. \A x : ~HalfOn(open, x)
    BY <1>2, <1>3, OpenParts
  <2>2. \A x : ~HalfOn(p, x)
    BY <1>3, <1>11, <1>14 DEF HalfOn, Half
  <2> QED
    BY <2>1, <2>2
<1>17. Known(W, old, h, d, objects, p)
  BY <1>16, SameKnown DEF ReadSoFar
<1>18. Tail(in) \in Seq(W)
  BY SeqTail DEF ReadSoFar
<1>19. ReadSoFar(W, old, h, d, Tail(in), objects, stacks, p)
  BY <1>14, <1>16, <1>17, <1>18 DEF ReadSoFar
<1> QED
  BY <1>9, <1>13, <1>19

LEMMA AddedGrows ==
    ASSUME NEW old, NEW h, NEW d, NEW e, Added(old, h, d), d \subseteq e, e \subseteq Ids,
           \A x \in e : old[x].kind = "free" /\ h[x].kind # "free"
    PROVE  Added(old, h, e)
<1>1. \A x \in Ids : NewPayload(h, d, h[x]) => NewPayload(h, e, h[x])
  BY NewPayloadsGrow
<1> QED
  BY <1>1 DEF Added

LEMMA KnownGrows ==
    ASSUME NEW W, NEW old, NEW h, NEW g, NEW d, NEW e, NEW objects, NEW open, NEW p,
           Known(W, old, h, d, objects, open), d \subseteq e,
           \A x \in Ids : HalfOn(open, x) => x \in e,
           \A x \in Ids : h[x].kind # "free" => g[x].kind = h[x].kind
    PROVE  Known(W, old, g, e, objects, p)
BY DEF Known

\* The characters of a string.
LEMMA CharsReads ==
    ASSUME NEW W, NEW old, NEW h, NEW d, NEW in, NEW objects, NEW stacks, NEW open,
           ReadSoFar(W, old, h, d, in, objects, stacks, open), open # <<>>, in # <<>>,
           Last(open).tag = "string", NEW chars \in Seq(Characters)
    PROVE  ReadSoFar(W, old, h, d \cup {Last(open).x}, Tail(in), objects, stacks,
                     Append(Front(open), [Last(open) EXCEPT !.left = 0, !.got = chars]))
<1>1. PICK l \in Nat : l = Len(open) /\ l >= 1
  BY OpenParts
<1>2. PICK f : f = Last(open)
  OBVIOUS
<1>3. f \in Frames(old, h, d) /\ f.tag = "string" /\ f = open[l]
  BY <1>1, <1>2, OpenParts
<1>4. f = [tag |-> f.tag, x |-> f.x, left |-> f.left, got |-> f.got]
  BY <1>3 DEF Frames
<1>5. f.x # 0 /\ f.x \in Ids /\ old[f.x].kind = "free" /\ h[f.x].kind = Kind("string")
  BY <1>3 DEF Frames
<1>6. PICK e : e = d \cup {f.x}
  OBVIOUS
<1>7. Added(old, h, e)
  <2>1. Added(old, h, d)
    BY DEF ReadSoFar
  <2>2. e \subseteq Ids /\ \A x \in e : old[x].kind = "free" /\ h[x].kind # "free"
    BY <1>5, <1>6, <2>1, KindOf DEF Added
  <2> QED
    BY <1>6, <2>1, <2>2, AddedGrows
<1>8. PICK g : g = [tag |-> f.tag, x |-> f.x, left |-> 0, got |-> chars]
  OBVIOUS
<1>9. [Last(open) EXCEPT !.left = 0, !.got = chars] = g
  <2>1. [f EXCEPT !.left = 0, !.got = chars] = g
    BY <1>4, <1>8, FrameChanged, Zenon
  <2> QED
    BY <1>2, <2>1
<1>10. chars \in Seq(Values \cup Characters)
  <2>1. Characters \subseteq Values \cup Characters
    OBVIOUS
  <2> QED
    BY <2>1, SeqMono
<1>11. g \in Frames(old, h, e) /\ g.x = f.x /\ g.tag = f.tag
  BY <1>3, <1>5, <1>6, <1>8, <1>10 DEF Frames, Half, PayloadTags
<1>12. open \in Seq(Frames(old, h, d)) /\ Opened(open, Len(stacks)) /\ Known(W, old, h, d, objects, open)
       /\ stacks \in Seq(Seq(Fits(h, d)))
  BY DEF ReadSoFar
<1>13. open \in Seq(Frames(old, h, e))
  <2>1. Frames(old, h, d) \subseteq Frames(old, h, e)
    BY <1>6, FramesGrow
  <2> QED
    BY <1>12, <2>1, SeqMono
<1>14. PICK p : p = Append(Front(open), g)
  OBVIOUS
<1>15. p \in Seq(Frames(old, h, e)) /\ Opened(p, Len(stacks)) /\ Len(p) = l /\ p[l] = g
  <2>1. PICK S : S = Frames(old, h, e)
    OBVIOUS
  <2>2. Len(open) >= 1
    BY <1>1
  <2> QED
    BY <1>1, <1>2, <1>11, <1>12, <1>13, <1>14, <2>1, <2>2, OpenWithTop
<1>16. \A x : ~HalfOn(p, x)
  <2>1. ~Half(g)
    BY <1>8 DEF Half, Unread
  <2> QED
    BY <1>15, <2>1 DEF HalfOn
<1>17. \A x \in Ids : HalfOn(open, x) => x \in e
  BY <1>1, <1>3, <1>6 DEF HalfOn
<1>18. Known(W, old, h, e, objects, p)
  BY <1>6, <1>12, <1>17, KnownGrows
<1>19. Tail(in) \in Seq(W)
  BY SeqTail DEF ReadSoFar
<1>20. stacks \in Seq(Seq(Fits(h, e)))
  <2>1. Fits(h, d) \subseteq Fits(h, e)
    BY <1>6, FitsGrow
  <2> QED
    BY <1>12, <2>1, StacksGrow
<1>21. ReadSoFar(W, old, h, e, Tail(in), objects, stacks, p)
  BY <1>7, <1>15, <1>16, <1>18, <1>19, <1>20 DEF ReadSoFar
<1> QED
  BY <1>2, <1>6, <1>9, <1>14, <1>21

\* A payload that has no number yet: its token is given when it is whole.
LEMMA OpenReads ==
    ASSUME NEW W, Numbered(W), NEW old, NEW h, NEW d, NEW in, NEW objects, NEW stacks, NEW open,
           ReadSoFar(W, old, h, d, in, objects, stacks, open), open # <<>>, in # <<>>,
           Last(open).tag # "string",
           NEW x \in Ids, h[x].kind = "free", NEW w \in W, Tag(w) \in PayloadTags,
           NEW g, DOMAIN g = Ids, g[x] = Fresh(Tag(w), <<>>), \A y \in Ids : y # x => g[y] = h[y]
    PROVE  \E e : ReadSoFar(W, old, g, e, Tail(in), WithKey(objects, Data(w), x), stacks,
                            Append(open, Frame(Tag(w), x)))
<1>1. PICK tag \in PayloadTags : tag = Tag(w)
  OBVIOUS
<1>2. PICK l \in Nat : l = Len(open) /\ l >= 1
  BY OpenParts
<1>3. PICK n \in 0..1 : n = Len(stacks) /\ l >= 2 - n
  BY <1>2, OpenParts
<1>4. /\ Added(old, h, d) /\ in \in Seq(W) /\ stacks \in Seq(Seq(Fits(h, d)))
      /\ open \in Seq(Frames(old, h, d)) /\ Opened(open, n)
      /\ Known(W, old, h, d, objects, open)
  BY <1>3 DEF ReadSoFar
<1>5. PICK e : e = IF tag = "string" THEN d ELSE d \cup {x}
  OBVIOUS
<1>6. tag \in CompositeTags /\ Kind(tag) # "free" /\ (tag = "string" \/ tag \in ArrayTags)
      /\ (tag = "string" => Kind(tag) = "string") /\ (tag # "string" => Kind(tag) = "array")
  BY KindOf DEF PayloadTags, CompositeTags
<1>7. PICK o : o = Fresh(tag, <<>>)
  OBVIOUS
<1>8. g[x] = o /\ o.kind = Kind(tag) /\ NewPayload(g, e, o)
  <2>1. /\ o = [kind |-> o.kind, acc |-> o.acc, body |-> o.body, lost |-> o.lost]
        /\ o.kind = Kind(tag) /\ o.acc = 0 /\ o.body = <<>> /\ o.lost = 0
    BY <1>7 DEF Fresh, Unlimited
  <2>2. o.body \in Seq(Fits(g, e)) /\ o.body \in Seq(Characters)
    BY <2>1, SeqUnits
  <2> QED
    BY <1>1, <1>6, <1>7, <2>1, <2>2 DEF NewPayload, Unlimited, NoAccess
<1>9. old[x].kind = "free"
  BY <1>4 DEF Added
<1>10. \A y \in Ids : h[y].kind # "free" => g[y].kind = h[y].kind
  OBVIOUS
<1>11. d \subseteq e /\ e \subseteq Ids /\ \A y \in d : g[y].kind = h[y].kind
  BY <1>4, <1>5, <1>10 DEF Added
<1>12. Added(old, g, e)
  <2>1. \A y \in e : old[y].kind = "free" /\ g[y].kind # "free"
    BY <1>4, <1>5, <1>6, <1>8, <1>9, <1>11 DEF Added
  <2>2. \A y \in Ids : NewPayload(h, d, h[y]) => NewPayload(g, e, h[y])
    BY <1>11, NewPayloadsGrow
  <2> QED
    BY <1>4, <1>8, <1>9, <1>11, <2>1, <2>2 DEF Added
<1>13. Frames(old, h, d) \subseteq Frames(old, g, e)
  BY <1>10, <1>11, FramesGrow
<1>14. PICK f : f = Frame(tag, x)
  OBVIOUS
<1>15. f = [tag |-> tag, x |-> x, left |-> Unread, got |-> <<>>]
  BY <1>14 DEF Frame
<1>16. x # 0
  BY DEF Ids
<1>17. f \in Frames(old, g, e)
  <2>1. <<>> \in Seq(Fits(g, e)) /\ <<>> \in Seq(Characters) /\ <<>> \in Seq(Values \cup Characters)
    BY SeqUnits
  <2>2. Half(f) \/ x \in e
    BY <1>5, <1>15 DEF Half
  <2>3. Unread \in Int
    BY DEF Unread
  <2> QED
    BY <1>8, <1>9, <1>15, <1>16, <2>1, <2>2, <2>3 DEF Frames
<1>18. PICK p : p = Append(open, f)
  OBVIOUS
<1>19. PICK q \in Nat : q = l + 1
  BY <1>2
<1>20. /\ p \in Seq(Frames(old, g, e)) /\ Len(p) = q /\ p[q] = f
       /\ \A i \in 1..l : p[i] = open[i]
  <2>1. PICK S : S = Frames(old, g, e)
    OBVIOUS
  <2>2. open \in Seq(S)
    BY <1>4, <1>13, <2>1, SeqMono
  <2> QED
    BY <1>2, <1>17, <1>18, <1>19, <2>1, <2>2, SeqAppend
<1>21. Opened(p, n)
  <2>1. \A i \in 1..l : (open[i].x = 0 <=> i <= 2 - n) /\ open[i].tag # "string"
    <3>1. open[l].tag # "string"
      BY <1>2, OpenParts
    <3> QED
      BY <1>2, <1>4, <3>1 DEF Opened
  <2>2. n \in 0..2 /\ q >= 2 - n /\ n # 2 /\ q > 2 - n
    BY <1>2, <1>3, <1>19
  <2>3. \A i \in 1..q : (p[i].x = 0 <=> i <= 2 - n) /\ (p[i].tag = "string" => i = q)
    <3> SUFFICES ASSUME NEW i \in 1..q PROVE (p[i].x = 0 <=> i <= 2 - n) /\ (p[i].tag = "string" => i = q)
      OBVIOUS
    <3>1. CASE i = q
      BY <1>3, <1>15, <1>16, <1>20, <2>2, <3>1
    <3>2. CASE i # q
      <4>1. i \in 1..l
        BY <1>19, <3>2
      <4> QED
        BY <1>20, <2>1, <4>1
    <3> QED
      BY <3>1, <3>2
  <2> QED
    BY <1>20, <2>2, <2>3 DEF Opened
<1>22. \A y \in e : ~HalfOn(p, y)
  <2>1. x \notin d
    BY <1>4 DEF Added
  <2>2. \A y : HalfOn(p, y) => y = x /\ tag = "string"
    BY <1>15, <1>20 DEF HalfOn, Half
  <2> QED
    BY <1>5, <2>1, <2>2
<1>23. PICK numbers : numbers = WithKey(objects, Data(w), x)
  OBVIOUS
<1>24. Known(W, old, g, e, numbers, p)
  <2>1. DOMAIN numbers = DOMAIN objects \cup {Data(w)} /\ numbers[Data(w)] = x
        /\ \A i \in DOMAIN objects : i # Data(w) => numbers[i] = objects[i]
    BY <1>23 DEF WithKey
  <2>2. \A y : ~HalfOn(open, y)
    BY OpenParts
  <2>3. ASSUME NEW i \in DOMAIN numbers, i # Data(w)
        PROVE  /\ numbers[i] \in Ids /\ old[numbers[i]].kind = "free" /\ g[numbers[i]].kind # "free"
               /\ \A v \in W : Tag(v) \in PayloadTags /\ Data(v) = i => g[numbers[i]].kind = Kind(Tag(v))
               /\ numbers[i] \in e
    BY <1>4, <1>10, <1>11, <2>1, <2>2, <2>3 DEF Known
  <2>4. \A v \in W : Tag(v) \in PayloadTags /\ Data(v) = Data(w) => g[x].kind = Kind(Tag(v))
    BY <1>1, <1>8 DEF Numbered
  <2>5. x \in e \/ HalfOn(p, x)
    <3>1. tag = "string" => Half(f) /\ f.x = x
      BY <1>15 DEF Half
    <3>2. Len(p) > 0 /\ p[Len(p)] = f
      BY <1>19, <1>20
    <3> QED
      BY <1>5, <3>1, <3>2 DEF HalfOn
  <2> QED
    BY <1>6, <1>8, <1>9, <2>1, <2>3, <2>4, <2>5 DEF Known
<1>25. Tail(in) \in Seq(W)
  BY <1>4, SeqTail
<1>26. stacks \in Seq(Seq(Fits(g, e)))
  <2>1. Fits(h, d) \subseteq Fits(g, e)
    BY <1>11, FitsGrow
  <2> QED
    BY <1>4, <2>1, StacksGrow
<1>27. ReadSoFar(W, old, g, e, Tail(in), numbers, stacks, p)
  BY <1>3, <1>12, <1>20, <1>21, <1>22, <1>24, <1>25, <1>26 DEF ReadSoFar
<1> QED
  BY <1>1, <1>14, <1>18, <1>23, <1>27

LEMMA ZeroOrOne ==
    ASSUME NEW n \in 0..1
    PROVE  n \in 0..2 /\ n # 2
OBVIOUS

\* A payload is complete: its token goes to the frame below.
LEMMA CompleteReads ==
    ASSUME NEW W, NEW old, NEW h, NEW d, NEW in, NEW objects, NEW stacks, NEW open,
           ReadSoFar(W, old, h, d, in, objects, stacks, open), open # <<>>, in # <<>>,
           NEW f, f = Last(open), f.left = 0, f.x # 0, NEW acc, acc \in Unlimited..NoAccess,
           NEW g, DOMAIN g = Ids, \A y \in Ids : y # f.x => g[y] = h[y],
           g[f.x] = [kind |-> h[f.x].kind, acc |-> acc, body |-> f.got, lost |-> h[f.x].lost]
    PROVE  ReadSoFar(W, old, g, d, Tail(in), objects, stacks, Give(Front(open), <<f.tag, f.x>>))
<1>1. PICK l \in Nat : l = Len(open) /\ l >= 1
  BY OpenParts
<1>2. PICK n \in 0..1 : n = Len(stacks) /\ l > 2 - n
  BY <1>1, OpenParts
<1>3. /\ Added(old, h, d) /\ in \in Seq(W) /\ stacks \in Seq(Seq(Fits(h, d)))
      /\ open \in Seq(Frames(old, h, d)) /\ Opened(open, n)
      /\ Known(W, old, h, d, objects, open)
  BY <1>2 DEF ReadSoFar
<1>4. f \in Frames(old, h, d) /\ f = open[l]
  BY <1>1, OpenParts
<1>5. /\ f.x \in Ids /\ f.x \in d /\ old[f.x].kind = "free" /\ h[f.x].kind = Kind(f.tag)
      /\ f.tag \in PayloadTags
      /\ f.tag = "string" => f.got \in Seq(Characters)
      /\ f.tag # "string" => f.got \in Seq(Fits(h, d))
  BY <1>4 DEF Frames, Half, Unread
<1>6. f.tag \in CompositeTags /\ Kind(f.tag) # "free" /\ (f.tag = "string" \/ f.tag \in ArrayTags)
      /\ (f.tag = "string" => Kind(f.tag) = "string") /\ (f.tag # "string" => Kind(f.tag) = "array")
  BY <1>5, KindOf DEF PayloadTags, CompositeTags
<1>7. \A y \in Ids : g[y].kind = h[y].kind
  BY <1>5
<1>8. d \subseteq Ids /\ \A y \in d : g[y].kind = h[y].kind
  BY <1>3, <1>7 DEF Added
<1>9. Fits(h, d) \subseteq Fits(g, d) /\ Frames(old, h, d) \subseteq Frames(old, g, d)
  BY <1>7, <1>8, FitsGrow, FramesGrow
<1>10. PICK o : o = g[f.x]
  OBVIOUS
<1>11. NewPayload(g, d, o)
  <2>1. NewPayload(h, d, h[f.x])
    BY <1>3, <1>5, <1>6 DEF Added, Free
  <2>2. h[f.x].lost \in Nat
    BY <2>1 DEF NewPayload
  <2>3. o.kind = Kind(f.tag) /\ o.acc = acc /\ o.body = f.got /\ o.lost = h[f.x].lost
        /\ o = [kind |-> o.kind, acc |-> o.acc, body |-> o.body, lost |-> o.lost]
    BY <1>5, <1>10
  <2>4. f.tag # "string" => o.body \in Seq(Fits(g, d))
    BY <1>5, <1>9, <2>3, SeqMono
  <2> QED
    BY <1>5, <1>6, <2>2, <2>3, <2>4 DEF NewPayload
<1>12. Added(old, g, d)
  <2>1. \A y \in Ids : NewPayload(h, d, h[y]) => NewPayload(g, d, h[y])
    BY <1>8, NewPayloadsGrow
  <2> QED
    BY <1>3, <1>5, <1>7, <1>8, <1>10, <1>11, <2>1 DEF Added
<1>13. PICK p : p = Front(open)
  OBVIOUS
<1>14. PICK q \in Nat : q = l - 1 /\ q >= 2 - n /\ q >= 1
  BY <1>1, <1>2
<1>15. p \in Seq(Frames(old, g, d)) /\ Len(p) = q /\ (\A i \in 1..q : p[i] = open[i])
  <2>1. PICK S : S = Frames(old, h, d)
    OBVIOUS
  <2>2. open \in Seq(S) /\ f \in S /\ Len(open) >= 1
    BY <1>1, <1>3, <1>4, <2>1
  <2>3. p \in Seq(S) /\ Len(p) = q /\ (\A i \in 1..l : i # l => p[i] = open[i])
    BY <1>1, <1>13, <1>14, <2>2, NewTop
  <2>4. \A i \in 1..q : i \in 1..l /\ i # l
    BY <1>1, <1>14
  <2> QED
    BY <1>9, <2>1, <2>3, <2>4, SeqMono
<1>16. \A i \in 1..q : (p[i].x = 0 <=> i <= 2 - n) /\ p[i].tag # "string"
  <2>1. \A i \in 1..q : i \in 1..l /\ i # l
    BY <1>1, <1>14
  <2> QED
    BY <1>1, <1>3, <1>15, <2>1 DEF Opened
<1>17. Opened(p, n)
  <2>1. n \in 0..2 /\ n # 2 /\ Len(p) >= 2 - n
    <3>1. Len(p) = q
      BY <1>15
    <3>2. q >= 2 - n
      BY <1>14
    <3>3. n \in 0..2 /\ n # 2
      BY <1>2, ZeroOrOne, Zenon
    <3> QED
      BY <3>1, <3>2, <3>3
  <2>2. \A i \in 1..Len(p) : (p[i].x = 0 <=> i <= 2 - n) /\ (p[i].tag = "string" => i = Len(p))
    BY <1>15, <1>16
  <2> QED
    BY <2>1, <2>2 DEF Opened
<1>18. \A y : ~HalfOn(open, y) /\ ~HalfOn(p, y)
  <2>1. ~Half(f)
    BY DEF Half, Unread
  <2>2. ~Half(p[q])
    BY <1>14, <1>16 DEF Half
  <2> QED
    BY <1>1, <1>4, <1>15, <2>1, <2>2 DEF HalfOn
<1>19. Known(W, old, g, d, objects, p)
  BY <1>3, <1>7, <1>18, KnownGrows
<1>20. stacks \in Seq(Seq(Fits(g, d)))
  BY <1>3, <1>9, StacksGrow
<1>21. ReadSoFar(W, old, g, d, in, objects, stacks, p)
  BY <1>2, <1>3, <1>12, <1>15, <1>17, <1>18, <1>19, <1>20 DEF ReadSoFar
<1>22. PICK t : t = <<f.tag, f.x>>
  OBVIOUS
<1>23. t \in Fits(g, d)
  <2>1. t \in Values
    BY <1>5, <1>6, <1>22 DEF Values
  <2> QED
    BY <1>5, <1>8, <1>22, <2>1, TagParts DEF Fits
<1>24. p # <<>> /\ Last(p).tag # "string"
  <2>1. p # <<>>
    BY <1>14, <1>15, SeqParts
  <2> QED
    BY <1>14, <1>15, <1>16, <1>21, <2>1, OpenParts
<1>25. ReadSoFar(W, old, g, d, Tail(in), objects, stacks, Give(p, t))
  BY <1>21, <1>23, <1>24, GiveReads
<1> QED
  BY <1>13, <1>22, <1>25

LEMMA WordParts ==
    ASSUME NEW w \in Words
    PROVE  /\ Tag(w) = "count" => Data(w) \in Nat
           /\ Tag(w) = "chars" => Data(w) \in Seq(Characters)
           /\ Tag(w) = "access" => Data(w) \in Unlimited..NoAccess
           /\ Tag(w) \notin {"count", "chars", "access", "dictionary"} \cup PayloadTags =>
                  w \in Values /\ Tag(w) \notin CompositeTags
<1>1. CASE w \in Scalars
  BY <1>1 DEF Scalars, Values, Tag, Data, MarkTok, Garbage, CompositeTags, ArrayTags
<1>2. CASE w \in PayloadTags \X Nat
  BY <1>2 DEF Tag, Data, PayloadTags, ArrayTags
<1>3. CASE w = <<"dictionary", 0>>
  BY <1>3 DEF Tag, Data
<1>4. CASE w \in {"count"} \X Nat
  BY <1>4 DEF Tag, Data
<1>5. CASE w \in {"chars"} \X Seq(Characters)
  <2>1. PICK S : S = Seq(Characters)
    OBVIOUS
  <2> QED
    BY <1>5, <2>1 DEF Tag, Data
<1>6. CASE w \in {"access"} \X (Unlimited..NoAccess)
  <2>1. PICK S : S = Unlimited..NoAccess
    OBVIOUS
  <2> QED
    BY <1>6, <2>1 DEF Tag, Data
<1> QED
  BY <1>1, <1>2, <1>3, <1>4, <1>5, <1>6 DEF Words

Restoring(W, k, r) ==
    /\ r = [in |-> r.in, m |-> r.m, err |-> r.err, objects |-> r.objects, stacks |-> r.stacks,
            open |-> r.open]
    /\ r.err \in BOOLEAN
    /\ r.m = [st |-> k.st, es |-> k.es, heap |-> r.m.heap, room |-> TRUE]
    /\ \E d : ReadSoFar(W, k.heap, r.m.heap, d, r.in, r.objects, r.stacks, r.open)

Ended(r) == r.err \/ r.open = <<>>
\* What a round has to do: it goes on from r to q.
NextRound(W, k, r, q) ==
    /\ Restoring(W, k, q) \/ (q.open = <<>> /\ q.m.room = FALSE)
    /\ Ended(q) \/ Len(q.in) - Len(q.stacks) = Len(r.in) - Len(r.stacks) - 1

LEMMA AstrayRound ==
    ASSUME NEW W, NEW k, NEW r, Restoring(W, k, r)
    PROVE  NextRound(W, k, r, [r EXCEPT !.err = TRUE])
<1>1. PICK q : q = [r EXCEPT !.err = TRUE]
  OBVIOUS
<1>2. /\ q.in = r.in /\ q.m = r.m /\ q.err = TRUE /\ q.objects = r.objects /\ q.stacks = r.stacks
      /\ q.open = r.open
      /\ q = [in |-> q.in, m |-> q.m, err |-> q.err, objects |-> q.objects, stacks |-> q.stacks,
              open |-> q.open]
  BY <1>1 DEF Restoring
<1>3. Restoring(W, k, q)
  BY <1>2 DEF Restoring
<1> QED
  BY <1>1, <1>2, <1>3 DEF NextRound, Ended

\* A round that takes a word and only changes what is open.
LEMMA WordRound ==
    ASSUME NEW W, NEW k, NEW r, Restoring(W, k, r), r.in # <<>>, NEW p, NEW d,
           ReadSoFar(W, k.heap, r.m.heap, d, Tail(r.in), r.objects, r.stacks, p)
    PROVE  NextRound(W, k, r, [r EXCEPT !.in = Tail(r.in), !.open = p])
<1>1. PICK in : in = Tail(r.in)
  OBVIOUS
<1>2. PICK q : q = [r EXCEPT !.in = in, !.open = p]
  OBVIOUS
<1>3. /\ q.in = in /\ q.m = r.m /\ q.err = r.err /\ q.objects = r.objects /\ q.stacks = r.stacks
      /\ q.open = p
      /\ q = [in |-> q.in, m |-> q.m, err |-> q.err, objects |-> q.objects, stacks |-> q.stacks,
              open |-> q.open]
  BY <1>2 DEF Restoring
<1>4. Restoring(W, k, q)
  BY <1>1, <1>3 DEF Restoring
<1>5. r.in \in Seq(W) /\ r.stacks \in Seq(Seq(Fits(r.m.heap, d)))
  BY DEF Restoring, ReadSoFar
<1>6. Len(in) = Len(r.in) - 1 /\ Len(r.in) \in Nat
  BY <1>1, <1>5, SeqTail, SeqParts
<1>7. Len(r.stacks) \in Nat
  BY <1>5, SeqParts
<1>8. Len(q.in) - Len(q.stacks) = Len(r.in) - Len(r.stacks) - 1
  BY <1>3, <1>6, <1>7
<1> QED
  BY <1>1, <1>2, <1>4, <1>8 DEF NextRound

LEMMA EitherOrder ==
    ASSUME NEW W, NEW k, NEW r, Restoring(W, k, r), NEW in, NEW p
    PROVE  [r EXCEPT !.open = p, !.in = in] = [r EXCEPT !.in = in, !.open = p]
<1>1. PICK a : a = [r EXCEPT !.open = p, !.in = in]
  OBVIOUS
<1>2. PICK b : b = [r EXCEPT !.in = in, !.open = p]
  OBVIOUS
<1>3. /\ a.in = in /\ a.m = r.m /\ a.err = r.err /\ a.objects = r.objects /\ a.stacks = r.stacks
      /\ a.open = p
      /\ a = [in |-> a.in, m |-> a.m, err |-> a.err, objects |-> a.objects, stacks |-> a.stacks,
              open |-> a.open]
  BY <1>1 DEF Restoring
<1>4. /\ b.in = in /\ b.m = r.m /\ b.err = r.err /\ b.objects = r.objects /\ b.stacks = r.stacks
      /\ b.open = p
      /\ b = [in |-> b.in, m |-> b.m, err |-> b.err, objects |-> b.objects, stacks |-> b.stacks,
              open |-> b.open]
  BY <1>2 DEF Restoring
<1> QED
  BY <1>1, <1>2, <1>3, <1>4

LEMMA CloseStackRound ==
    ASSUME NEW W, NEW k, NEW r, Restoring(W, k, r), r.open # <<>>, TopFrame(r).x = 0
    PROVE  NextRound(W, k, r, CloseStack(r))
<1>1. PICK d : ReadSoFar(W, k.heap, r.m.heap, d, r.in, r.objects, r.stacks, r.open)
  BY DEF Restoring
<1>2. PICK p : p = Front(r.open)
  OBVIOUS
<1>3. PICK s : s = Append(r.stacks, Last(r.open).got)
  OBVIOUS
<1>4. ReadSoFar(W, k.heap, r.m.heap, d, r.in, r.objects, s, p) /\ Len(s) = Len(r.stacks) + 1
  BY <1>1, <1>2, <1>3, CloseStackReads DEF TopFrame
<1>5. PICK q : q = [r EXCEPT !.open = p, !.stacks = s]
  OBVIOUS
<1>6. CloseStack(r) = q
  BY <1>2, <1>3, <1>5 DEF CloseStack, TopFrame
<1>7. /\ q.in = r.in /\ q.m = r.m /\ q.err = r.err /\ q.objects = r.objects /\ q.stacks = s
      /\ q.open = p
      /\ q = [in |-> q.in, m |-> q.m, err |-> q.err, objects |-> q.objects, stacks |-> q.stacks,
              open |-> q.open]
  BY <1>5 DEF Restoring
<1>8. Restoring(W, k, q)
  BY <1>4, <1>7 DEF Restoring
<1>9. Len(r.stacks) \in Nat /\ Len(r.in) \in Nat
  BY <1>1, SeqParts DEF ReadSoFar
<1>10. Len(q.in) - Len(q.stacks) = Len(r.in) - Len(r.stacks) - 1
  <2>1. PICK a \in Nat, b \in Nat : a = Len(r.in) /\ b = Len(r.stacks)
    BY <1>9
  <2>2. Len(q.in) = a /\ Len(q.stacks) = b + 1
    BY <1>4, <1>7, <2>1
  <2>3. a - (b + 1) = a - b - 1
    BY <2>1
  <2> QED
    BY <2>1, <2>2, <2>3
<1> QED
  BY <1>6, <1>8, <1>10 DEF NextRound

LEMMA ReadLengthRound ==
    ASSUME NEW W, Numbered(W), NEW k, NEW r, Restoring(W, k, r), r.open # <<>>, r.in # <<>>
    PROVE  NextRound(W, k, r, ReadLength(r))
<1>1. PICK d : ReadSoFar(W, k.heap, r.m.heap, d, r.in, r.objects, r.stacks, r.open)
  BY DEF Restoring
<1>2. PICK w : w = Head(r.in)
  OBVIOUS
<1>3. w \in Words
  BY <1>1, <1>2, SeqTail DEF ReadSoFar, Numbered
<1>4. PICK f : f = Last(r.open)
  OBVIOUS
<1>5. CASE Tag(w) # (IF f.tag = "string" THEN "chars" ELSE "count")
  <2>1. ReadLength(r) = [r EXCEPT !.err = TRUE]
    BY <1>2, <1>4, <1>5 DEF ReadLength, TopFrame, Astray
  <2> QED
    BY <2>1, AstrayRound
<1>6. CASE f.tag = "string" /\ Tag(w) = "chars"
  <2>1. PICK g : g = [f EXCEPT !.left = 0, !.got = Data(w)]
    OBVIOUS
  <2>2. PICK p : p = Append(Front(r.open), g)
    OBVIOUS
  <2>3. ReadLength(r) = [r EXCEPT !.open = p, !.in = Tail(r.in)]
    BY <1>2, <1>4, <1>6, <2>1, <2>2 DEF ReadLength, TopFrame, SetTop
  <2>4. \E e : ReadSoFar(W, k.heap, r.m.heap, e, Tail(r.in), r.objects, r.stacks, p)
    BY <1>1, <1>3, <1>4, <1>6, <2>1, <2>2, CharsReads, WordParts
  <2> QED
    <3>1. NextRound(W, k, r, [r EXCEPT !.in = Tail(r.in), !.open = p])
      BY <2>4, WordRound
    <3>2. [r EXCEPT !.open = p, !.in = Tail(r.in)] = [r EXCEPT !.in = Tail(r.in), !.open = p]
      BY EitherOrder, Zenon
    <3> QED
      BY <2>3, <3>1, <3>2, Zenon
<1>7. CASE f.tag # "string" /\ Tag(w) = "count"
  <2>1. PICK n \in Int : n = Data(w)
    BY <1>3, <1>7, WordParts
  <2>2. PICK g : g = [f EXCEPT !.left = n]
    OBVIOUS
  <2>3. PICK p : p = Append(Front(r.open), g)
    OBVIOUS
  <2>4. ReadLength(r) = [r EXCEPT !.open = p, !.in = Tail(r.in)]
    BY <1>2, <1>4, <1>7, <2>1, <2>2, <2>3 DEF ReadLength, TopFrame, SetTop
  <2>6. ReadSoFar(W, k.heap, r.m.heap, d, Tail(r.in), r.objects, r.stacks, p)
    BY <1>1, <1>4, <1>7, <2>1, <2>2, <2>3, CountReads
  <2> QED
    <3>1. NextRound(W, k, r, [r EXCEPT !.in = Tail(r.in), !.open = p])
      BY <2>6, WordRound
    <3>2. [r EXCEPT !.open = p, !.in = Tail(r.in)] = [r EXCEPT !.in = Tail(r.in), !.open = p]
      BY EitherOrder, Zenon
    <3> QED
      BY <2>4, <3>1, <3>2, Zenon
<1> QED
  BY <1>5, <1>6, <1>7

\* A round that takes a word and changes the payloads.
Takes(r, q, in, g, objects, p) ==
    /\ q.in = in /\ q.err = r.err /\ q.objects = objects /\ q.stacks = r.stacks /\ q.open = p
    /\ q = [in |-> q.in, m |-> q.m, err |-> q.err, objects |-> q.objects, stacks |-> q.stacks,
            open |-> q.open]
    /\ q.m.st = r.m.st /\ q.m.es = r.m.es /\ q.m.heap = g /\ q.m.room = r.m.room
    /\ q.m = [st |-> q.m.st, es |-> q.m.es, heap |-> q.m.heap, room |-> q.m.room]

LEMMA PayloadRound ==
    ASSUME NEW W, NEW k, NEW r, Restoring(W, k, r), r.in # <<>>,
           NEW objects, NEW p, NEW q, NEW d, NEW g, NEW in, in = Tail(r.in),
           Takes(r, q, in, g, objects, p),
           ReadSoFar(W, k.heap, g, d, in, objects, r.stacks, p)
    PROVE  NextRound(W, k, r, q)
<1>1. /\ q.in = in /\ q.err = r.err /\ q.objects = objects /\ q.stacks = r.stacks /\ q.open = p
      /\ q = [in |-> q.in, m |-> q.m, err |-> q.err, objects |-> q.objects, stacks |-> q.stacks,
              open |-> q.open]
      /\ q.m.heap = g
  BY DEF Takes
<1>2. Restoring(W, k, q)
  <2>1. r.m.st = k.st /\ r.m.es = k.es /\ r.m.room = TRUE /\ r.err \in BOOLEAN
    BY DEF Restoring
  <2>2. q.m = [st |-> k.st, es |-> k.es, heap |-> q.m.heap, room |-> TRUE]
    <3>1. PICK l : l = q.m
      OBVIOUS
    <3>2. l = [st |-> l.st, es |-> l.es, heap |-> l.heap, room |-> l.room] /\ l.st = k.st /\ l.es = k.es
          /\ l.room = TRUE
      BY <2>1, <3>1 DEF Takes
    <3> QED
      BY <3>1, <3>2
  <2> QED
    BY <1>1, <2>1, <2>2 DEF Restoring
<1>3. r.in \in Seq(W) /\ r.stacks \in Seq(Seq(Fits(g, d)))
  BY DEF Restoring, ReadSoFar
<1>4. PICK a \in Nat, b \in Nat : a = Len(r.in) /\ b = Len(r.stacks)
  BY <1>3, SeqParts
<1>5. Len(in) = a - 1
  BY <1>3, <1>4, SeqTail
<1>6. Len(q.in) - Len(q.stacks) = Len(r.in) - Len(r.stacks) - 1
  BY <1>1, <1>4, <1>5
<1> QED
  BY <1>2, <1>6 DEF NextRound

LEMMA ReadAccessRound ==
    ASSUME NEW W, Numbered(W), NEW k, NEW r, Restoring(W, k, r), r.open # <<>>, r.in # <<>>,
           TopFrame(r).left = 0, TopFrame(r).x # 0
    PROVE  NextRound(W, k, r, ReadAccess(r))
<1>1. PICK d : ReadSoFar(W, k.heap, r.m.heap, d, r.in, r.objects, r.stacks, r.open)
  BY DEF Restoring
<1>2. PICK w : w = Head(r.in)
  OBVIOUS
<1>3. w \in Words
  BY <1>1, <1>2, SeqTail DEF ReadSoFar, Numbered
<1>4. PICK f : f = Last(r.open)
  OBVIOUS
<1>5. CASE Tag(w) # "access"
  <2>1. ReadAccess(r) = [r EXCEPT !.err = TRUE]
    BY <1>2, <1>5 DEF ReadAccess, Astray
  <2> QED
    BY <2>1, AstrayRound
<1>6. CASE Tag(w) = "access"
  <2>1. f \in Frames(k.heap, r.m.heap, d) /\ f.x # 0 /\ f.left = 0
    BY <1>1, <1>4, OpenParts DEF TopFrame
  <2>2. f.x \in Ids /\ k.heap[f.x].kind = "free" /\ r.m.heap[f.x].kind = Kind(f.tag) /\ f.tag \in PayloadTags
    BY <2>1 DEF Frames
  <2>3. PICK x \in Ids : x = f.x
    BY <2>2
  <2>4. PICK acc : acc = Data(w) /\ acc \in Unlimited..NoAccess
    BY <1>3, <1>6, WordParts
  <2>5. PICK h : h = r.m.heap
    OBVIOUS
  <2>6. Added(k.heap, h, d)
    BY <1>1, <2>5 DEF ReadSoFar
  <2>7. h[x] = [kind |-> h[x].kind, acc |-> h[x].acc, body |-> h[x].body, lost |-> h[x].lost]
    <3>1. h[x].kind # "free"
      BY <2>2, <2>3, <2>5, KindOf DEF PayloadTags, CompositeTags
    <3>2. NewPayload(h, d, h[x])
      BY <2>2, <2>3, <2>6, <3>1 DEF Added, Free
    <3> QED
      BY <3>2 DEF NewPayload
  <2>8. PICK u : u = h[x]
    OBVIOUS
  <2>9. PICK o : o = [u EXCEPT !.acc = acc, !.body = f.got]
    OBVIOUS
  <2>10. o = [kind |-> u.kind, acc |-> acc, body |-> f.got, lost |-> u.lost]
    <3>1. o.kind = u.kind /\ o.acc = acc /\ o.body = f.got /\ o.lost = u.lost
      BY <2>7, <2>8, <2>9
    <3>2. o = [kind |-> o.kind, acc |-> o.acc, body |-> o.body, lost |-> o.lost]
      BY <2>7, <2>8, <2>9
    <3> QED
      BY <3>1, <3>2
  <2>11. PICK g : g = [h EXCEPT ![x] = o]
    OBVIOUS
  <2>12. DOMAIN g = Ids /\ g[x] = o /\ \A y \in Ids : y # x => g[y] = h[y]
    BY <2>6, <2>11 DEF Added
  <2>13. PICK p : p = Give(Front(r.open), <<f.tag, f.x>>)
    OBVIOUS
  <2>14. ReadSoFar(W, k.heap, g, d, Tail(r.in), r.objects, r.stacks, p)
    BY <1>1, <1>4, <2>1, <2>3, <2>4, <2>5, <2>8, <2>10, <2>12, <2>13, CompleteReads
  <2>15. PICK in : in = Tail(r.in)
    OBVIOUS
  <2>16. PICK q : q = ReadAccess(r)
    OBVIOUS
  <2>17. q = [r EXCEPT !.in = in, !.open = p, !.m.heap[x] = o]
    BY <1>2, <1>4, <1>6, <2>3, <2>4, <2>5, <2>8, <2>9, <2>13, <2>15, <2>16 DEF ReadAccess, TopFrame
  <2>18. Takes(r, q, in, g, r.objects, p)
    <3>1. PICK l : l = [r.m EXCEPT !.heap = g]
      OBVIOUS
    <3>2. l.st = r.m.st /\ l.es = r.m.es /\ l.heap = g /\ l.room = r.m.room
          /\ l = [st |-> l.st, es |-> l.es, heap |-> l.heap, room |-> l.room]
      BY <3>1 DEF Restoring
    <3>3. /\ q.in = in /\ q.m = l /\ q.err = r.err /\ q.objects = r.objects /\ q.stacks = r.stacks
          /\ q.open = p
          /\ q = [in |-> q.in, m |-> q.m, err |-> q.err, objects |-> q.objects, stacks |-> q.stacks,
                  open |-> q.open]
      BY <2>5, <2>11, <2>17, <3>1 DEF Restoring
    <3> QED
      BY <3>2, <3>3 DEF Takes
  <2>19. NextRound(W, k, r, q)
    BY <2>14, <2>15, <2>18, PayloadRound
  <2> QED
    BY <2>16, <2>19
<1> QED
  BY <1>5, <1>6

LEMMA ReadTokenRound ==
    ASSUME NEW W, Numbered(W), NEW k, NEW r, Restoring(W, k, r), r.open # <<>>, r.in # <<>>,
           TopFrame(r).left # 0, TopFrame(r).left # Unread
    PROVE  NextRound(W, k, r, ReadToken(r))
<1>1. PICK d : ReadSoFar(W, k.heap, r.m.heap, d, r.in, r.objects, r.stacks, r.open)
  BY DEF Restoring
<1>2. PICK w \in W : w = Head(r.in)
  BY <1>1, SeqTail DEF ReadSoFar
<1>3. w \in Words
  BY DEF Numbered
<1>4. Last(r.open).tag # "string"
  <2>1. Last(r.open) \in Frames(k.heap, r.m.heap, d)
    BY <1>1, OpenParts
  <2> QED
    BY <2>1 DEF Frames, TopFrame
<1>5. PICK x : x = LeastFree(r.m)
  OBVIOUS
<1>6. PICK q : q = ReadToken(r)
  OBVIOUS
<1>7. PICK in : in = Tail(r.in)
  OBVIOUS
<1>8. CASE Tag(w) \in {"count", "chars", "access"}
  <2>1. q = [r EXCEPT !.err = TRUE]
    BY <1>2, <1>6, <1>8 DEF ReadToken, Astray
  <2> QED
    BY <1>6, <2>1, AstrayRound
<1>9. ASSUME NEW t \in Fits(r.m.heap, d), q = [r EXCEPT !.in = Tail(r.in), !.open = Give(r.open, t)]
      PROVE  NextRound(W, k, r, q)
  <2>1. PICK p : p = Give(r.open, t)
    OBVIOUS
  <2>2. ReadSoFar(W, k.heap, r.m.heap, d, Tail(r.in), r.objects, r.stacks, p)
    BY <1>1, <1>4, <2>1, GiveReads
  <2>3. NextRound(W, k, r, [r EXCEPT !.in = Tail(r.in), !.open = p])
    BY <2>2, WordRound
  <2> QED
    BY <1>9, <2>1, <2>3, Zenon
<1>10. CASE Tag(w) = "dictionary"
  <2>1. Garbage \in Fits(r.m.heap, d)
    BY DEF Fits, Garbage, Values, Scalars, CompositeTags, ArrayTags, Tag
  <2>2. q = [r EXCEPT !.in = Tail(r.in), !.open = Give(r.open, Garbage)]
    BY <1>2, <1>6, <1>10 DEF ReadToken
  <2> QED
    BY <1>6, <1>9, <2>1, <2>2
<1>11. CASE Tag(w) \notin {"count", "chars", "access", "dictionary"} \cup PayloadTags
  <2>1. w \in Fits(r.m.heap, d)
    BY <1>3, <1>11, WordParts DEF Fits
  <2>2. q = [r EXCEPT !.in = Tail(r.in), !.open = Give(r.open, w)]
    BY <1>2, <1>6, <1>11 DEF ReadToken
  <2> QED
    BY <1>6, <1>9, <2>1, <2>2
<1>12. ASSUME Tag(w) \in PayloadTags
       PROVE  NextRound(W, k, r, q)
  <2>1. Tag(w) \notin {"count", "chars", "access", "dictionary"}
    BY <1>12 DEF PayloadTags, ArrayTags
  <2>2. CASE Data(w) \in DOMAIN r.objects
    <3>1. PICK y : y = r.objects[Data(w)]
      OBVIOUS
    <3>2. y \in d /\ r.m.heap[y].kind = Kind(Tag(w))
      BY <1>1, <1>4, <1>12, <2>2, <3>1, KnownWhole
    <3>3. PICK t : t = <<Tag(w), y>>
      OBVIOUS
    <3>4. t \in Fits(r.m.heap, d)
      <4>1. y \in Ids
        BY <1>1, <3>2 DEF ReadSoFar, Added
      <4>2. t \in Values
        BY <1>12, <3>3, <4>1 DEF Values, PayloadTags, CompositeTags
      <4> QED
        BY <3>2, <3>3, <4>2, TagParts DEF Fits
    <3>5. q = [r EXCEPT !.in = Tail(r.in), !.open = Give(r.open, t)]
      BY <1>2, <1>6, <1>12, <2>1, <2>2, <3>1, <3>3 DEF ReadToken
    <3> QED
      BY <1>9, <3>4, <3>5
  <2>3. CASE Data(w) \notin DOMAIN r.objects /\ FreeIds(r.m) = {}
    <3>1. q = [r EXCEPT !.m.room = FALSE, !.open = <<>>]
      BY <1>2, <1>6, <1>12, <2>1, <2>3 DEF ReadToken
    <3>2. PICK mm : mm = [r.m EXCEPT !.room = FALSE]
      OBVIOUS
    <3>3. mm.room = FALSE
      BY <3>2 DEF Restoring
    <3>4. q.open = <<>> /\ q.m = mm
      BY <3>1, <3>2 DEF Restoring
    <3> QED
      BY <3>3, <3>4 DEF NextRound, Ended
  <2>4. CASE Data(w) \notin DOMAIN r.objects /\ FreeIds(r.m) # {}
    <3>1. PICK h : h = r.m.heap
      OBVIOUS
    <3>2. x \in Ids /\ h[x].kind = "free"
      BY <1>5, <2>4, <3>1, LeastFreeIsFree
    <3>3. PICK o : o = Fresh(Tag(w), <<>>)
      OBVIOUS
    <3>4. PICK g : g = [h EXCEPT ![x] = o]
      OBVIOUS
    <3>5. DOMAIN g = Ids /\ g[x] = o /\ \A y \in Ids : y # x => g[y] = h[y]
      <4>1. DOMAIN h = Ids
        BY <1>1, <3>1 DEF ReadSoFar, Added
      <4> QED
        BY <3>2, <3>4, <4>1
    <3>6. PICK objects : objects = WithKey(r.objects, Data(w), x)
      OBVIOUS
    <3>7. PICK p : p = Append(r.open, Frame(Tag(w), x))
      OBVIOUS
    <3>8. PICK e : ReadSoFar(W, k.heap, g, e, in, objects, r.stacks, p)
      <4>1. ReadSoFar(W, k.heap, h, d, r.in, r.objects, r.stacks, r.open)
        BY <1>1, <3>1
      <4> QED
        BY <1>4, <1>7, <1>12, <3>2, <3>3, <3>5, <3>6, <3>7, <4>1, OpenReads
    <3>9. q = [r EXCEPT !.in = in, !.m.heap[x] = o, !.objects = objects, !.open = p]
      BY <1>2, <1>5, <1>6, <1>7, <1>12, <2>1, <2>4, <3>3, <3>6, <3>7 DEF ReadToken
    <3>10. Takes(r, q, in, g, objects, p)
      <4>1. PICK l : l = [r.m EXCEPT !.heap = g]
        OBVIOUS
      <4>2. l.st = r.m.st /\ l.es = r.m.es /\ l.heap = g /\ l.room = r.m.room
            /\ l = [st |-> l.st, es |-> l.es, heap |-> l.heap, room |-> l.room]
        BY <4>1 DEF Restoring
      <4>3. /\ q.in = in /\ q.m = l /\ q.err = r.err /\ q.objects = objects /\ q.stacks = r.stacks
            /\ q.open = p
            /\ q = [in |-> q.in, m |-> q.m, err |-> q.err, objects |-> q.objects, stacks |-> q.stacks,
                    open |-> q.open]
        BY <3>1, <3>4, <3>9, <4>1 DEF Restoring
      <4> QED
        BY <4>2, <4>3 DEF Takes
    <3> QED
      BY <1>7, <3>8, <3>10, PayloadRound
  <2> QED
    BY <2>2, <2>3, <2>4
<1> QED
  BY <1>6, <1>8, <1>10, <1>11, <1>12

LEMMA ReadingRound ==
    ASSUME NEW W, Numbered(W), NEW k, NEW r, Restoring(W, k, r)
    PROVE  NextRound(W, k, r, Reading(r))
<1>1. PICK f : f = TopFrame(r)
  OBVIOUS
<1>2. CASE r.err \/ r.open = <<>>
  <2>1. Reading(r) = r
    BY <1>2 DEF Reading
  <2> QED
    BY <1>2, <2>1 DEF NextRound, Ended
<1>3. CASE ~r.err /\ r.open # <<>> /\ f.left = 0 /\ f.x = 0
  <2>1. Reading(r) = CloseStack(r)
    BY <1>1, <1>3 DEF Reading
  <2> QED
    BY <1>1, <1>3, <2>1, CloseStackRound
<1>4. CASE ~r.err /\ r.open # <<>> /\ ~(f.left = 0 /\ f.x = 0) /\ r.in = <<>>
  <2>1. Reading(r) = [r EXCEPT !.err = TRUE]
    BY <1>1, <1>4 DEF Reading
  <2> QED
    BY <2>1, AstrayRound
<1>5. CASE ~r.err /\ r.open # <<>> /\ r.in # <<>> /\ f.left = Unread
  <2>1. f.left # 0
    BY <1>5 DEF Unread
  <2>2. Reading(r) = ReadLength(r)
    BY <1>1, <1>5, <2>1 DEF Reading
  <2> QED
    BY <1>5, <2>2, ReadLengthRound
<1>6. CASE ~r.err /\ r.open # <<>> /\ r.in # <<>> /\ f.left = 0 /\ f.x # 0
  <2>1. f.left # Unread
    BY <1>6 DEF Unread
  <2>2. Reading(r) = ReadAccess(r)
    BY <1>1, <1>6, <2>1 DEF Reading
  <2> QED
    BY <1>1, <1>6, <2>2, ReadAccessRound
<1>7. CASE ~r.err /\ r.open # <<>> /\ r.in # <<>> /\ f.left # Unread /\ f.left # 0
  <2>1. Reading(r) = ReadToken(r)
    BY <1>1, <1>7 DEF Reading
  <2> QED
    BY <1>1, <1>7, <2>1, ReadTokenRound
<1> QED
  BY <1>2, <1>3, <1>4, <1>5, <1>6, <1>7

ReadingRounds(n, a, f) == f = [i \in 0..n |-> IF i = 0 THEN a ELSE Reading(f[i - 1])]

LEMMA ReaderExists ==
    ASSUME NEW N \in Nat, NEW a
    PROVE  \E f : ReadingRounds(N, a, f)
<1>1. PICK P : P = {n \in Nat : \E f : ReadingRounds(n, a, f)}
  OBVIOUS
<1>2. 0 \in P
  <2>1. PICK f : f = [i \in 0..0 |-> a]
    OBVIOUS
  <2>2. f = [i \in 0..0 |-> IF i = 0 THEN a ELSE Reading(f[i - 1])]
    BY <2>1
  <2> QED
    BY <1>1, <2>2 DEF ReadingRounds
<1>3. ASSUME NEW n \in Nat, n \in P PROVE n + 1 \in P
  <2>1. PICK f : ReadingRounds(n, a, f)
    BY <1>1, <1>3
  <2>2. PICK l \in Nat : l = n + 1
    OBVIOUS
  <2>3. PICK b : b = Reading(f[n])
    OBVIOUS
  <2>4. PICK g : g = [i \in 0..l |-> IF i = l THEN b ELSE f[i]]
    OBVIOUS
  <2>5. PICK e : e = [i \in 0..l |-> IF i = 0 THEN a ELSE Reading(g[i - 1])]
    OBVIOUS
  <2>6. ASSUME NEW i \in 0..l PROVE g[i] = e[i]
    <3>1. CASE i = l
      <4>1. i # 0 /\ i - 1 = n /\ n \in 0..l /\ n # l
        BY <2>2, <3>1
      <4>2. g[n] = f[n]
        BY <2>4, <4>1
      <4>3. e[i] = Reading(g[n])
        BY <2>5, <4>1
      <4> QED
        BY <2>3, <2>4, <3>1, <4>2, <4>3
    <3>2. CASE i # l
      <4>1. i \in 0..n
        BY <2>2, <3>2
      <4>2. f[i] = IF i = 0 THEN a ELSE Reading(f[i - 1])
        BY <2>1, <4>1 DEF ReadingRounds
      <4>3. i # 0 => i - 1 \in 0..l /\ i - 1 # l
        BY <2>2, <4>1
      <4>4. i # 0 => g[i - 1] = f[i - 1]
        BY <2>4, <4>3
      <4> QED
        BY <2>4, <2>5, <3>2, <4>2, <4>4
    <3> QED
      BY <3>1, <3>2
  <2>7. g = e
    BY <2>4, <2>5, <2>6
  <2>8. g = [i \in 0..l |-> IF i = 0 THEN a ELSE Reading(g[i - 1])]
    BY <2>5, <2>7
  <2>9. l \in P
    BY <1>1, <2>8 DEF ReadingRounds
  <2> QED
    BY <2>2, <2>9
<1>4. \A n \in Nat : n \in P
  BY <1>2, <1>3, NaturalsByInduction
<1> QED
  BY <1>1, <1>4

LEMMA StartReads ==
    ASSUME NEW k, Sound(k), k.room = TRUE, NEW W, NEW f \in Seq(W)
    PROVE  Restoring(W, k, StartReading(k, f))
<1>1. PICK r : r = StartReading(k, f)
  OBVIOUS
<1>2. PICK a : a = Frame("estack", 0)
  OBVIOUS
<1>3. PICK b : b = Frame("ostack", 0)
  OBVIOUS
<1>4. PICK p : p = <<a, b>>
  OBVIOUS
<1>5. PICK e : e = <<>>
  OBVIOUS
<1>6. PICK d : d = {}
  OBVIOUS
<1>7. r = [in |-> f, m |-> k, err |-> FALSE, objects |-> e, stacks |-> e, open |-> p]
  BY <1>1, <1>2, <1>3, <1>4, <1>5 DEF StartReading
<1>8. PICK h : h = k.heap
  OBVIOUS
<1>9. Added(h, h, d)
  <2>1. WellFormed(h)
    BY <1>8 DEF Sound
  <2> QED
    BY <1>6, <2>1, PayloadParts DEF Added, WellFormed
<1>10. /\ a = [tag |-> "estack", x |-> 0, left |-> Unread, got |-> e]
       /\ b = [tag |-> "ostack", x |-> 0, left |-> Unread, got |-> e]
  BY <1>2, <1>3, <1>5 DEF Frame
<1>11. Unread \in Int
  BY DEF Unread
<1>12. e \in Seq(Fits(h, d)) /\ e \in Seq(Values \cup Characters) /\ e \in Seq(Seq(Fits(h, d)))
  BY <1>5, SeqUnits
<1>13. a \in Frames(h, h, d) /\ b \in Frames(h, h, d)
  BY <1>10, <1>11, <1>12 DEF Frames
<1>14. p \in Seq(Frames(h, h, d)) /\ Len(p) = 2 /\ p[1] = a /\ p[2] = b
  <2>1. PICK S : S = Frames(h, h, d)
    OBVIOUS
  <2>2. p \in Seq(S)
    BY <1>4, <1>13, <2>1, SeqUnits
  <2> QED
    BY <1>4, <2>1, <2>2
<1>15. Len(e) = 0 /\ DOMAIN e = {}
  BY <1>5
<1>16. Opened(p, 0)
  <2>1. a.x = 0 /\ b.x = 0 /\ a.tag # "string" /\ b.tag # "string"
    BY <1>10
  <2>2. \A i \in 1..2 : i = 1 \/ i = 2
    OBVIOUS
  <2>3. \A i \in 1..2 : p[i].x = 0 /\ p[i].tag # "string" /\ i <= 2 - 0
    BY <1>14, <2>1, <2>2
  <2> QED
    BY <1>14, <2>3 DEF Opened
<1>17. Known(W, h, h, d, e, p)
  BY <1>15 DEF Known
<1>18. ReadSoFar(W, h, h, d, f, e, e, p)
  BY <1>6, <1>9, <1>12, <1>14, <1>15, <1>16, <1>17 DEF ReadSoFar
<1>19. k = [st |-> k.st, es |-> k.es, heap |-> k.heap, room |-> TRUE]
  BY DEF Sound, Shape
<1>20. r.in = f /\ r.m = k /\ r.err = FALSE /\ r.objects = e /\ r.stacks = e /\ r.open = p
  BY <1>7
<1>21. Restoring(W, k, r)
  BY <1>7, <1>8, <1>18, <1>19, <1>20 DEF Restoring
<1> QED
  BY <1>1, <1>21

LEMMA NoMoreRounds ==
    ASSUME NEW l \in Nat, NEW n, n = l + 3, NEW i \in Nat, NEW j \in Nat, j <= 2
    PROVE  ~(n <= l - i + j)
OBVIOUS

\* Every round but the two that close a stack, and the last, takes a word.
LEMMA ReadStateEnds ==
    ASSUME NEW k, Sound(k), k.room = TRUE, NEW W, Numbered(W), NEW file1 \in Seq(W),
           NEW out, out = ReadState(k, file1)
    PROVE  \/ Restoring(W, k, out) /\ Ended(out)
           \/ out.m.room = FALSE
<1>1. PICK a : a = StartReading(k, file1)
  OBVIOUS
<1>2. PICK L \in Nat : L = Len(file1)
  BY SeqParts
<1>3. PICK N \in Nat : N = L + 3
  OBVIOUS
<1>4. PICK r : r = CHOOSE f : f = [i \in 0..N |-> IF i = 0 THEN a ELSE Reading(f[i - 1])]
  OBVIOUS
<1>5. r = [i \in 0..N |-> IF i = 0 THEN a ELSE Reading(r[i - 1])]
  <2>1. PICK f : ReadingRounds(N, a, f)
    BY ReaderExists
  <2>2. f = [i \in 0..N |-> IF i = 0 THEN a ELSE Reading(f[i - 1])]
    BY <2>1 DEF ReadingRounds
  <2> QED
    BY <1>4, <2>2, Zenon
<1>6. out = r[N]
  BY <1>1, <1>2, <1>3, <1>4 DEF ReadState
<1>7. r[0] = a
  BY <1>3, <1>5
<1>8. PICK P : P = {n \in 0..N :
           /\ Restoring(W, k, r[n]) \/ (r[n].open = <<>> /\ r[n].m.room = FALSE)
           /\ Ended(r[n]) \/ n <= L - Len(r[n].in) + Len(r[n].stacks)}
  OBVIOUS
<1>9. 0 \in P
  <2>1. Restoring(W, k, a)
    BY <1>1, StartReads
  <2>2. a.in = file1 /\ a.stacks = <<>>
    BY <1>1 DEF StartReading
  <2>3. 0 <= L - Len(a.in) + Len(a.stacks)
    <3>1. Len(a.in) = L /\ Len(a.stacks) = 0
      BY <1>2, <2>2
    <3> QED
      BY <3>1
  <2> QED
    BY <1>3, <1>7, <1>8, <2>1, <2>3
<1>10. ASSUME NEW n \in Nat, n < N, n \in P PROVE n + 1 \in P
  <2>1. PICK l \in Nat : l = n + 1 /\ l \in 0..N
    BY <1>3, <1>10
  <2>2. PICK p : p = r[n]
    OBVIOUS
  <2>3. PICK q : q = r[l]
    OBVIOUS
  <2>4. q = Reading(p)
    <3>1. l # 0 /\ l - 1 = n
      BY <2>1
    <3> QED
      BY <1>5, <2>1, <2>2, <2>3, <3>1
  <2>5. /\ Restoring(W, k, p) \/ (p.open = <<>> /\ p.m.room = FALSE)
        /\ Ended(p) \/ n <= L - Len(p.in) + Len(p.stacks)
    BY <1>8, <1>10, <2>2
  <2>6. CASE p.open = <<>> /\ p.m.room = FALSE
    <3>1. q = p
      BY <2>4, <2>6 DEF Reading
    <3>2. Ended(q)
      BY <2>6, <3>1 DEF Ended
    <3>3. l \in P
      BY <1>8, <2>1, <2>3, <2>6, <3>1, <3>2
    <3> QED
      BY <2>1, <3>3
  <2>7. CASE Restoring(W, k, p)
    <3>1. NextRound(W, k, p, q)
      BY <2>4, <2>7, ReadingRound
    <3>2. Ended(p) => Ended(q)
      <4>1. Ended(p) => Reading(p) = p
        BY DEF Ended, Reading
      <4> QED
        BY <2>4, <4>1
    <3>3. Ended(q) \/ l <= L - Len(q.in) + Len(q.stacks)
      <4>1. CASE Ended(q)
        BY <4>1
      <4>2. CASE ~Ended(q)
        <5>1. Restoring(W, k, q)
          BY <3>1, <4>2 DEF NextRound, Ended
        <5>2. PICK x1 \in Nat, y1 \in Nat : x1 = Len(p.in) /\ y1 = Len(p.stacks)
          BY <2>7, SeqParts DEF Restoring, ReadSoFar
        <5>3. PICK x2 \in Nat, y2 \in Nat : x2 = Len(q.in) /\ y2 = Len(q.stacks)
          BY <5>1, SeqParts DEF Restoring, ReadSoFar
        <5>4. x2 - y2 = x1 - y1 - 1
          BY <3>1, <4>2, <5>2, <5>3 DEF NextRound
        <5>5. n <= L - x1 + y1
          BY <2>5, <3>2, <4>2, <5>2
        <5>6. l <= L - x2 + y2
          BY <2>1, <5>4, <5>5
        <5> QED
          BY <5>3, <5>6
      <4> QED
        BY <4>1, <4>2
    <3>4. Restoring(W, k, q) \/ (q.open = <<>> /\ q.m.room = FALSE)
      BY <3>1 DEF NextRound
    <3>5. l \in P
      BY <1>8, <2>1, <2>3, <3>3, <3>4
    <3> QED
      BY <2>1, <3>5
  <2> QED
    BY <2>5, <2>6, <2>7
<1>11. N \in P
  <2>1. \A n \in 0..N : n \in P
    BY <1>9, <1>10, SegmentByInduction
  <2> QED
    BY <1>3, <2>1
<1>12. ASSUME Restoring(W, k, out) PROVE Ended(out)
  <2>1. PICK d : ReadSoFar(W, k.heap, out.m.heap, d, out.in, out.objects, out.stacks, out.open)
    BY <1>12 DEF Restoring
  <2>2. PICK x1 \in Nat, y1 \in Nat : x1 = Len(out.in) /\ y1 = Len(out.stacks)
    BY <2>1, SeqParts DEF ReadSoFar
  <2>3. y1 <= 2
    <3>1. y1 \in 0..2
      BY <2>1, <2>2 DEF ReadSoFar, Opened
    <3> QED
      BY <3>1
  <2>4. Ended(out) \/ N <= L - x1 + y1
    BY <1>6, <1>8, <1>11, <2>2
  <2>5. ~(N <= L - x1 + y1)
    BY <1>2, <1>3, <2>2, <2>3, NoMoreRounds, Zenon
  <2> QED
    BY <2>4, <2>5
<1> QED
  BY <1>6, <1>8, <1>11, <1>12

\* A heap with new payloads is in one piece, and the old ones are.
LEMMA AddedIsWhole ==
    ASSUME NEW old, WellFormed(old), NEW g, NEW d, Added(old, g, d)
    PROVE  WellFormed(g) /\ Kept(old, g) /\ Fits(g, d) \subseteq Toks(g) /\ Toks(old) \subseteq Toks(g)
<1>1. /\ DOMAIN g = Ids /\ d \subseteq Ids
      /\ \A x \in d : old[x].kind = "free" /\ g[x].kind # "free"
      /\ \A x \in Ids : old[x].kind # "free" => g[x] = old[x]
      /\ \A x \in Ids : old[x].kind = "free" => g[x] = Free \/ NewPayload(g, d, g[x])
  BY DEF Added
<1>2. Kept(old, g)
  <2>1. \A x \in Ids : old[x].kind # "free" => StaysNarrowed(old[x], g[x])
    BY <1>1, KeptSame DEF Kept
  <2>2. \A x \in Ids : old[x].kind = "free" => StaysNarrowed(old[x], g[x])
    BY DEF StaysNarrowed
  <2> QED
    BY <1>1, <2>1, <2>2 DEF Kept
<1>3. Toks(old) \subseteq Toks(g)
  BY <1>2, ToksKept
<1>4. Fits(g, d) \subseteq Toks(g)
  BY DEF Fits, Toks, IsToken
<1>5. ASSUME NEW x \in Ids PROVE IsPayload(g, g[x])
  <2>1. CASE old[x].kind # "free"
    <3>1. PICK o : o = old[x]
      OBVIOUS
    <3>2. g[x] = o
      BY <1>1, <2>1, <3>1
    <3>3. IsPayload(old, o)
      BY <3>1 DEF WellFormed
    <3>4. o.kind \in {"free", "array", "string", "dictionary"} /\ IsBody(old, o.kind, o.body)
      BY <3>1, PayloadParts
    <3>5. IsBody(g, o.kind, o.body)
      BY <1>2, <3>4, BodyKept
    <3> QED
      BY <3>2, <3>3, <3>5 DEF IsPayload
  <2>2. CASE g[x] = Free
    <3>1. IsPayload(g, Free)
      BY DEF IsPayload, Free, IsBody, Unlimited, NoAccess
    <3> QED
      BY <2>2, <3>1
  <2>3. CASE NewPayload(g, d, g[x])
    <3>1. PICK o : o = g[x]
      OBVIOUS
    <3>2. NewPayload(g, d, o)
      BY <2>3, <3>1
    <3>3. IsBody(g, o.kind, o.body)
      <4>1. CASE o.kind = "array"
        <5>1. o.body \in Seq(Fits(g, d))
          BY <3>2, <4>1 DEF NewPayload
        <5>2. o.body \in Seq(Toks(g))
          BY <1>4, <5>1, SeqMono
        <5> QED
          BY <4>1, <5>2, TokensAreToks DEF IsBody
      <4>2. CASE o.kind = "string"
        BY <3>2, <4>2 DEF NewPayload, IsBody
      <4> QED
        BY <3>2, <4>1, <4>2 DEF NewPayload
    <3>4. IsPayload(g, o)
      BY <3>2, <3>3 DEF NewPayload, IsPayload
    <3> QED
      BY <3>1, <3>4
  <2> QED
    BY <1>1, <2>1, <2>2, <2>3
<1>6. WellFormed(g)
  BY <1>1, <1>5 DEF WellFormed
<1> QED
  BY <1>2, <1>3, <1>4, <1>6

\* So are the payloads that the end of the file leaves behind.
LEMMA AbandonedIsAdded ==
    ASSUME NEW W, NEW k, NEW r, Restoring(W, k, r), NEW a, a = Abandoned(r)
    PROVE  /\ \E d : Added(k.heap, a.heap, d)
           /\ a = [st |-> k.st, es |-> k.es, heap |-> a.heap, room |-> TRUE]
<1>1. PICK h : h = r.m.heap
  OBVIOUS
<1>2. PICK d : ReadSoFar(W, k.heap, h, d, r.in, r.objects, r.stacks, r.open)
  BY <1>1 DEF Restoring
<1>3. PICK open : open = r.open
  OBVIOUS
<1>4. PICK old : old = k.heap
  OBVIOUS
<1>5. PICK l \in Nat : l = Len(open)
  BY <1>2, <1>3, SeqParts DEF ReadSoFar
<1>6. /\ Added(old, h, d) /\ open \in Seq(Frames(old, h, d)) /\ Opened(open, Len(r.stacks))
      /\ \A x \in d : ~HalfOn(open, x)
  BY <1>2, <1>3, <1>4 DEF ReadSoFar
<1>7. \A i \in 1..l : open[i] \in Frames(old, h, d) /\ (open[i].tag = "string" => i = l)
  BY <1>5, <1>6, SeqParts DEF Opened
<1>8. DOMAIN open = 1..l
  BY <1>5, <1>6, SeqParts
<1>9. PICK halves : halves = {i \in DOMAIN open : open[i].x # 0}
  OBVIOUS
<1>10. PICK g : g = [x \in Ids |->
           IF \E i \in halves : open[i].x = x
           THEN (IF open[CHOOSE i \in halves : open[i].x = x].tag = "string"
                    /\ open[CHOOSE i \in halves : open[i].x = x].left = Unread
                 THEN Free
                 ELSE [h[x] EXCEPT !.body = open[CHOOSE i \in halves : open[i].x = x].got, !.lost = 1])
           ELSE h[x]]
  OBVIOUS
<1>11. a = [r.m EXCEPT !.heap = g]
  <2>1. PICK u : u = r.m
    OBVIOUS
  <2>2. PICK b : b = [x \in Ids |->
           IF \E i \in {i \in DOMAIN r.open : r.open[i].x # 0} : r.open[i].x = x
           THEN (IF r.open[CHOOSE i \in {i \in DOMAIN r.open : r.open[i].x # 0} : r.open[i].x = x].tag = "string"
                    /\ r.open[CHOOSE i \in {i \in DOMAIN r.open : r.open[i].x # 0} : r.open[i].x = x].left = Unread
                 THEN Free
                 ELSE [r.m.heap[x] EXCEPT !.body = r.open[CHOOSE i \in {i \in DOMAIN r.open : r.open[i].x # 0} : r.open[i].x = x].got, !.lost = 1])
           ELSE r.m.heap[x]]
    OBVIOUS
  <2>3. a = [r.m EXCEPT !.heap = b]
    BY <2>2, Zenon DEF Abandoned
  <2>4. b = g
    BY <1>1, <1>3, <1>9, <1>10, <2>2, Zenon
  <2> QED
    BY <2>3, <2>4
<1>12. a = [st |-> k.st, es |-> k.es, heap |-> g, room |-> TRUE]
  <2>1. PICK u : u = r.m
    OBVIOUS
  <2>2. u = [st |-> k.st, es |-> k.es, heap |-> h, room |-> TRUE]
    BY <1>1, <2>1 DEF Restoring
  <2>3. PICK v : v = [u EXCEPT !.heap = g]
    OBVIOUS
  <2>4. v.st = k.st /\ v.es = k.es /\ v.heap = g /\ v.room = TRUE
        /\ v = [st |-> v.st, es |-> v.es, heap |-> v.heap, room |-> v.room]
    BY <2>2, <2>3
  <2> QED
    BY <1>11, <2>1, <2>3, <2>4
<1>13. DOMAIN g = Ids
  BY <1>10
<1>14. ASSUME NEW x \in Ids
       PROVE  \/ (\A i \in halves : open[i].x # x) /\ g[x] = h[x]
              \/ \E f \in Frames(old, h, d) :
                     /\ f.x = x /\ x # 0
                     /\ Half(f) => HalfOn(open, x) /\ g[x] = Free
                     /\ ~Half(f) => g[x] = [h[x] EXCEPT !.body = f.got, !.lost = 1]
  <2>1. CASE \A i \in halves : open[i].x # x
    BY <1>10, <2>1
  <2>2. CASE \E i \in halves : open[i].x = x
    <3>1. PICK j : j = CHOOSE i \in halves : open[i].x = x
      OBVIOUS
    <3>2. j \in halves /\ open[j].x = x
      BY <2>2, <3>1
    <3>3. PICK f : f = open[j]
      OBVIOUS
    <3>4. f \in Frames(old, h, d) /\ f.x = x /\ x # 0 /\ (f.tag = "string" => j = l)
      BY <1>7, <1>8, <1>9, <3>2, <3>3
    <3>5. g[x] = IF f.tag = "string" /\ f.left = Unread THEN Free
                 ELSE [h[x] EXCEPT !.body = f.got, !.lost = 1]
      BY <1>10, <2>2, <3>1, <3>3
    <3>6. Half(f) => HalfOn(open, x)
      <4>1. j \in 1..l
        BY <1>8, <1>9, <3>2
      <4> QED
        BY <1>5, <3>3, <3>4, <4>1 DEF Half, HalfOn
    <3> QED
      BY <3>4, <3>5, <3>6 DEF Half
  <2> QED
    BY <2>1, <2>2
<1>15. ASSUME NEW x \in Ids, NEW f \in Frames(old, h, d), f.x = x, x # 0, ~Half(f),
              g[x] = [h[x] EXCEPT !.body = f.got, !.lost = 1]
       PROVE  /\ old[x].kind = "free" /\ g[x].kind = h[x].kind /\ h[x].kind # "free"
              /\ NewPayload(h, d, g[x])
  <2>1. /\ old[x].kind = "free" /\ f.tag \in PayloadTags /\ h[x].kind = Kind(f.tag)
        /\ f.tag = "string" => f.got \in Seq(Characters)
        /\ f.tag # "string" => f.got \in Seq(Fits(h, d))
    BY <1>15 DEF Frames
  <2>2. Kind(f.tag) # "free" /\ (f.tag = "string" => Kind(f.tag) = "string")
        /\ (f.tag # "string" => Kind(f.tag) = "array")
    BY <2>1, KindOf DEF PayloadTags, CompositeTags
  <2>3. PICK o : o = h[x]
    OBVIOUS
  <2>4. NewPayload(h, d, o)
    BY <1>6, <2>1, <2>2, <2>3 DEF Added, Free
  <2>5. PICK u : u = [o EXCEPT !.body = f.got, !.lost = 1]
    OBVIOUS
  <2>6. u.kind = o.kind /\ u.acc = o.acc /\ u.body = f.got /\ u.lost = 1
        /\ u = [kind |-> u.kind, acc |-> u.acc, body |-> u.body, lost |-> u.lost]
    BY <2>4, <2>5 DEF NewPayload
  <2>7. NewPayload(h, d, u)
    BY <2>1, <2>2, <2>3, <2>4, <2>6 DEF NewPayload
  <2>8. g[x] = u
    BY <1>15, <2>3, <2>5
  <2> QED
    BY <2>1, <2>2, <2>3, <2>6, <2>7, <2>8
<1>16. \A x \in d : g[x].kind = h[x].kind
  <2> SUFFICES ASSUME NEW x \in d PROVE g[x].kind = h[x].kind
    OBVIOUS
  <2>1. x \in Ids /\ ~HalfOn(open, x)
    BY <1>6 DEF Added
  <2> QED
    BY <1>14, <1>15, <2>1
<1>17. Added(old, g, d)
  <2>1. \A x \in Ids : NewPayload(h, d, g[x]) => NewPayload(g, d, g[x])
    BY <1>16, NewPayloadsGrow
  <2>2. \A x \in d : old[x].kind = "free" /\ g[x].kind # "free"
    BY <1>6, <1>16 DEF Added
  <2>3. ASSUME NEW x \in Ids
        PROVE  IF old[x].kind = "free" THEN g[x] = Free \/ NewPayload(g, d, g[x]) ELSE g[x] = old[x]
    <3>1. CASE g[x] = h[x]
      BY <1>6, <2>1, <3>1 DEF Added
    <3>2. CASE g[x] # h[x]
      <4>1. PICK f \in Frames(old, h, d) :
                     /\ f.x = x /\ x # 0
                     /\ Half(f) => HalfOn(open, x) /\ g[x] = Free
                     /\ ~Half(f) => g[x] = [h[x] EXCEPT !.body = f.got, !.lost = 1]
        BY <1>14, <3>2
      <4>2. old[x].kind = "free"
        BY <4>1 DEF Frames
      <4> QED
        BY <1>15, <2>1, <4>1, <4>2
    <3> QED
      BY <3>1, <3>2
  <2> QED
    BY <1>6, <1>13, <2>2, <2>3 DEF Added
<1> QED
  BY <1>4, <1>12, <1>17

\* What is left when there is no whole file: the file's name is gone, and payloads
\* may have come that the stacks do not know.
BadEnd(k, g) ==
    /\ Load(k) >= 1 /\ TagAt(k, 0) = "string"
    /\ g.st = Popped(k, 1).st /\ g.es = k.es
    /\ \E d : Added(k.heap, g.heap, d)
Fair(k, out) ==
    /\ Ok(k, out.m) /\ out.err \in {"none"} \cup Errors
    /\ out.err \notin {"none", "BadIO"} => out.m = k
    /\ out.err = "BadIO" => BadEnd(k, out.m)

LEMMA GoodIsFair ==
    ASSUME NEW k, NEW out, Good(k, out)
    PROVE  Fair(k, out)
BY DEF Good, Fair

LEMMA NamedFile ==
    ASSUME NEW k, Sound(k), NEW out
    PROVE  \/ Good(k, Typed(k, <<"string">>, out))
           \/ Load(k) >= 1 /\ TagAt(k, 0) = "string" /\ Typed(k, <<"string">>, out) = out
<1>1. Good(k, Raise(k, "TypeMismatch")) /\ Good(k, Raise(k, "StackUnderflow"))
  BY GoodRaise, PlainErrors
<1>2. PICK sig : sig = <<"string">>
  OBVIOUS
<1>3. Len(sig) = 1 /\ sig[1] = "string"
  BY <1>2
<1>4. Load(k) \in Nat
  BY LoadIsNat
<1>5. CASE Load(k) < 1
  BY <1>1, <1>2, <1>3, <1>4, <1>5 DEF Typed, Needs
<1>6. CASE Load(k) >= 1 /\ TagAt(k, 0) # "string"
  <2>1. 1 \in 1..Len(sig) /\ sig[1] # "any" /\ TagAt(k, Len(sig) - 1) # sig[1]
    BY <1>3, <1>6
  <2>2. ~(Load(k) < Len(sig))
    BY <1>3, <1>4, <1>6
  <2>3. Typed(k, sig, out) = Raise(k, "TypeMismatch")
    BY <2>1, <2>2 DEF Typed, Needs
  <2> QED
    BY <1>1, <1>2, <2>3
<1>7. CASE Load(k) >= 1 /\ TagAt(k, 0) = "string"
  <2>1. \A i \in 1..Len(sig) : TagAt(k, Len(sig) - i) = sig[i]
    BY <1>3, <1>7
  <2>2. ~(Load(k) < Len(sig))
    BY <1>3, <1>4, <1>7
  <2>3. Typed(k, sig, out) = out
    BY <2>1, <2>2 DEF Typed, Needs
  <2> QED
    BY <1>2, <1>7, <2>3
<1> QED
  BY <1>4, <1>5, <1>6, <1>7

LEMMA NothingAdded ==
    ASSUME NEW old, WellFormed(old)
    PROVE  \E d : Added(old, old, d)
<1>1. PICK d : d = {}
  OBVIOUS
<1>2. Added(old, old, d)
  BY <1>1, PayloadParts DEF Added, WellFormed
<1> QED
  BY <1>2

LEMMA CannotOpenFair == ASSUME NEW k, Sound(k) PROVE Fair(k, CannotOpen(k))
<1>1. PICK g : g = Popped(k, 1)
  OBVIOUS
<1>2. PICK out : out = Raise(g, "BadIO")
  OBVIOUS
<1>3. CASE Good(k, Typed(k, <<"string">>, out))
  BY <1>1, <1>2, <1>3, GoodIsFair DEF CannotOpen
<1>4. CASE Load(k) >= 1 /\ TagAt(k, 0) = "string" /\ Typed(k, <<"string">>, out) = out
  <2>1. out.m = g /\ out.err = "BadIO" /\ "BadIO" \in Errors
    BY <1>2 DEF Raise, Errors
  <2>2. Ok(k, g) /\ g.heap = k.heap /\ g.es = k.es
    <3>1. 1 \in 0..Load(k)
      BY <1>4, LoadIsNat
    <3> QED
      BY <1>1, <3>1, OkPopped
  <2>3. \E d : Added(k.heap, g.heap, d)
    BY <2>2, NothingAdded DEF Sound
  <2>4. Fair(k, out)
    BY <1>1, <1>4, <2>1, <2>2, <2>3 DEF Fair, BadEnd
  <2> QED
    BY <1>1, <1>2, <1>4, <2>4 DEF CannotOpen
<1> QED
  BY <1>3, <1>4, NamedFile

LEMMA SaveStateGood == ASSUME NEW k, Sound(k) PROVE Good(k, SaveStateFunction(k))
<1>1. ASSUME Load(k) >= 1 /\ Matches(k, 0, "string") PROVE Good(k, Done(Popped(k, 1)))
  <2>1. 1 \in 0..Load(k)
    BY <1>1, LoadIsNat
  <2> QED
    BY <2>1, OkPopped, GoodDone
<1> QED
  BY <1>1, GoodTyped1 DEF SaveStateFunction

\* The machine with the stacks that have been read, or with what a broken file
\* leaves.
LEMMA RestoredIsOk ==
    ASSUME NEW k, Sound(k), NEW W, NEW r, Restoring(W, k, r), Ended(r)
    PROVE  /\ r.err => Ok(k, Abandoned(r)) /\ Abandoned(r).st = k.st /\ Abandoned(r).es = k.es
                       /\ \E d : Added(k.heap, Abandoned(r).heap, d)
           /\ ~r.err => Ok(k, [r.m EXCEPT !.st = r.stacks[1], !.es = r.stacks[2]])
<1>1. k.st \in Seq(Toks(k.heap)) /\ k.es \in Seq(Toks(k.heap)) /\ WellFormed(k.heap)
  BY DEF Sound
<1>2. ASSUME r.err
      PROVE  Ok(k, Abandoned(r)) /\ Abandoned(r).st = k.st /\ Abandoned(r).es = k.es
             /\ \E d : Added(k.heap, Abandoned(r).heap, d)
  <2>1. PICK a : a = Abandoned(r)
    OBVIOUS
  <2>2. PICK d : Added(k.heap, a.heap, d)
    BY <2>1, AbandonedIsAdded
  <2>3. a = [st |-> k.st, es |-> k.es, heap |-> a.heap, room |-> TRUE]
    BY <2>1, AbandonedIsAdded
  <2>4. a.st = k.st /\ a.es = k.es /\ Shape(a)
    <3>1. PICK g : g = a.heap
      OBVIOUS
    <3>2. a = [st |-> k.st, es |-> k.es, heap |-> g, room |-> TRUE]
      BY <2>3, <3>1
    <3> QED
      BY <3>2 DEF Shape
  <2>5. WellFormed(a.heap) /\ Kept(k.heap, a.heap) /\ Toks(k.heap) \subseteq Toks(a.heap)
    BY <1>1, <2>2, AddedIsWhole
  <2>6. k.st \in Seq(Toks(a.heap)) /\ k.es \in Seq(Toks(a.heap))
    BY <1>1, <2>5, SeqMono
  <2>7. Ok(k, a)
    BY <2>4, <2>5, <2>6 DEF Ok, Sound
  <2> QED
    BY <2>1, <2>2, <2>4, <2>7
<1>3. ASSUME ~r.err PROVE Ok(k, [r.m EXCEPT !.st = r.stacks[1], !.es = r.stacks[2]])
  <2>1. PICK h : h = r.m.heap
    OBVIOUS
  <2>2. PICK d : ReadSoFar(W, k.heap, h, d, r.in, r.objects, r.stacks, r.open)
    BY <2>1 DEF Restoring
  <2>3. r.open = <<>>
    BY <1>3 DEF Ended
  <2>4. PICK n : n = Len(r.stacks)
    OBVIOUS
  <2>5. n = 2
    <3>1. Len(r.open) = 0
      BY <2>3
    <3>2. n \in 0..2 /\ Len(r.open) >= 2 - n
      BY <2>2, <2>4 DEF ReadSoFar, Opened
    <3> QED
      BY <3>1, <3>2
  <2>6. PICK s : s = r.stacks[1]
    OBVIOUS
  <2>7. PICK t : t = r.stacks[2]
    OBVIOUS
  <2>8. s \in Seq(Fits(h, d)) /\ t \in Seq(Fits(h, d))
    <3>1. PICK S : S = Seq(Fits(h, d))
      OBVIOUS
    <3>2. r.stacks \in Seq(S)
      BY <2>2, <3>1 DEF ReadSoFar
    <3>3. \A i \in 1..2 : r.stacks[i] \in S
      BY <2>4, <2>5, <3>2, SeqParts
    <3> QED
      BY <2>6, <2>7, <3>1, <3>3
  <2>9. WellFormed(h) /\ Kept(k.heap, h) /\ Fits(h, d) \subseteq Toks(h)
    BY <1>1, <2>2, AddedIsWhole DEF ReadSoFar
  <2>10. s \in Seq(Toks(h)) /\ t \in Seq(Toks(h))
    BY <2>8, <2>9, SeqMono
  <2>11. PICK u : u = r.m
    OBVIOUS
  <2>12. u = [st |-> k.st, es |-> k.es, heap |-> h, room |-> TRUE]
    BY <2>1, <2>11 DEF Restoring
  <2>13. PICK g : g = [u EXCEPT !.st = s, !.es = t]
    OBVIOUS
  <2>14. g.st = s /\ g.es = t /\ g.heap = h /\ g.room = TRUE
         /\ g = [st |-> g.st, es |-> g.es, heap |-> g.heap, room |-> g.room]
    BY <2>12, <2>13
  <2>15. Ok(k, g)
    BY <2>9, <2>10, <2>14 DEF Ok, Sound, Shape
  <2> QED
    BY <2>6, <2>7, <2>11, <2>13, <2>15, Zenon
<1> QED
  BY <1>2, <1>3

\* The words of a file.
LEMMA FileWords ==
    ASSUME NEW f, IsFile(f), f # NoFile, NEW W, W = {f[i] : i \in DOMAIN f}
    PROVE  Numbered(W) /\ f \in Seq(W)
<1>1. f \in Seq(Words)
  BY DEF IsFile
<1>2. \A i \in DOMAIN f : f[i] \in Words
  BY <1>1, SeqParts
<1>3. W \subseteq Words
  BY <1>2
<1>4. Numbered(W)
  BY <1>3 DEF Numbered, IsFile
<1>5. f = [i \in 1..Len(f) |-> f[i]] /\ Len(f) \in Int /\ \A i \in 1..Len(f) : f[i] \in W
  BY <1>1, SeqParts
<1> QED
  BY <1>4, <1>5, SeqBuilt

LEMMA RestoreStateFair ==
    ASSUME NEW k, Sound(k), k.room = TRUE, NEW f, IsFile(f), f # NoFile,
           RestoreStateFunction(k, f).m.room
    PROVE  Fair(k, RestoreStateFunction(k, f))
<1>1. PICK g : g = Popped(k, 1)
  OBVIOUS
<1>2. PICK r : r = ReadState(g, f)
  OBVIOUS
<1>3. PICK out : out = IF ~r.m.room THEN Done(r.m)
                       ELSE IF r.err THEN Raise(Abandoned(r), "BadIO")
                       ELSE Done([r.m EXCEPT !.st = r.stacks[1], !.es = r.stacks[2]])
  OBVIOUS
<1>4. RestoreStateFunction(k, f) = Typed(k, <<"string">>, out)
  BY <1>1, <1>2, <1>3, Zenon DEF RestoreStateFunction
<1>5. CASE Good(k, Typed(k, <<"string">>, out))
  BY <1>4, <1>5, GoodIsFair
<1>6. CASE Load(k) >= 1 /\ TagAt(k, 0) = "string" /\ Typed(k, <<"string">>, out) = out
  <2>1. PICK W : W = {f[i] : i \in DOMAIN f}
    OBVIOUS
  <2>2. Ok(k, g) /\ g.heap = k.heap /\ g.es = k.es /\ g.room = TRUE
    <3>1. 1 \in 0..Load(k)
      BY <1>6, LoadIsNat
    <3> QED
      BY <1>1, <3>1, OkPopped
  <2>3. Sound(g)
    BY <2>2 DEF Ok
  <2>4. Numbered(W) /\ f \in Seq(W)
    BY <2>1, FileWords
  <2>5. (Restoring(W, g, r) /\ Ended(r)) \/ r.m.room = FALSE
    BY <1>2, <2>2, <2>3, <2>4, ReadStateEnds
  <2>6. out.m.room
    BY <1>4, <1>6
  <2>7. r.m.room # FALSE
    BY <1>3, <2>6 DEF Done
  <2>8. Restoring(W, g, r) /\ Ended(r) /\ r.m.room = TRUE
    <3>1. Restoring(W, g, r) /\ Ended(r)
      BY <2>5, <2>7
    <3>2. r.m.room = TRUE
      <4>1. PICK u : u = r.m
        OBVIOUS
      <4>2. u = [st |-> g.st, es |-> g.es, heap |-> u.heap, room |-> TRUE]
        BY <3>1, <4>1 DEF Restoring
      <4> QED
        BY <4>1, <4>2
    <3> QED
      BY <3>1, <3>2
  <2>9. CASE r.err
    <3>1. PICK a : a = Abandoned(r)
      OBVIOUS
    <3>2. out.m = a /\ out.err = "BadIO" /\ "BadIO" \in Errors
      BY <1>3, <2>8, <2>9, <3>1 DEF Raise, Errors
    <3>3. Ok(g, a) /\ a.st = g.st /\ a.es = g.es /\ \E d : Added(g.heap, a.heap, d)
      BY <2>3, <2>8, <2>9, <3>1, RestoredIsOk
    <3>4. Ok(k, a)
      BY <2>2, <3>3, OkTrans
    <3> QED
      BY <1>1, <1>4, <1>6, <2>2, <3>2, <3>3, <3>4 DEF Fair, BadEnd
  <2>10. CASE ~r.err
    <3>1. PICK a : a = [r.m EXCEPT !.st = r.stacks[1], !.es = r.stacks[2]]
      OBVIOUS
    <3>2. out.m = a /\ out.err = "none"
      BY <1>3, <2>8, <2>10, <3>1 DEF Done
    <3>3. Ok(g, a)
      BY <2>3, <2>8, <2>10, <3>1, RestoredIsOk
    <3>4. Ok(k, a)
      BY <2>2, <3>3, OkTrans
    <3> QED
      BY <1>4, <1>6, <3>2, <3>4 DEF Fair
  <2> QED
    BY <2>9, <2>10
<1> QED
  BY <1>4, <1>5, <1>6, NamedFile

(***************************************************************************)
(* savestate: what the writer has put out and what it has still to write   *)
(***************************************************************************)

Items(h) ==
    Toks(h) \cup ({"count"} \X Nat) \cup ({"chars"} \X Seq(Characters))
    \cup ({"access"} \X (Unlimited..NoAccess))

\* A number in the file stands for a payload that has been met.
Counted(h, seen, word) ==
    Tag(word) \in PayloadTags =>
        Data(word) \in 1..Len(seen) /\ h[seen[Data(word)]].kind = Kind(Tag(word))

Writing(k, w) ==
    /\ w = [out |-> w.out, seen |-> w.seen, todo |-> w.todo]
    /\ w.out \in Seq(Words) /\ w.seen \in Seq(Ids) /\ w.todo \in Seq(Items(k.heap))
    /\ \A i \in 1..Len(w.out) : Counted(k.heap, w.seen, w.out[i])

LEMMA ItemParts ==
    ASSUME NEW h, NEW t \in Items(h)
    PROVE  /\ Tag(t) \in PayloadTags =>
                  t \in Toks(h) /\ Data(t) \in Ids /\ h[Data(t)].kind = Kind(Tag(t))
                  /\ \A n \in Nat : <<Tag(t), n>> \in Words
           /\ Tag(t) = "dictionary" => <<Tag(t), 0>> \in Words
           /\ Tag(t) \notin PayloadTags /\ Tag(t) # "dictionary" => t \in Words
<1>1. CASE t \in Toks(h)
  <2>1. t \in Values /\ IsToken(h, t)
    BY <1>1 DEF Toks
  <2>2. CASE t \in Scalars
    <3>1. Tag(t) \notin PayloadTags /\ Tag(t) # "dictionary"
      BY <2>2 DEF Scalars, Tag, PayloadTags, ArrayTags, MarkTok, Garbage
    <3> QED
      BY <2>2, <3>1 DEF Words
  <2>3. CASE t \in CompositeTags \X Ids
    <3>1. Tag(t) \in CompositeTags /\ Data(t) \in Ids /\ h[Data(t)].kind = Kind(Tag(t))
      BY <2>1, <2>3 DEF Tag, Data, IsToken
    <3>2. Tag(t) \in PayloadTags \/ Tag(t) = "dictionary"
      BY <3>1 DEF CompositeTags, PayloadTags
    <3>3. "dictionary" \notin PayloadTags
      BY DEF PayloadTags, ArrayTags
    <3> QED
      BY <1>1, <3>1, <3>2, <3>3 DEF Words
  <2> QED
    BY <2>1, <2>2, <2>3 DEF Values
<1>2. CASE t \in {"count"} \X Nat
  BY <1>2 DEF Words, Tag, PayloadTags, ArrayTags
<1>3. CASE t \in {"chars"} \X Seq(Characters)
  BY <1>3 DEF Words, Tag, PayloadTags, ArrayTags
<1>4. CASE t \in {"access"} \X (Unlimited..NoAccess)
  BY <1>4 DEF Words, Tag, PayloadTags, ArrayTags
<1> QED
  BY <1>1, <1>2, <1>3, <1>4 DEF Items

LEMMA BodyIsItems ==
    ASSUME NEW h, WellFormed(h), NEW x \in Ids, h[x].kind \in {"array", "string"}
    PROVE  BodyWords(h[x]) \in Seq(Items(h))
<1>1. PICK o : o = h[x]
  OBVIOUS
<1>2. o.acc \in Unlimited..NoAccess /\ IsBody(h, o.kind, o.body)
  <2>1. o.acc \in Int /\ o.acc >= 0 /\ o.acc <= 3 /\ IsBody(h, o.kind, o.body)
    BY <1>1, PayloadParts
  <2>2. Unlimited..NoAccess = 0..3
    BY DEF Unlimited, NoAccess
  <2> QED
    BY <2>1, <2>2
<1>3. PICK S : S = Items(h)
  OBVIOUS
<1>4. PICK a : a = Access(o.acc)
  OBVIOUS
<1>5. a \in S
  BY <1>2, <1>3, <1>4 DEF Items, Access
<1>6. PICK b : b = <<a>>
  OBVIOUS
<1>7. b \in Seq(S)
  BY <1>5, <1>6
<1>8. CASE o.kind = "string"
  <2>1. o.body \in Seq(Cells(h, "string"))
    BY <1>2, <1>8, BodiesAreCells
  <2>2. Chars(o.body) \in S
    BY <1>3, <2>1 DEF Items, Chars, Cells
  <2>3. PICK p : p = <<Chars(o.body)>>
    OBVIOUS
  <2>4. p \in Seq(S)
    BY <2>2, <2>3
  <2>5. BodyWords(o) = p \o b
    BY <1>4, <1>6, <1>8, <2>3 DEF BodyWords
  <2> QED
    BY <1>1, <1>3, <1>7, <2>4, <2>5, SeqConcat
<1>9. CASE o.kind = "array"
  <2>1. o.body \in Seq(Toks(h))
    BY <1>2, <1>9, BodiesAreCells DEF Cells
  <2>2. Toks(h) \subseteq S
    BY <1>3 DEF Items
  <2>3. o.body \in Seq(S) /\ Len(o.body) \in Nat
    BY <2>1, <2>2, SeqMono, SeqParts
  <2>4. Count(Len(o.body)) \in S
    BY <1>3, <2>3 DEF Items, Count
  <2>5. PICK p : p = <<Count(Len(o.body))>>
    OBVIOUS
  <2>6. p \in Seq(S)
    BY <2>4, <2>5
  <2>7. PICK q : q = p \o o.body
    OBVIOUS
  <2>8. q \in Seq(S)
    BY <2>3, <2>6, <2>7, SeqConcat
  <2>9. BodyWords(o) = q \o b
    BY <1>4, <1>6, <1>9, <2>5, <2>7 DEF BodyWords
  <2> QED
    BY <1>1, <1>3, <1>7, <2>8, <2>9, SeqConcat
<1> QED
  BY <1>1, <1>8, <1>9

\* One more word that counts what has been met.
LEMMA OneMoreWord ==
    ASSUME NEW h, NEW s, s \in Seq(Ids), NEW p, p \in Seq(Ids),
           NEW old, old \in Seq(Words), \A i \in 1..Len(old) : Counted(h, s, old[i]),
           Len(s) <= Len(p), \A i \in 1..Len(s) : p[i] = s[i],
           NEW word, word \in Words, Counted(h, p, word),
           NEW out, out = Append(old, word)
    PROVE  out \in Seq(Words) /\ \A i \in 1..Len(out) : Counted(h, p, out[i])
<1>1. out \in Seq(Words) /\ Len(out) = Len(old) + 1 /\ out[Len(old) + 1] = word
      /\ \A i \in 1..Len(old) : out[i] = old[i]
  BY SeqAppend
<1>2. PICK n \in Nat : n = Len(old)
  BY SeqParts
<1>3. PICK a \in Nat, b \in Nat : a = Len(s) /\ b = Len(p) /\ a <= b
  BY SeqParts
<1>4. ASSUME NEW i \in 1..Len(out) PROVE Counted(h, p, out[i])
  <2>1. CASE i \in 1..n
    <3>1. out[i] = old[i] /\ Counted(h, s, old[i])
      BY <1>1, <1>2, <2>1
    <3>2. \A j \in 1..a : j \in 1..b /\ p[j] = s[j]
      BY <1>3
    <3> QED
      BY <1>3, <3>1, <3>2 DEF Counted
  <2>2. CASE i = n + 1
    BY <1>1, <1>2, <2>2
  <2> QED
    BY <1>1, <1>2, <1>4, <2>1, <2>2
<1> QED
  BY <1>1, <1>4

LEMMA WriteTokenWrites ==
    ASSUME NEW k, Sound(k), NEW w, Writing(k, w)
    PROVE  Writing(k, WriteToken(k, w))
<1>1. PICK h : h = k.heap
  OBVIOUS
<1>2. PICK S : S = Items(h)
  OBVIOUS
<1>3. PICK t : t = Head(w.todo)
  OBVIOUS
<1>4. PICK rest : rest = Tail(w.todo)
  OBVIOUS
<1>5. CASE w.todo = <<>>
  BY <1>5 DEF WriteToken
<1>6. CASE w.todo # <<>>
  <2>1. w.todo \in Seq(S) /\ w.out \in Seq(Words) /\ w.seen \in Seq(Ids)
        /\ \A i \in 1..Len(w.out) : Counted(h, w.seen, w.out[i])
    BY <1>1, <1>2 DEF Writing
  <2>2. t \in S /\ rest \in Seq(S)
    BY <1>3, <1>4, <1>6, <2>1
  <2>3. PICK N \in Nat : N = Len(w.seen) /\ DOMAIN w.seen = 1..N
    BY <2>1, SeqParts
  <2>4. CASE Tag(t) \in PayloadTags
    <3>1. t \in Toks(h) /\ Data(t) \in Ids /\ h[Data(t)].kind = Kind(Tag(t))
          /\ \A n \in Nat : <<Tag(t), n>> \in Words
      BY <1>2, <2>2, <2>4, ItemParts
    <3>2. PICK b : b = BodyWords(Payload(k, t))
      OBVIOUS
    <3>3. b \in Seq(S)
      <4>1. h[Data(t)].kind \in {"array", "string"}
        BY <2>4, <3>1, KindOf DEF PayloadTags
      <4> QED
        BY <1>1, <1>2, <3>1, <3>2, <4>1, BodyIsItems DEF Sound, Payload
    <3>4. PICK known : known = {i \in DOMAIN w.seen : w.seen[i] = Data(t)}
      OBVIOUS
    <3>5. WriteToken(k, w) = InternObject(w, t, b)
      BY <1>3, <1>6, <2>4, <3>2 DEF WriteToken
    <3>6. CASE known = {}
      <4>1. PICK v : v = InternNothing(w, t, b)
        OBVIOUS
      <4>2. PICK l \in Nat : l = Len(w.seen) + 1
        BY <2>3
      <4>3. PICK word : word = <<Tag(t), l>>
        OBVIOUS
      <4>4. PICK out : out = Append(w.out, word)
        OBVIOUS
      <4>5. PICK x : x = Data(t)
        OBVIOUS
      <4>6. PICK seen : seen = Append(w.seen, x)
        OBVIOUS
      <4>7. PICK todo : todo = b \o rest
        OBVIOUS
      <4>8. v = [out |-> out, seen |-> seen, todo |-> todo]
        BY <1>4, <4>1, <4>2, <4>3, <4>4, <4>5, <4>6, <4>7 DEF InternNothing
      <4>9. todo \in Seq(S)
        BY <2>2, <3>3, <4>7, SeqConcat
      <4>10. seen \in Seq(Ids) /\ Len(seen) = l /\ seen[l] = x /\ \A i \in 1..N : seen[i] = w.seen[i]
        BY <2>1, <2>3, <3>1, <4>2, <4>5, <4>6, SeqAppend
      <4>11. word \in Words /\ Tag(word) = Tag(t) /\ Data(word) = l
        BY <3>1, <4>3, TagParts
      <4>12. Counted(h, seen, word)
        <5>1. l \in 1..l
          BY <2>3, <4>2
        <5> QED
          BY <3>1, <4>5, <4>10, <4>11, <5>1 DEF Counted
      <4>13. N <= l
        BY <2>3, <4>2
      <4>14. out \in Seq(Words) /\ \A i \in 1..Len(out) : Counted(h, seen, out[i])
        BY <2>1, <2>3, <4>4, <4>10, <4>11, <4>12, <4>13, OneMoreWord
      <4>15. Writing(k, v)
        <5>1. v.out = out /\ v.seen = seen /\ v.todo = todo
          BY <4>8
        <5> QED
          BY <1>1, <1>2, <4>8, <4>9, <4>10, <4>14, <5>1 DEF Writing
      <4>16. WriteToken(k, w) = v
        BY <3>4, <3>5, <3>6, <4>1 DEF InternObject
      <4> QED
        BY <4>15, <4>16
    <3>7. CASE known # {}
      <4>1. PICK n : n = CHOOSE i \in known : TRUE
        OBVIOUS
      <4>2. n \in known
        BY <3>7, <4>1
      <4>3. n \in 1..N /\ w.seen[n] = Data(t) /\ n \in Nat
        BY <2>3, <3>4, <4>2
      <4>4. PICK word : word = <<Tag(t), n>>
        OBVIOUS
      <4>5. PICK out : out = Append(w.out, word)
        OBVIOUS
      <4>6. PICK v : v = [w EXCEPT !.out = out, !.todo = rest]
        OBVIOUS
      <4>7. word \in Words /\ Tag(word) = Tag(t) /\ Data(word) = n
        BY <3>1, <4>3, <4>4, TagParts
      <4>8. Counted(h, w.seen, word)
        BY <2>3, <3>1, <4>3, <4>7 DEF Counted
      <4>9. out \in Seq(Words) /\ \A i \in 1..Len(out) : Counted(h, w.seen, out[i])
        BY <2>1, <2>3, <4>5, <4>7, <4>8, OneMoreWord
      <4>10. v.out = out /\ v.seen = w.seen /\ v.todo = rest
             /\ v = [out |-> v.out, seen |-> v.seen, todo |-> v.todo]
        BY <4>6 DEF Writing
      <4>11. Writing(k, v)
        BY <1>1, <1>2, <2>1, <2>2, <4>9, <4>10 DEF Writing
      <4>12. InternObject(w, t, b) = v
        BY <1>4, <3>4, <3>7, <4>1, <4>4, <4>5, <4>6 DEF InternObject
      <4> QED
        BY <3>5, <4>11, <4>12
    <3> QED
      BY <3>6, <3>7
  <2>5. CASE Tag(t) \notin PayloadTags
    <3>1. PICK word : word = IF Tag(t) = "dictionary" THEN <<Tag(t), 0>> ELSE t
      OBVIOUS
    <3>2. word \in Words /\ Tag(word) = Tag(t)
      <4>1. "dictionary" \notin PayloadTags
        BY DEF PayloadTags, ArrayTags
      <4> QED
        BY <1>2, <2>2, <2>5, <3>1, <4>1, ItemParts, TagParts
    <3>3. Counted(h, w.seen, word)
      BY <2>5, <3>2 DEF Counted
    <3>4. PICK out : out = Append(w.out, word)
      OBVIOUS
    <3>5. PICK v : v = [w EXCEPT !.out = out, !.todo = rest]
      OBVIOUS
    <3>6. out \in Seq(Words) /\ \A i \in 1..Len(out) : Counted(h, w.seen, out[i])
      BY <2>1, <2>3, <3>2, <3>3, <3>4, OneMoreWord
    <3>7. v.out = out /\ v.seen = w.seen /\ v.todo = rest
          /\ v = [out |-> v.out, seen |-> v.seen, todo |-> v.todo]
      BY <3>5 DEF Writing
    <3>8. Writing(k, v)
      BY <1>1, <1>2, <2>1, <2>2, <3>6, <3>7 DEF Writing
    <3>9. WriteToken(k, w) = v
      BY <1>3, <1>4, <1>6, <2>5, <3>1, <3>4, <3>5 DEF WriteToken
    <3> QED
      BY <3>8, <3>9
  <2> QED
    BY <2>4, <2>5
<1> QED
  BY <1>5, <1>6

WritingRounds(k, N, a, f) ==
    f = [n \in 0..N |-> IF n = 0 THEN a ELSE WriteToken(k, f[n - 1])]

LEMMA WriteRoundsAreFinite == ASSUME NEW k, Sound(k) PROVE WriteRounds(k) \in Nat
<1>1. PICK h : h = k.heap
  OBVIOUS
<1>2. PICK f : f = [x \in Ids |-> {x} \X DOMAIN h[x].body]
  OBVIOUS
<1>3. PICK S : S = {{x} \X DOMAIN h[x].body : x \in Ids}
  OBVIOUS
<1>4. f \in Surjection(Ids, S)
  <2>1. f \in [Ids -> S]
    BY <1>2, <1>3
  <2>2. \A T \in S : \E x \in Ids : f[x] = T
    BY <1>2, <1>3
  <2> QED
    BY <2>1, <2>2 DEF Surjection
<1>5. IsFiniteSet(Ids)
  BY MaxObjectsAssumption, FS_Interval DEF Ids
<1>6. IsFiniteSet(S)
  BY <1>4, <1>5, FS_Surjection
<1>7. ASSUME NEW x \in Ids PROVE IsFiniteSet({x} \X DOMAIN h[x].body)
  <2>1. PICK b : b = h[x].body
    OBVIOUS
  <2>2. IsBody(h, h[x].kind, b) /\ h[x].kind \in {"free", "array", "string", "dictionary"}
    BY <1>1, <2>1, PayloadParts DEF Sound
  <2>3. IsFiniteSet(DOMAIN b)
    <3>1. CASE h[x].kind = "dictionary"
      <4>1. DOMAIN b \subseteq Names
        BY <2>2, <3>1, BodiesAreCells
      <4> QED
        BY <4>1, NamesAreFinite, FS_Subset
    <3>2. CASE h[x].kind # "dictionary"
      <4>1. PICK T : b \in Seq(T)
        <5>1. b \in Seq(Cells(h, "array")) \/ b \in Seq(Cells(h, "string")) \/ b = <<>>
          BY <2>2, <3>2, BodiesAreCells
        <5>2. <<>> \in Seq(Cells(h, "array"))
          BY SeqUnits
        <5> QED
          BY <5>1, <5>2
      <4>2. PICK n \in Nat : DOMAIN b = 1..n
        BY <4>1, SeqParts
      <4> QED
        BY <4>2, FS_Interval
    <3> QED
      BY <3>1, <3>2
  <2>4. IsFiniteSet({x})
    BY FS_Singleton
  <2> QED
    BY <2>1, <2>3, <2>4, FS_Product
<1>8. \A T \in S : IsFiniteSet(T)
  BY <1>3, <1>7
<1>9. PICK c : c = Cardinality(UNION S)
  OBVIOUS
<1>10. c \in Nat
  <2>1. IsFiniteSet(UNION S)
    BY <1>6, <1>8, FS_UNION
  <2> QED
    BY <1>9, <2>1, FS_CardinalityType
<1>11. Len(k.st) \in Nat /\ Len(k.es) \in Nat
  BY SeqParts DEF Sound
<1>12. WriteRounds(k) = 2 + Len(k.st) + Len(k.es) + 2 * MaxObjects + c
  BY <1>1, <1>3, <1>9 DEF WriteRounds
<1>13. PICK p \in Nat, q \in Nat, r \in Nat : p = Len(k.st) /\ q = Len(k.es) /\ r = 2 * MaxObjects
  BY <1>11, MaxObjectsAssumption
<1>14. WriteRounds(k) = 2 + p + q + r + c
  BY <1>12, <1>13
<1> QED
  BY <1>10, <1>14

LEMMA WriterExists ==
    ASSUME NEW k, NEW N \in Nat, NEW a
    PROVE  \E f : WritingRounds(k, N, a, f)
<1>1. PICK P : P = {n \in Nat : \E f : WritingRounds(k, n, a, f)}
  OBVIOUS
<1>2. 0 \in P
  <2>1. PICK f : f = [i \in 0..0 |-> a]
    OBVIOUS
  <2>2. f = [i \in 0..0 |-> IF i = 0 THEN a ELSE WriteToken(k, f[i - 1])]
    BY <2>1
  <2> QED
    BY <1>1, <2>2 DEF WritingRounds
<1>3. ASSUME NEW n \in Nat, n \in P PROVE n + 1 \in P
  <2>1. PICK f : WritingRounds(k, n, a, f)
    BY <1>1, <1>3
  <2>2. PICK l \in Nat : l = n + 1
    OBVIOUS
  <2>3. PICK b : b = WriteToken(k, f[n])
    OBVIOUS
  <2>4. PICK g : g = [i \in 0..l |-> IF i = l THEN b ELSE f[i]]
    OBVIOUS
  <2>5. PICK e : e = [i \in 0..l |-> IF i = 0 THEN a ELSE WriteToken(k, g[i - 1])]
    OBVIOUS
  <2>6. ASSUME NEW i \in 0..l PROVE g[i] = e[i]
    <3>1. CASE i = l
      <4>1. i # 0 /\ i - 1 = n /\ n \in 0..l /\ n # l
        BY <2>2, <3>1
      <4>2. g[n] = f[n]
        BY <2>4, <4>1
      <4>3. e[i] = WriteToken(k, g[n])
        BY <2>5, <4>1
      <4> QED
        BY <2>3, <2>4, <3>1, <4>2, <4>3
    <3>2. CASE i # l
      <4>1. i \in 0..n
        BY <2>2, <3>2
      <4>2. f[i] = IF i = 0 THEN a ELSE WriteToken(k, f[i - 1])
        BY <2>1, <4>1 DEF WritingRounds
      <4>3. i # 0 => i - 1 \in 0..l /\ i - 1 # l
        BY <2>2, <4>1
      <4>4. i # 0 => g[i - 1] = f[i - 1]
        BY <2>4, <4>3
      <4> QED
        BY <2>4, <2>5, <3>2, <4>2, <4>4
    <3> QED
      BY <3>1, <3>2
  <2>7. g = e
    BY <2>4, <2>5, <2>6
  <2>8. g = [i \in 0..l |-> IF i = 0 THEN a ELSE WriteToken(k, g[i - 1])]
    BY <2>5, <2>7
  <2>9. l \in P
    BY <1>1, <2>8 DEF WritingRounds
  <2> QED
    BY <2>2, <2>9
<1>4. \A n \in Nat : n \in P
  BY <1>2, <1>3, NaturalsByInduction
<1> QED
  BY <1>1, <1>4

LEMMA StartWrites ==
    ASSUME NEW k, Sound(k)
    PROVE  Writing(k, StartWriting(k))
<1>1. PICK S : S = Items(k.heap)
  OBVIOUS
<1>2. k.st \in Seq(S) /\ k.es \in Seq(S)
  <2>1. Toks(k.heap) \subseteq S
    BY <1>1 DEF Items
  <2> QED
    BY <2>1, SeqMono DEF Sound
<1>3. ASSUME NEW s \in Seq(S) PROVE StackWords(s) \in Seq(S)
  <2>1. Count(Len(s)) \in S
    BY <1>1, <1>3, SeqParts DEF Items, Count
  <2>2. PICK p : p = <<Count(Len(s))>>
    OBVIOUS
  <2>3. p \in Seq(S)
    BY <2>1, <2>2
  <2>4. StackWords(s) = p \o s
    BY <2>2 DEF StackWords
  <2> QED
    BY <1>3, <2>3, <2>4, SeqConcat
<1>4. PICK todo : todo = StackWords(k.st) \o StackWords(k.es)
  OBVIOUS
<1>5. todo \in Seq(S)
  BY <1>2, <1>3, <1>4, SeqConcat
<1>6. PICK w : w = StartWriting(k)
  OBVIOUS
<1>7. w = [out |-> <<>>, seen |-> <<>>, todo |-> todo]
  BY <1>4, <1>6 DEF StartWriting
<1>8. w.out = <<>> /\ w.seen = <<>> /\ w.todo = todo
      /\ w = [out |-> w.out, seen |-> w.seen, todo |-> w.todo]
  BY <1>7
<1>9. w.out \in Seq(Words) /\ w.seen \in Seq(Ids)
  BY <1>8, SeqUnits
<1>10. \A i \in 1..Len(w.out) : Counted(k.heap, w.seen, w.out[i])
  BY <1>8
<1> QED
  BY <1>1, <1>5, <1>6, <1>8, <1>9, <1>10 DEF Writing

LEMMA ImageIsWritten ==
    ASSUME NEW k, Sound(k)
    PROVE  \E w : Writing(k, w) /\ Image(k) = w.out
<1>1. PICK a : a = StartWriting(k)
  OBVIOUS
<1>2. PICK N \in Nat : N = WriteRounds(k)
  BY WriteRoundsAreFinite
<1>3. PICK r : r = CHOOSE f : f = [i \in 0..N |-> IF i = 0 THEN a ELSE WriteToken(k, f[i - 1])]
  OBVIOUS
<1>4. r = [i \in 0..N |-> IF i = 0 THEN a ELSE WriteToken(k, r[i - 1])]
  <2>1. PICK f : WritingRounds(k, N, a, f)
    BY WriterExists
  <2>2. f = [i \in 0..N |-> IF i = 0 THEN a ELSE WriteToken(k, f[i - 1])]
    BY <2>1 DEF WritingRounds
  <2> QED
    BY <1>3, <2>2, Zenon
<1>5. Image(k) = r[N].out
  BY <1>1, <1>2, <1>3 DEF Image
<1>6. PICK P : P = {n \in 0..N : Writing(k, r[n])}
  OBVIOUS
<1>7. 0 \in P
  <2>1. r[0] = a
    BY <1>4
  <2> QED
    BY <1>1, <1>6, <2>1, StartWrites
<1>8. ASSUME NEW n \in Nat, n < N, n \in P PROVE n + 1 \in P
  <2>1. PICK l \in Nat : l = n + 1 /\ l \in 0..N /\ l # 0 /\ l - 1 = n
    BY <1>8
  <2>2. r[l] = WriteToken(k, r[n])
    BY <1>4, <2>1
  <2>3. Writing(k, r[l])
    BY <1>6, <1>8, <2>2, WriteTokenWrites
  <2> QED
    BY <1>6, <2>1, <2>3
<1>9. \A n \in 0..N : n \in P
  BY <1>7, <1>8, SegmentByInduction
<1>10. Writing(k, r[N])
  BY <1>6, <1>9
<1> QED
  BY <1>5, <1>10

LEMMA CutIsFile ==
    ASSUME NEW k, Sound(k), NEW n, n \in {0, Len(Image(k)) - 1, Len(Image(k))}
    PROVE  IsFile(SubSeq(Image(k), 1, n))
<1>1. PICK w : Writing(k, w) /\ Image(k) = w.out
  BY ImageIsWritten
<1>2. PICK s : s = w.out
  OBVIOUS
<1>3. s \in Seq(Words) /\ \A i \in 1..Len(s) : Counted(k.heap, w.seen, s[i])
  BY <1>1, <1>2 DEF Writing
<1>4. PICK N \in Nat : N = Len(s)
  BY <1>3, SeqParts
<1>5. PICK l \in Int : l = n /\ l <= N
  BY <1>1, <1>2, <1>4
<1>6. PICK f : f = SubSeq(s, 1, l)
  OBVIOUS
<1>7. f \in Seq(Words) /\ \A i \in 1..l : f[i] = s[i]
  BY <1>3, <1>4, <1>5, <1>6, SeqCut
<1>8. Len(f) = IF l >= 1 THEN l ELSE 0
  BY <1>3, <1>4, <1>5, <1>6, SeqCut
<1>9. DOMAIN f = 1..Len(f)
  BY <1>7, SeqParts
<1>10. \A i \in DOMAIN f : Counted(k.heap, w.seen, f[i])
  <2>1. \A i \in DOMAIN f : i \in 1..l /\ i \in 1..N
    BY <1>4, <1>5, <1>8, <1>9
  <2> QED
    BY <1>3, <1>4, <1>7, <2>1
<1>11. IsFile(f)
  BY <1>7, <1>10 DEF IsFile, Counted
<1> QED
  BY <1>1, <1>2, <1>5, <1>6, <1>11

\* Payloads that came in and that no stack knows take nothing away from those
\* that were there, nor keep them.
LEMMA NewcomersHoldNothing ==
    ASSUME NEW k, Sound(k), NEW g, Sound(g), g.st = k.st, g.es = k.es,
           NEW d, Added(k.heap, g.heap, d), NEW x \in Ids, k.heap[x].kind # "free"
    PROVE  /\ g.heap[x] = k.heap[x] /\ Rooted(g, x) = Rooted(k, x)
           /\ Holders(g, x) = Holders(k, x)
           /\ \A y \in Holders(k, x) : k.heap[y].kind # "free"
<1>1. g.heap[x] = k.heap[x]
  BY DEF Added
<1>2. Rooted(g, x) = Rooted(k, x)
  BY DEF Rooted
<1>3. ASSUME NEW y \in Ids, k.heap[y].kind = "free"
      PROVE  Uses(Contents(k.heap[y]), x) = {} /\ Uses(Contents(g.heap[y]), x) = {}
  <2>1. PICK e : e = <<>>
    OBVIOUS
  <2>2. Uses(e, x) = {}
    <3>1. DOMAIN e = {}
      BY <2>1
    <3> QED
      BY <3>1 DEF Uses
  <2>3. \A o : o.kind \notin {"array", "dictionary"} => Uses(Contents(o), x) = {}
    BY <2>1, <2>2 DEF Contents
  <2>4. Uses(Contents(k.heap[y]), x) = {}
    BY <1>3, <2>3
  <2>5. PICK o : o = g.heap[y]
    OBVIOUS
  <2>6. o = Free \/ NewPayload(g.heap, d, o)
    BY <1>3, <2>5 DEF Added
  <2>7. Uses(Contents(o), x) = {}
    <3>1. CASE o.kind \notin {"array", "dictionary"}
      BY <2>3, <3>1
    <3>2. CASE o.kind \in {"array", "dictionary"}
      <4>1. o.kind = "array" /\ o.body \in Seq(Fits(g.heap, d))
        BY <2>6, <3>2 DEF Free, NewPayload
      <4>2. Contents(o) = o.body
        BY <4>1 DEF Contents
      <4>3. \A i \in DOMAIN o.body : o.body[i] \in Fits(g.heap, d)
        BY <4>1, SeqParts
      <4>4. x \notin d
        BY DEF Added
      <4>5. \A i \in DOMAIN o.body : ~Refers(o.body[i], x)
        BY <4>3, <4>4 DEF Fits, Refers
      <4> QED
        BY <4>2, <4>5 DEF Uses
    <3> QED
      BY <3>1, <3>2
  <2> QED
    BY <2>4, <2>5, <2>7
<1>4. \A y \in Ids : k.heap[y].kind # "free" => g.heap[y] = k.heap[y]
  BY DEF Added
<1>5. \A y \in Ids : y \in Holders(g, x) <=> y \in Holders(k, x)
  BY <1>3, <1>4 DEF Holders
<1>6. Holders(g, x) \subseteq Ids /\ Holders(k, x) \subseteq Ids
  BY DEF Holders
<1>7. Holders(g, x) = Holders(k, x)
  BY <1>5, <1>6
<1>8. \A y \in Holders(k, x) : k.heap[y].kind # "free"
  BY <1>3, <1>6 DEF Holders
<1> QED
  BY <1>1, <1>2, <1>7, <1>8

LEMMA NewcomersChangeNothing ==
    ASSUME NEW k, Sound(k), NEW g, Sound(g), g.st = k.st, g.es = k.es,
           NEW d, Added(k.heap, g.heap, d), NEW x \in Ids, k.heap[x].kind # "free"
    PROVE  Released(g).heap[x] = Released(k).heap[x]
<1>1. PICK old : old = {y \in Ids : k.heap[y].kind # "free"}
  OBVIOUS
<1>2. PICK a : a = Dead(k)
  OBVIOUS
<1>3. PICK b : b = Dead(g)
  OBVIOUS
<1>4. \A y \in old : /\ g.heap[y] = k.heap[y] /\ Rooted(g, y) = Rooted(k, y)
                     /\ Holders(g, y) = Holders(k, y) /\ Holders(k, y) \subseteq old
  <2> SUFFICES ASSUME NEW y \in old
               PROVE /\ g.heap[y] = k.heap[y] /\ Rooted(g, y) = Rooted(k, y)
                     /\ Holders(g, y) = Holders(k, y) /\ Holders(k, y) \subseteq old
    OBVIOUS
  <2>1. y \in Ids /\ k.heap[y].kind # "free"
    BY <1>1
  <2>2. /\ g.heap[y] = k.heap[y] /\ Rooted(g, y) = Rooted(k, y)
        /\ Holders(g, y) = Holders(k, y)
        /\ \A z \in Holders(k, y) : k.heap[z].kind # "free"
    BY <2>1, NewcomersHoldNothing
  <2>3. Holders(k, y) \subseteq Ids
    BY DEF Holders
  <2> QED
    BY <1>1, <2>2, <2>3
<1>5. a \in SUBSET Ids /\ b \in SUBSET Ids /\ Orphans(k, a) = a /\ Orphans(g, b) = b
  BY <1>2, <1>3, DeadIsLeast
<1>6. a \subseteq b
  <2>1. PICK c : c = b \cap old
    OBVIOUS
  <2>2. c \in SUBSET Ids
    BY <1>5, <2>1
  <2>3. ASSUME NEW y \in Orphans(k, c) PROVE y \in c
    <3>1. y \in old /\ k.heap[y].lost = 0 /\ ~Rooted(k, y) /\ Holders(k, y) \subseteq c
      BY <1>1, <2>3 DEF Orphans
    <3>2. y \in Ids /\ g.heap[y].kind # "free" /\ g.heap[y].lost = 0 /\ ~Rooted(g, y)
          /\ Holders(g, y) \subseteq b
      BY <1>1, <1>4, <2>1, <3>1
    <3>3. y \in Orphans(g, b)
      BY <3>2 DEF Orphans
    <3> QED
      BY <1>5, <2>1, <3>1, <3>3
  <2>4. a \subseteq c
    BY <1>2, <2>2, <2>3, DeadIsLeast
  <2> QED
    BY <2>1, <2>4
<1>7. b \cap old \subseteq a
  <2>1. PICK e : e = a \cup (Ids \ old)
    OBVIOUS
  <2>2. e \in SUBSET Ids
    BY <1>5, <2>1
  <2>3. ASSUME NEW y \in Orphans(g, e) PROVE y \in e
    <3>1. y \in Ids
      BY <2>3 DEF Orphans
    <3>2. CASE y \in old
      <4>1. g.heap[y].kind # "free" /\ g.heap[y].lost = 0 /\ ~Rooted(g, y) /\ Holders(g, y) \subseteq e
        BY <2>3 DEF Orphans
      <4>2. k.heap[y].kind # "free" /\ k.heap[y].lost = 0 /\ ~Rooted(k, y) /\ Holders(k, y) \subseteq a
        BY <1>4, <2>1, <3>2, <4>1
      <4>3. y \in Orphans(k, a)
        BY <3>1, <4>2 DEF Orphans
      <4> QED
        BY <1>5, <2>1, <4>3
    <3> QED
      BY <2>1, <3>1, <3>2
  <2>4. b \subseteq e
    BY <1>3, <2>2, <2>3, DeadIsLeast
  <2> QED
    BY <1>1, <2>1, <2>4
<1>8. x \in old
  BY <1>1
<1>9. x \in a <=> x \in b
  BY <1>6, <1>7, <1>8
<1>10. Released(k).heap[x] = IF x \in a THEN Free ELSE k.heap[x]
  BY <1>2, ReleasedParts
<1>11. Released(g).heap[x] = IF x \in b THEN Free ELSE g.heap[x]
  BY <1>3, ReleasedParts
<1> QED
  BY <1>4, <1>8, <1>9, <1>10, <1>11

-----------------------------------------------------------------------------
(* The steps of a program *)

\* What every step but a literal leaves: a machine that its operator may leave,
\* without what nobody holds, and a file that savestate may have written.
Stepped ==
    \E name, out :
        /\ name \in Ops /\ out.m.room /\ Fair(m, out)
        /\ ostack' = out.m.st /\ estack' = out.m.es /\ heap' = Released(out.m).heap
        /\ last' = [op |-> name, err |-> out.err]
        /\ steps < Length /\ steps' = steps + 1
        /\ file' = file \/ (out.err = "none" /\ IsFile(file'))
        /\ UNCHANGED program

LEMMA DoStep ==
    ASSUME NEW name, NEW out, Do(name, out), Good(m, out)
    PROVE  Stepped
<1>1. Fair(m, out)
  BY GoodIsFair
<1> QED
  BY <1>1 DEF Do, Leave, Going, Stepped

LEMMA LeafStep ==
    ASSUME NEW name, NEW sig, NEW out, Leaf(name, sig, out), Match(sig) => Good(m, out)
    PROVE  Stepped
<1>1. Match(sig) /\ Do(name, out)
  BY DEF Leaf
<1> QED
  BY <1>1, DoStep

LEMMA MachineParts ==
    ASSUME TypeOK
    PROVE  /\ Sound(m) /\ m.st = ostack /\ m.es = estack /\ m.heap = heap /\ m.room = TRUE
           /\ Load(m) = Len(ostack)
<1>1. m.st = ostack /\ m.es = estack /\ m.heap = heap /\ m.room = TRUE
      /\ m = [st |-> m.st, es |-> m.es, heap |-> m.heap, room |-> m.room]
  BY DEF m
<1>2. ostack \in Seq(Toks(heap)) /\ estack \in Seq(Toks(heap)) /\ WellFormed(heap)
  BY TokensAreToks DEF TypeOK
<1> QED
  BY <1>1, <1>2 DEF Sound, Shape, Load

LEMMA RawsAreInts ==
    ASSUME TypeOK, NEW i \in 0..1
    PROVE  RawAt(i) \subseteq Int /\ RawReads \subseteq Int
<1>1. RawReads \subseteq Int
  BY BoundsAssumption DEF Longs
<1>2. Load(m) \in Nat /\ Sound(m)
  BY MachineParts, LoadIsNat
<1>3. PICK S : S = RawAt(i)
  OBVIOUS
<1>4. CASE Load(m) <= i
  BY <1>1, <1>3, <1>4 DEF RawAt
<1>5. CASE ~(Load(m) <= i) /\ TagAt(m, i) # "integer"
  BY <1>1, <1>3, <1>5 DEF RawAt
<1>6. CASE ~(Load(m) <= i) /\ TagAt(m, i) = "integer"
  <2>1. i \in Int /\ 0 <= i /\ i < Load(m)
    BY <1>2, <1>6
  <2>2. DataAt(m, i) \in Int
    BY <1>2, <1>6, <2>1, OperandParts
  <2>3. RawAt(i) = {DataAt(m, i)}
    BY <1>6 DEF RawAt
  <2> QED
    BY <1>1, <2>2, <2>3
<1> QED
  BY <1>4, <1>5, <1>6

LEMMA StackSteps ==
    ASSUME TypeOK, StackStep
    PROVE  Stepped
<1>1. Sound(m)
  BY MachineParts
<1>2. /\ Good(m, PopFunction(m)) /\ Good(m, DupFunction(m)) /\ Good(m, ExchFunction(m))
      /\ Good(m, OverFunction(m)) /\ Good(m, RolluFunction(m)) /\ Good(m, RolldFunction(m))
      /\ Good(m, RotFunction(m)) /\ Good(m, CountFunction(m)) /\ Good(m, CounttomarkFunction(m))
      /\ Good(m, ClearFunction(m)) /\ Good(m, OperandstackFunction(m))
      /\ Good(m, RestoreostackFunction(m))
  BY <1>1, PopGood, DupGood, ExchGood, OverGood, RollsGood, CountGood, CounttomarkGood, ClearGood,
     OperandstackGood, RestoreostackGood
<1>3. RawAt(0) \subseteq Int /\ RawAt(1) \subseteq Int
  BY RawsAreInts
<1>4. \A n \in RawAt(0) : /\ Good(m, NpopFunction(m, n)) /\ Good(m, IndexFunction(m, n))
                          /\ Good(m, CopyFunction(m, n))
  BY <1>1, <1>3, NpopGood, IndexGood, CopyGood
<1>5. \A n \in RawAt(1), k \in RawAt(0) : Good(m, RollFunction(m, n, k))
  BY <1>1, <1>3, RollGood
<1> QED
  BY <1>2, <1>4, <1>5, DoStep DEF StackStep

LEMMA MatchParts ==
    ASSUME TypeOK
    PROVE  /\ \A a : Match(<<a>>) <=> Load(m) >= 1 /\ TagAt(m, 0) = a
           /\ \A a, b : Match(<<a, b>>) <=> Load(m) >= 2 /\ TagAt(m, 1) = a /\ TagAt(m, 0) = b
<1>1. Load(m) = Len(ostack) /\ Load(m) \in Nat
  BY MachineParts, LoadIsNat
<1>2. ASSUME NEW a PROVE Match(<<a>>) <=> Load(m) >= 1 /\ TagAt(m, 0) = a
  <2>1. PICK sig : sig = <<a>>
    OBVIOUS
  <2>2. Len(sig) = 1 /\ sig[1] = a
    BY <2>1
  <2>3. Match(sig) <=> Load(m) >= 1 /\ TagAt(m, 0) = a
    <3>1. \A i \in 1..Len(sig) : i = 1
      BY <2>2
    <3>2. 1 \in 1..Len(sig) /\ Len(sig) - 1 = 0
      BY <2>2
    <3>3. (\A i \in 1..Len(sig) : TagAt(m, Len(sig) - i) = sig[i]) <=> TagAt(m, 0) = a
      BY <2>2, <3>1, <3>2
    <3> QED
      BY <1>1, <2>2, <3>3 DEF Match
  <2> QED
    BY <2>1, <2>3
<1>3. ASSUME NEW a, NEW b
      PROVE  Match(<<a, b>>) <=> Load(m) >= 2 /\ TagAt(m, 1) = a /\ TagAt(m, 0) = b
  <2>1. PICK sig : sig = <<a, b>>
    OBVIOUS
  <2>2. Len(sig) = 2 /\ sig[1] = a /\ sig[2] = b
    BY <2>1
  <2>3. Match(sig) <=> Load(m) >= 2 /\ TagAt(m, 1) = a /\ TagAt(m, 0) = b
    <3>1. \A i \in 1..Len(sig) : i = 1 \/ i = 2
      BY <2>2
    <3>2. 1 \in 1..Len(sig) /\ Len(sig) - 1 = 1 /\ 2 \in 1..Len(sig) /\ Len(sig) - 2 = 0
      BY <2>2
    <3>3. (\A i \in 1..Len(sig) : TagAt(m, Len(sig) - i) = sig[i])
              <=> TagAt(m, 1) = a /\ TagAt(m, 0) = b
      BY <2>2, <3>1, <3>2
    <3> QED
      BY <1>1, <2>2, <3>3 DEF Match
  <2> QED
    BY <2>1, <2>3
<1> QED
  BY <1>2, <1>3

LEMMA ContainerSteps ==
    ASSUME TypeOK, ContainerStep
    PROVE  Stepped
<1>1. Sound(m)
  BY MachineParts
<1>2. RawAt(0) \subseteq Int /\ RawReads \subseteq Int
  BY RawsAreInts
<1>3. /\ Good(m, LengthFunction(m)) /\ Good(m, EmptyFunction(m)) /\ Good(m, SizeFunction(m))
      /\ Good(m, ReserveFunction(m)) /\ Good(m, GetFunction(m)) /\ Good(m, StringIsNoNumber(m))
      /\ Good(m, KeysFunction(m)) /\ Good(m, ValuesFunction(m)) /\ Good(m, CvaFunction(m))
      /\ Good(m, DictconstructFunction(m)) /\ Good(m, CleardictFunction(m))
      /\ Good(m, ClonedictFunction(m)) /\ Good(m, KnownFunction(m)) /\ Good(m, JoinFunction(m))
  <2>1. MarkTok \in Toks(m.heap)
    BY ScalarsAreTokens
  <2> QED
    BY <1>1, <2>1, LengthGood, EmptyGood, SizesGood, GetGood, StringAsGood, KeysGood, ValuesGood,
       CvaGood, DictconstructGood, CleardictGood, ClonedictGood, KnownGood, JoinGood
<1>4. /\ Good(m, SearchFunction(m)) /\ Good(m, GetintervalFunction(m))
      /\ Good(m, InsertelementFunction(m)) /\ Good(m, AppendFunction(m))
      /\ Good(m, PrependFunction(m)) /\ Good(m, EqFunction(m)) /\ Good(m, NeqFunction(m))
      /\ Good(m, AppendArrayLike(m, "litprocedure"))
  BY <1>1, SearchGood, GetintervalGood, InsertelementGood, AppendGood, EqGood, ExtendArrayLikeGood,
     KindOf
<1>5. /\ Good(m, InsertArray(m)) /\ Good(m, InsertString(m)) /\ Good(m, ReplaceArray(m))
      /\ Good(m, ReplaceString(m)) /\ Good(m, EraseArrayLike(m, "array"))
      /\ Good(m, EraseArrayLike(m, "procedure")) /\ Good(m, EraseString(m))
  BY <1>1, IntervalLeavesGood
<1>6. \A n \in RawAt(0) : Good(m, PutFunction(m, n))
  BY <1>1, <1>2, PutGood
<1>7. \A n \in RawReads : Good(m, StringAs(m, IntTok(n))) /\ Good(m, StringAs(m, Dbl(FromLong(n))))
  <2> SUFFICES ASSUME NEW n \in RawReads
               PROVE  Good(m, StringAs(m, IntTok(n))) /\ Good(m, StringAs(m, Dbl(FromLong(n))))
    OBVIOUS
  <2>1. IntTok(n) \in Toks(m.heap) /\ Dbl(FromLong(n)) \in Toks(m.heap)
    BY <1>2, ScalarsAreTokens, FromLongIsDouble
  <2> QED
    BY <1>1, <2>1, StringAsGood
<1>8. ASSUME NEW name, NEW sig, NEW out, Leaf(name, sig, out), Good(m, out) PROVE Stepped
  BY <1>8, LeafStep
<1> QED
  BY <1>3, <1>4, <1>5, <1>6, <1>7, <1>8, DoStep DEF ContainerStep

LEMMA ArraySteps ==
    ASSUME TypeOK, ArrayStep
    PROVE  Stepped
<1>1. Sound(m)
  BY MachineParts
<1>2. /\ Good(m, RangeFunction(m)) /\ Good(m, ArrayFunction(m)) /\ Good(m, FirstFunction(m))
      /\ Good(m, RestFunction(m)) /\ Good(m, ReverseFunction(m)) /\ Good(m, RotateFunction(m))
      /\ Good(m, FlattenFunction(m)) /\ Good(m, TransposeFunction(m))
      /\ Good(m, PartitionFunction(m)) /\ Good(m, ArrayloadFunction(m))
      /\ Good(m, ArraystoreFunction(m)) /\ Good(m, ArraycreateFunction(m))
      /\ Good(m, MinMaxFunction(m, TRUE)) /\ Good(m, MinMaxFunction(m, FALSE))
      /\ Good(m, ValidFunction(m))
  BY <1>1, RangeGood, ArrayGood, FirstGood, RestGood, ReverseGood, RotateGood, FlattenGood,
     TransposeGood, PartitionGood, ArrayloadGood, ArraystoreGood, ArraycreateGood, MinMaxGood,
     ValidGood
<1>3. \A sorted \in SortingsOfTop : Good(m, SortFunction(m, sorted))
  <2> SUFFICES ASSUME NEW sorted \in SortingsOfTop PROVE Good(m, SortFunction(m, sorted))
    OBVIOUS
  <2>1. Load(m) >= 1 /\ TagAt(m, 0) = "array" /\ Body(m, 0) # <<>> /\ Sortable(Body(m, 0))
            => sorted \in Sorted(m, Body(m, 0))
    BY MatchParts DEF SortingsOfTop
  <2> QED
    BY <1>1, <2>1, SortGood
<1> QED
  BY <1>2, <1>3, DoStep DEF ArrayStep

LEMMA AccessSteps ==
    ASSUME TypeOK, AccessStep
    PROVE  Stepped
<1>1. Sound(m)
  BY MachineParts
<1>2. /\ Good(m, NarrowAccess(m, ReadOnly)) /\ Good(m, NarrowAccess(m, ExecuteOnly))
      /\ Good(m, NarrowAccess(m, NoAccess)) /\ Good(m, RcheckFunction(m))
      /\ Good(m, WcheckFunction(m)) /\ Good(m, XcheckFunction(m)) /\ Good(m, CvxLpFunction(m))
      /\ Good(m, CvxFunction(m)) /\ Good(m, CvlitFunction(m)) /\ Good(m, CvnFunction(m))
  BY <1>1, NarrowGood, RcheckGood, WcheckGood, XcheckGood, ConversionsGood, CvxGood, CvlitGood,
     CvnGood
<1>3. Going => Good(m, TypeFunction(m)) /\ Good(m, TypeinfoFunction(m))
  <2>1. ASSUME Going, Load(m) >= 1 PROVE At(m, 0) # Garbage
    <3>1. ostack \in Seq(Toks(heap)) /\ Load(m) = Len(ostack)
      BY MachineParts DEF Sound
    <3>2. PICK n \in Nat : n = Len(ostack) /\ DOMAIN ostack = 1..n
      BY <3>1, SeqParts
    <3>3. n - 0 = n /\ n \in DOMAIN ostack
      BY <2>1, <3>1, <3>2
    <3>4. At(m, 0) = ostack[n]
      BY <3>2, <3>3, MachineParts DEF At, Pick
    <3> QED
      BY <2>1, <3>3, <3>4 DEF Going
  <2> QED
    BY <1>1, <2>1, TypeGood
<1>4. \A name, out : Do(name, out) => Going
  BY DEF Do, Leave
<1> QED
  BY <1>2, <1>3, <1>4, DoStep DEF AccessStep

LEMMA CastsAreInts ==
    ASSUME TypeOK
    PROVE  CastsOfTop \subseteq Int
<1>1. Longs \subseteq Int
  BY DEF Longs
<1>2. CASE ~Match(<<"double">>)
  BY <1>2 DEF CastsOfTop
<1>3. CASE Match(<<"double">>)
  <2>1. Load(m) \in Nat /\ Load(m) >= 1 /\ TagAt(m, 0) = "double" /\ Sound(m)
    BY <1>3, MatchParts, MachineParts, LoadIsNat
  <2>2. 0 \in Int /\ 0 <= 0 /\ 0 < Load(m)
    BY <2>1
  <2>3. DataAt(m, 0) \in DoubleValues
    BY <2>1, <2>2, OperandParts
  <2>4. Casts(At(m, 0)) \subseteq Int
    BY <2>3, <1>1 DEF Casts, DataAt
  <2> QED
    BY <1>3, <2>4 DEF CastsOfTop
<1> QED
  BY <1>2, <1>3

LEMMA NumberSteps ==
    ASSUME TypeOK, NumberStep
    PROVE  Stepped
<1>1. Sound(m)
  BY MachineParts
<1>2. /\ Good(m, AddFunction(m)) /\ Good(m, SubFunction(m)) /\ Good(m, MulFunction(m))
      /\ Good(m, DivFunction(m)) /\ Good(m, MaxFunction(m)) /\ Good(m, MinFunction(m))
      /\ Good(m, GtFunction(m)) /\ Good(m, LtFunction(m)) /\ Good(m, GeqFunction(m))
      /\ Good(m, LeqFunction(m)) /\ Good(m, AndPolyFunction(m)) /\ Good(m, OrPolyFunction(m))
      /\ Good(m, XorPolyFunction(m)) /\ Good(m, NotPolyFunction(m)) /\ Good(m, SqrFunction(m))
      /\ Good(m, SqrtFunction(m)) /\ Good(m, PowFunction(m))
  BY <1>1, AddGood, SubGood, MulGood, DivGood, MaxGood, MinGood, ComparisonsGood, LogicalsGood,
     NotGood, UnaryGood, PowGood
<1>3. /\ Good(m, CvdFunction(m)) /\ Good(m, Log_dFunction(m)) /\ Good(m, Ln_dFunction(m))
      /\ Good(m, Sqr_dFunction(m)) /\ Good(m, Sqrt_dFunction(m)) /\ Good(m, Pow_ddFunction(m))
      /\ Good(m, Pow_diFunction(m)) /\ Good(m, TrigLeaf(m, "sin")) /\ Good(m, Modf_dFunction(m))
      /\ Good(m, Frexp_dFunction(m)) /\ Good(m, Ldexp_diFunction(m)) /\ Good(m, Dexp_iFunction(m))
  BY <1>1, CvdGood, Log_dGood, Ln_dGood, Sqr_dGood, Sqrt_dGood, Pow_ddGood, Pow_diGood,
     SinLeafGood, ModfGood, FrexpGood, Ldexp_diGood, Dexp_iGood
<1>4. /\ Good(m, Abs_iFunction(m)) /\ Good(m, Abs_dFunction(m)) /\ Good(m, Neg_iFunction(m))
      /\ Good(m, Neg_dFunction(m)) /\ Good(m, Inv_dFunction(m)) /\ Good(m, FiniteQDFunction(m))
      /\ Good(m, Gt_ssFunction(m)) /\ Good(m, Lt_ssFunction(m))
  BY <1>1, Abs_iGood, Abs_dGood, Neg_iGood, Neg_dGood, Inv_dGood, FiniteQDGood, StringLeavesGood
<1>5. \A n \in RawAt(1), d \in RawAt(0) : Good(m, Mod_iiFunction(m, n, d))
  BY <1>1, RawsAreInts, ModGood
<1>6. \A f \in LibmNames : Good(m, UnaryFunction(m, f))
  BY <1>1, UnaryGood
<1>7. \A cast \in CastsOfTop : Good(m, CviFunction(m, cast))
  BY <1>1, CastsAreInts, CviGood
<1> QED
  BY <1>2, <1>3, <1>4, <1>5, <1>6, <1>7, DoStep DEF NumberStep

LEMMA TrieSteps ==
    ASSUME TypeOK, TrieStep
    PROVE  Stepped
<1>1. Sound(m)
  BY MachineParts
<1>2. /\ \A a : Match(<<a>>) <=> Load(m) >= 1 /\ TagAt(m, 0) = a
      /\ \A a, b : Match(<<a, b>>) <=> Load(m) >= 2 /\ TagAt(m, 1) = a /\ TagAt(m, 0) = b
  BY MatchParts
<1>3. Match(II) =>
          /\ Good(m, Add_iiFunction(m)) /\ Good(m, Sub_iiFunction(m))
          /\ Good(m, Mul_iiFunction(m)) /\ Good(m, Max_i_iFunction(m))
          /\ Good(m, Min_i_iFunction(m)) /\ Good(m, And_iiFunction(m))
          /\ Good(m, Or_iiFunction(m)) /\ Good(m, Xor_iiFunction(m))
          /\ Good(m, Div_iiFunction(m)) /\ Good(m, Gt_iiFunction(m))
          /\ Good(m, Lt_iiFunction(m)) /\ Good(m, Geq_iiFunction(m))
          /\ Good(m, Leq_iiFunction(m))
  BY <1>1, <1>2, LongLeavesGood DEF II
<1>4. Match(DD) =>
          /\ Good(m, Add_ddFunction(m)) /\ Good(m, Sub_ddFunction(m))
          /\ Good(m, Mul_ddFunction(m)) /\ Good(m, Max_d_dFunction(m))
          /\ Good(m, Min_d_dFunction(m)) /\ Good(m, Div_ddFunction(m))
          /\ Good(m, Gt_ddFunction(m)) /\ Good(m, Lt_ddFunction(m))
          /\ Good(m, Geq_ddFunction(m)) /\ Good(m, Leq_ddFunction(m))
  BY <1>1, <1>2, DoubleLeavesGood DEF DD
<1>5. Match(DI) =>
          /\ Good(m, Add_diFunction(m)) /\ Good(m, Sub_diFunction(m))
          /\ Good(m, Mul_diFunction(m)) /\ Good(m, Max_d_iFunction(m))
          /\ Good(m, Min_d_iFunction(m)) /\ Good(m, Div_diFunction(m))
          /\ Good(m, Gt_diFunction(m)) /\ Good(m, Lt_diFunction(m))
          /\ Good(m, Geq_diFunction(m)) /\ Good(m, Leq_diFunction(m))
  BY <1>1, <1>2, DoubleLongLeavesGood DEF DI
<1>6. Match(ID) =>
          /\ Good(m, Add_idFunction(m)) /\ Good(m, Sub_idFunction(m))
          /\ Good(m, Mul_idFunction(m)) /\ Good(m, Max_i_dFunction(m))
          /\ Good(m, Min_i_dFunction(m)) /\ Good(m, Div_idFunction(m))
          /\ Good(m, Gt_idFunction(m)) /\ Good(m, Lt_idFunction(m))
          /\ Good(m, Geq_idFunction(m)) /\ Good(m, Leq_idFunction(m))
  BY <1>1, <1>2, LongDoubleLeavesGood DEF ID
<1>7. /\ Match(<<"bool", "bool">>) => Good(m, Or_bbFunction(m)) /\ Good(m, Xor_bbFunction(m))
      /\ Match(<<"bool">>) => Good(m, Not_bFunction(m))
      /\ Match(<<"integer">>) => Good(m, Not_iFunction(m))
  BY <1>1, <1>2, LogicalLeavesGood
<1>8. Good(m, UnitStep_iaFunction(m)) /\ Good(m, UnitStep_daFunction(m))
  BY <1>1, StepsGood
<1>9. /\ Match(<<"integer">>) => Good(m, UnitStep_iFunction(m)) /\ Good(m, DoubleFunction(m))
      /\ Match(<<"double">>) => /\ Good(m, UnitStep_dFunction(m)) /\ Good(m, Round_dFunction(m))
                                /\ Good(m, Floor_dFunction(m)) /\ Good(m, Ceil_dFunction(m))
  BY <1>1, <1>2, DoubleTopGood, LongTopGood
<1>10. \A cast \in CastsOfTop : Good(m, IntegerFunction(m, cast))
  BY <1>1, CastsAreInts, IntegerGood
<1>11. /\ \A name, out : Leaf(name, II, out) /\ (Match(II) => Good(m, out)) => Stepped
       /\ \A name, out : Leaf(name, DD, out) /\ (Match(DD) => Good(m, out)) => Stepped
       /\ \A name, out : Leaf(name, DI, out) /\ (Match(DI) => Good(m, out)) => Stepped
       /\ \A name, out : Leaf(name, ID, out) /\ (Match(ID) => Good(m, out)) => Stepped
       /\ \A name, sig, out : Leaf(name, sig, out) /\ (Match(sig) => Good(m, out)) => Stepped
  BY LeafStep
<1> QED
  BY <1>3, <1>4, <1>5, <1>6, <1>7, <1>8, <1>9, <1>10, <1>11, DoStep DEF TrieStep

LEMMA SavedStateSteps ==
    ASSUME TypeOK, SavedStateStep
    PROVE  Stepped
<1>1. Sound(m) /\ m.room = TRUE
  BY MachineParts
<1>2. Good(m, SaveStateFunction(m)) /\ Fair(m, CannotOpen(m))
  BY <1>1, SaveStateGood, CannotOpenFair
<1>3. ASSUME NEW name, NEW out, Do(name, out), out.m.room => Fair(m, out) PROVE Stepped
  BY <1>3 DEF Do, Leave, Going, Stepped
<1>4. CASE Match(<<"string">>) /\ Leave("savestate", SaveStateFunction(m))
           /\ \E n \in {0, Len(Image(Popped(m, 1))) - 1, Len(Image(Popped(m, 1)))} :
                  file' = SubSeq(Image(Popped(m, 1)), 1, n)
  <2>1. Load(m) \in Nat /\ Load(m) >= 1 /\ TagAt(m, 0) = "string"
    BY <1>1, <1>4, MatchParts, LoadIsNat
  <2>2. Sound(Popped(m, 1))
    <3>1. 1 \in 0..Load(m)
      BY <2>1
    <3> QED
      BY <1>1, <3>1, OkPopped DEF Ok
  <2>3. IsFile(file')
    BY <1>4, <2>2, CutIsFile
  <2>4. PICK out : out = SaveStateFunction(m)
    OBVIOUS
  <2>5. out.err = "none"
    <3>1. PICK sig : sig = <<"string">>
      OBVIOUS
    <3>2. Len(sig) = 1 /\ sig[1] = "string"
      BY <3>1
    <3>3. \A i \in 1..Len(sig) : TagAt(m, Len(sig) - i) = sig[i]
      BY <2>1, <3>2
    <3>4. ~(Load(m) < Len(sig))
      BY <2>1, <3>2
    <3>5. out = Typed(m, sig, Done(Popped(m, 1)))
      BY <2>4, <3>1 DEF SaveStateFunction
    <3>6. out = Done(Popped(m, 1))
      BY <3>3, <3>4, <3>5 DEF Typed, Needs
    <3> QED
      BY <3>6 DEF Done
  <2>6. Fair(m, out) /\ Leave("savestate", out)
    BY <1>2, <1>4, <2>4, GoodIsFair
  <2> QED
    BY <2>3, <2>5, <2>6 DEF Leave, Going, Stepped
<1>5. CASE Do("savestate", SaveStateFunction(m))
  BY <1>2, <1>5, DoStep
<1>6. CASE file # NoFile /\ Do("restorestate", RestoreStateFunction(m, file))
  <2>1. PICK out : out = RestoreStateFunction(m, file)
    OBVIOUS
  <2>2. IsFile(file)
    BY DEF TypeOK
  <2>3. out.m.room => Fair(m, out)
    BY <1>1, <1>6, <2>1, <2>2, RestoreStateFair
  <2> QED
    BY <1>3, <1>6, <2>1, <2>3
<1>7. CASE Do("savestate", CannotOpen(m)) \/ Do("restorestate", CannotOpen(m))
  BY <1>2, <1>3, <1>7
<1> QED
  BY <1>4, <1>5, <1>6, <1>7 DEF SavedStateStep

LEMMA NextIsStep ==
    ASSUME TypeOK, [Next]_vars
    PROVE  Push \/ Stepped \/ UNCHANGED vars
BY StackSteps, ContainerSteps, ArraySteps, AccessSteps, NumberSteps, TrieSteps, SavedStateSteps
   DEF Next, Quit

LEMMA CollectedSame ==
    ASSUME NEW k, NEW g, k.st = g.st, k.es = g.es, k.heap = g.heap, Collected(k)
    PROVE  Collected(g)
BY DEF Collected, Rooted, Holders

LEMMA CollectedPush ==
    ASSUME NEW k, Sound(k), NEW g, NEW t \in Toks(k.heap), g.st = Append(k.st, t), k.es = g.es,
           k.heap = g.heap, Collected(k)
    PROVE  Collected(g)
<1>1. ASSUME NEW x \in Ids, Rooted(k, x) PROVE Rooted(g, x)
  <2>1. CASE Uses(k.es, x) # {}
    BY <2>1 DEF Rooted
  <2>2. CASE Uses(k.st, x) # {}
    <3>1. PICK i \in DOMAIN k.st : Refers(k.st[i], x)
      BY <2>2 DEF Uses
    <3>2. PICK s : s = g.st
      OBVIOUS
    <3>3. PICK n \in Nat : n = Len(k.st) /\ DOMAIN k.st = 1..n /\ k.st \in Seq(Toks(k.heap))
      BY SeqParts DEF Sound
    <3>4. s \in Seq(Toks(k.heap)) /\ Len(s) = n + 1 /\ \A j \in 1..n : s[j] = k.st[j]
      BY <3>2, <3>3, SeqAppend
    <3>5. i \in DOMAIN s /\ s[i] = k.st[i]
      <4>1. DOMAIN s = 1..Len(s)
        BY <3>4, SeqParts
      <4> QED
        BY <3>1, <3>3, <3>4, <4>1
    <3>6. i \in Uses(s, x)
      BY <3>1, <3>5 DEF Uses
    <3> QED
      BY <3>2, <3>6 DEF Rooted
  <2> QED
    BY <1>1, <2>1, <2>2 DEF Rooted
<1>2. \A x \in Ids : Holders(g, x) = Holders(k, x)
  BY DEF Holders
<1> QED
  BY <1>1, <1>2 DEF Collected

\* Between two operators, every payload that is there has a token somewhere, but
\* for those whose count has been lost.
Held == Collected(m)

LEMMA StartIsSound ==
    ASSUME Init
    PROVE  TypeOK /\ Held
<1>1. PICK pr : pr = Programs[program]
  OBVIOUS
<1>2. program \in DOMAIN Programs /\ ostack \in pr.stacks /\ estack = pr.literals /\ heap = pr.heap
      /\ file = NoFile /\ last = Start /\ steps = 0
  BY <1>1 DEF Init
<1>3. /\ WellFormed(heap) /\ AreTokens(heap, estack) /\ AreTokens(heap, ostack) /\ pr.length \in Nat
      /\ Collected([st |-> ostack, es |-> estack, heap |-> heap])
  BY <1>1, <1>2, ProgramsAssumption
<1>4. TypeOK
  <2>1. last.op = "none" /\ last.err = "none"
    BY <1>2 DEF Start
  <2>2. steps \in 0..Length
    BY <1>1, <1>2, <1>3 DEF Length
  <2>3. IsFile(file)
    BY <1>2 DEF IsFile
  <2> QED
    BY <1>2, <1>3, <2>1, <2>2, <2>3 DEF TypeOK
<1>5. Held
  <2>1. PICK k : k = [st |-> ostack, es |-> estack, heap |-> heap]
    OBVIOUS
  <2>2. k.st = m.st /\ k.es = m.es /\ k.heap = m.heap
    BY <1>4, <2>1, MachineParts
  <2>3. Collected(k)
    BY <1>3, <2>1
  <2> QED
    BY <2>2, <2>3, CollectedSame DEF Held
<1> QED
  BY <1>4, <1>5

LEMMA StepIsSound ==
    ASSUME TypeOK, Stepped
    PROVE  TypeOK' /\ Held'
<1>1. PICK name, out :
          /\ name \in Ops /\ out.m.room /\ Fair(m, out)
          /\ ostack' = out.m.st /\ estack' = out.m.es /\ heap' = Released(out.m).heap
          /\ last' = [op |-> name, err |-> out.err]
          /\ steps < Length /\ steps' = steps + 1
          /\ file' = file \/ (out.err = "none" /\ IsFile(file'))
          /\ UNCHANGED program
  BY DEF Stepped
<1>2. PICK g : g = Released(out.m)
  OBVIOUS
<1>3. Sound(out.m) /\ out.err \in {"none"} \cup Errors
  BY <1>1 DEF Fair, Ok
<1>4. Sound(g) /\ g.st = ostack' /\ g.es = estack' /\ g.heap = heap' /\ Collected(g)
  BY <1>1, <1>2, <1>3, ReleasedIsSound, ReleasedIsCollected, ReleasedParts
<1>5. AreTokens(heap', ostack') /\ AreTokens(heap', estack') /\ WellFormed(heap')
  BY <1>4, TokensAreToks DEF Sound
<1>6. IsFile(file')
  BY <1>1 DEF TypeOK
<1>7. last'.op = name /\ last'.err = out.err
  BY <1>1
<1>8. Ops' = Ops /\ Length' = Length
  BY <1>1 DEF Ops, Length
<1>9. steps' \in 0..Length
  <2>1. steps \in 0..Length /\ Length \in Int
    <3>1. Length \in Nat
      BY ProgramsAssumption DEF TypeOK, Length
    <3> QED
      BY <3>1 DEF TypeOK
  <2> QED
    BY <1>1, <2>1
<1>10. TypeOK'
  BY <1>1, <1>3, <1>5, <1>6, <1>7, <1>8, <1>9 DEF TypeOK
<1>11. Held'
  <2>1. m'.st = ostack' /\ m'.es = estack' /\ m'.heap = heap'
    BY DEF m
  <2>2. PICK k : k = m'
    OBVIOUS
  <2>3. Collected(k)
    BY <1>4, <2>1, <2>2, CollectedSame
  <2> QED
    BY <2>2, <2>3 DEF Held
<1> QED
  BY <1>10, <1>11

LEMMA PushIsSound ==
    ASSUME TypeOK, Held, Push
    PROVE  TypeOK' /\ Held'
<1>1. PICK i \in DOMAIN estack : ostack' = Append(ostack, estack[i])
  BY DEF Push
<1>2. PICK t : t = estack[i]
  OBVIOUS
<1>3. ostack \in Seq(Toks(heap)) /\ estack \in Seq(Toks(heap))
  BY MachineParts DEF Sound
<1>4. t \in Toks(heap)
  BY <1>1, <1>2, <1>3, SeqParts
<1>5. ostack' \in Seq(Toks(heap)) /\ heap' = heap /\ estack' = estack /\ file' = file
      /\ program' = program
  BY <1>1, <1>2, <1>3, <1>4, SeqAppend DEF Push
<1>6. AreTokens(heap', ostack') /\ AreTokens(heap', estack') /\ WellFormed(heap')
  BY <1>3, <1>5, TokensAreToks DEF TypeOK
<1>7. last'.op = "push" /\ last'.err = "none"
  BY DEF Push
<1>8. Ops' = Ops /\ Length' = Length
  BY <1>5 DEF Ops, Length
<1>9. steps' \in 0..Length
  <2>1. steps \in 0..Length /\ Length \in Int
    <3>1. Length \in Nat
      BY ProgramsAssumption DEF TypeOK, Length
    <3> QED
      BY <3>1 DEF TypeOK
  <2> QED
    BY <2>1 DEF Push, Going
<1>10. TypeOK'
  BY <1>5, <1>6, <1>7, <1>8, <1>9 DEF TypeOK
<1>11. Held'
  <2>1. m'.st = ostack' /\ m'.es = estack' /\ m'.heap = heap'
    BY DEF m
  <2>2. PICK g : g = m'
    OBVIOUS
  <2>3. PICK k : k = m
    OBVIOUS
  <2>4. Sound(k) /\ k.st = ostack /\ k.es = estack /\ k.heap = heap /\ Collected(k)
    BY <2>3, MachineParts DEF Held
  <2>5. g.st = Append(k.st, t) /\ k.es = g.es /\ k.heap = g.heap
    BY <1>1, <1>2, <1>5, <2>1, <2>2, <2>4
  <2>6. Collected(g)
    BY <1>4, <2>4, <2>5, CollectedPush
  <2> QED
    BY <2>2, <2>6 DEF Held
<1> QED
  BY <1>10, <1>11

\* The two invariants are inductive together: what nobody holds may go because the
\* operators leave well-typed machines, and it is all gone before the next one.
THEOREM OperatorsInvariant == Spec => [](TypeOK /\ Held)
<1>1. Init => TypeOK /\ Held
  BY StartIsSound
<1>2. TypeOK /\ Held /\ [Next]_vars => (TypeOK /\ Held)'
  <2> SUFFICES ASSUME TypeOK, Held, [Next]_vars PROVE TypeOK' /\ Held'
    OBVIOUS
  <2>1. CASE Push
    BY <2>1, PushIsSound
  <2>2. CASE Stepped
    BY <2>2, StepIsSound
  <2>3. CASE UNCHANGED vars
    <3>1. TypeOK'
      BY <2>3 DEF vars, TypeOK, Ops, Length
    <3>2. Held'
      BY <2>3 DEF vars, Held, m
    <3> QED
      BY <3>1, <3>2
  <2> QED
    BY <2>1, <2>2, <2>3, NextIsStep
<1> QED
  BY <1>1, <1>2, PTL DEF Spec

\* No operator leaves a token that it should not: a composite token always refers
\* to a payload of its kind, which has not been freed, the contents of a payload are
\* such tokens, and what savestate writes is a file whose numbers restorestate can
\* follow.
THEOREM OperandsAreTyped == Spec => []TypeOK
BY OperatorsInvariant, PTL

LEMMA ReleasedStaysNarrowed ==
    ASSUME NEW k, NEW out, Fair(k, out), NEW x \in Ids
    PROVE  StaysNarrowed(k.heap[x], Released(out.m).heap[x])
<1>1. Sound(out.m) /\ Kept(k.heap, out.m.heap)
  BY DEF Fair, Ok
<1>2. Released(out.m).heap[x] = IF x \in Dead(out.m) THEN Free ELSE out.m.heap[x]
  BY <1>1, ReleasedParts
<1>3. CASE x \in Dead(out.m)
  BY <1>2, <1>3 DEF Free, StaysNarrowed
<1>4. CASE x \notin Dead(out.m)
  BY <1>1, <1>2, <1>4 DEF Kept
<1> QED
  BY <1>3, <1>4

LEMMA SameStaysNarrowed ==
    ASSUME NEW h, WellFormed(h), NEW x \in Ids
    PROVE  StaysNarrowed(h[x], h[x])
BY KeptSame DEF Kept

LEMMA StepStaysNarrowed ==
    ASSUME TypeOK, [Next]_vars, NEW x \in Ids
    PROVE  StaysNarrowed(heap[x], heap'[x])
<1>1. CASE Push \/ UNCHANGED vars
  <2>1. heap' = heap
    BY <1>1 DEF Push, vars
  <2> QED
    BY <2>1, SameStaysNarrowed DEF TypeOK
<1>2. CASE Stepped
  <2>1. PICK name, out : Fair(m, out) /\ heap' = Released(out.m).heap
    BY <1>2 DEF Stepped
  <2> QED
    BY <2>1, ReleasedStaysNarrowed, MachineParts
<1> QED
  BY <1>1, <1>2, NextIsStep

\* Whichever operator reaches a payload, by whichever tag, path or shared token: its
\* access state only narrows, and one that may not be written keeps its contents.
THEOREM NarrowedStaysFrozen == Spec => NarrowedIsFrozen
<1>1. TypeOK /\ [Next]_vars => [\A x \in Ids : StaysNarrowed(heap[x], heap'[x])]_vars
  BY StepStaysNarrowed
<1> QED
  BY <1>1, OperandsAreTyped, PTL DEF Spec, NarrowedIsFrozen

Retained ==
    /\ UNCHANGED <<estack, file>>
    /\ LET left == IF last'.err = "BadIO" THEN Popped(m, 1) ELSE m
       IN  /\ ostack' = left.st
           /\ \A x \in Ids : heap[x].kind # "free" => heap'[x] = Released(left).heap[x]

LEMMA FailureRetains ==
    ASSUME TypeOK, Stepped, last'.err # "none"
    PROVE  Retained
<1>1. PICK name, out :
          /\ Fair(m, out)
          /\ ostack' = out.m.st /\ estack' = out.m.es /\ heap' = Released(out.m).heap
          /\ last' = [op |-> name, err |-> out.err]
          /\ file' = file \/ (out.err = "none" /\ IsFile(file'))
  BY DEF Stepped
<1>2. last'.err = out.err /\ file' = file
  BY <1>1
<1>3. PICK left : left = IF last'.err = "BadIO" THEN Popped(m, 1) ELSE m
  OBVIOUS
<1>4. estack' = estack /\ ostack' = left.st
      /\ \A x \in Ids : heap[x].kind # "free" => heap'[x] = Released(left).heap[x]
  <2>1. CASE out.err # "BadIO"
    <3>1. out.m = m /\ left = m
      BY <1>1, <1>2, <1>3, <2>1 DEF Fair
    <3> QED
      BY <1>1, <3>1, MachineParts
  <2>2. CASE out.err = "BadIO"
    <3>1. BadEnd(m, out.m) /\ Sound(out.m) /\ left = Popped(m, 1)
      BY <1>1, <1>2, <1>3, <2>2 DEF Fair, Ok
    <3>2. Sound(left) /\ left.heap = m.heap /\ left.es = m.es
      <4>1. 1 \in 0..Load(m)
        BY <3>1, MachineParts, LoadIsNat DEF BadEnd
      <4> QED
        BY <3>1, <4>1, MachineParts, OkPopped DEF Ok
    <3>3. out.m.st = left.st /\ out.m.es = left.es
      BY <3>1, <3>2 DEF BadEnd
    <3>4. PICK d : Added(left.heap, out.m.heap, d)
      BY <3>1, <3>2 DEF BadEnd
    <3>5. \A x \in Ids : heap[x].kind # "free" => Released(out.m).heap[x] = Released(left).heap[x]
      <4>1. PICK g : g = out.m
        OBVIOUS
      <4>2. /\ Sound(left) /\ Sound(g) /\ g.st = left.st /\ g.es = left.es
            /\ Added(left.heap, g.heap, d)
        BY <3>1, <3>2, <3>3, <3>4, <4>1
      <4>3. \A x \in Ids : left.heap[x].kind # "free" => Released(g).heap[x] = Released(left).heap[x]
        BY <4>2, NewcomersChangeNothing
      <4>4. left.heap = heap
        BY <3>2, MachineParts
      <4> QED
        BY <4>1, <4>3, <4>4
    <3> QED
      BY <1>1, <3>2, <3>3, <3>5, MachineParts
  <2> QED
    BY <2>1, <2>2
<1> QED
  BY <1>2, <1>3, <1>4 DEF Retained

\* An operator that raises an error has changed nothing, and where a file cannot be
\* opened or is not whole, only its name is gone.
THEOREM FailureKeepsOperands == Spec => FailureLeavesOperands
<1>1. TypeOK /\ [Next]_vars => [last'.err # "none" => Retained]_vars
  <2> SUFFICES ASSUME TypeOK, [Next]_vars, vars' # vars, last'.err # "none" PROVE Retained
    OBVIOUS
  <2>1. ~Push
    BY DEF Push
  <2> QED
    BY <2>1, NextIsStep, FailureRetains DEF vars
<1> QED
  BY <1>1, OperandsAreTyped, PTL DEF Spec, FailureLeavesOperands, Retained

-----------------------------------------------------------------------------
(* The compact operators and their leaves *)

\* Two doubles of which none is the smaller one are the same, but for NaN.
LEMMA OrderIsTotal ==
    ASSUME NEW x \in DoubleValues, NEW y \in DoubleValues, x # NaN, y # NaN,
           ~Smaller(x, y), ~Smaller(y, x)
    PROVE  x = y
<1>1. CASE IsFinite(x) /\ IsFinite(y)
  <2>1. x[2] \in Int /\ y[2] \in Int /\ x = Fin(x[2]) /\ y = Fin(y[2])
    BY <1>1, DoubleParts
  <2>2. ~(x[2] < y[2]) /\ ~(y[2] < x[2])
    BY <1>1 DEF Smaller
  <2>3. x[2] = y[2]
    BY <2>1, <2>2
  <2> QED
    BY <2>1, <2>3
<1>2. CASE ~(IsFinite(x) /\ IsFinite(y))
  <2>1. x \in {Inf(1), Inf(-1)} \/ y \in {Inf(1), Inf(-1)}
    BY <1>2, DoubleParts
  <2>2. x # y => ~(x = Inf(-1) \/ y = Inf(1)) /\ ~(y = Inf(-1) \/ x = Inf(1))
    BY <1>2 DEF Smaller
  <2> QED
    BY <2>1, <2>2
<1> QED
  BY <1>1, <1>2
\* What the compact operators do with two integers.
LEMMA ArithmeticOfLongs ==
    ASSUME NEW k, NEW a, NEW b, Load(k) >= 2, TagAt(k, 1) = "integer", TagAt(k, 0) = "integer"
    PROVE  Arithmetic(k, a, b) = Needs(k, 2, a)
<1>1. IsNumber(At(k, 1)) /\ IsNumber(At(k, 0))
  BY DEF IsNumber, NumberTags, TagAt
<1> QED
  BY <1>1 DEF Arithmetic, Unless

LEMMA CompareOfLongs ==
    ASSUME NEW k, NEW a, NEW b, NEW c, Load(k) >= 2,
           TagAt(k, 1) = "integer", TagAt(k, 0) = "integer"
    PROVE  Compare(k, a, b, c) = Needs(k, 2, Holds(k, a))
<1>1. PICK h : h = Holds(k, a)
  OBVIOUS
<1>2. PICK g : g = Holds(k, b)
  OBVIOUS
<1>3. Compare(k, a, b, c) = Needs(k, 2, Arithmetic(k, h, g))
  BY <1>1, <1>2 DEF Compare
<1>4. Arithmetic(k, h, g) = Needs(k, 2, h)
  BY ArithmeticOfLongs
<1> QED
  BY <1>1, <1>3, <1>4 DEF Needs

LEMMA TypedPair ==
    ASSUME NEW k, NEW t, NEW u, NEW a, Load(k) >= 2, TagAt(k, 1) = t, TagAt(k, 0) = u
    PROVE  Typed(k, <<t, u>>, a) = Needs(k, 2, a)
<1>1. PICK sig : sig = <<t, u>>
  OBVIOUS
<1>2. Len(sig) = 2 /\ sig[1] = t /\ sig[2] = u
  BY <1>1
<1>3. ~\E i \in 1..Len(sig) : sig[i] # "any" /\ TagAt(k, Len(sig) - i) # sig[i]
  <2>1. \A i \in 1..Len(sig) : i = 1 \/ i = 2
    BY <1>2
  <2>2. 2 - 1 = 1 /\ 2 - 2 = 0
    OBVIOUS
  <2> QED
    BY <1>2, <2>1, <2>2
<1> QED
  BY <1>1, <1>2, <1>3 DEF Typed, Needs

LEMMA OfLongs ==
    ASSUME NEW k, Load(k) >= 2, TagAt(k, 1) = "integer", TagAt(k, 0) = "integer"
    PROVE  /\ AddFunction(k) = Add_iiFunction(k) /\ SubFunction(k) = Sub_iiFunction(k)
           /\ MulFunction(k) = Mul_iiFunction(k) /\ DivFunction(k) = Div_iiFunction(k)
           /\ GtFunction(k) = Gt_iiFunction(k) /\ LtFunction(k) = Lt_iiFunction(k)
           /\ GeqFunction(k) = Geq_iiFunction(k) /\ LeqFunction(k) = Leq_iiFunction(k)
           /\ AndPolyFunction(k) = And_iiFunction(k) /\ OrPolyFunction(k) = Or_iiFunction(k)
           /\ XorPolyFunction(k) = Xor_iiFunction(k) /\ NotPolyFunction(k) = Not_iFunction(k)
<1>1. \A a, b : Arithmetic(k, a, b) = Needs(k, 2, a)
  BY ArithmeticOfLongs
<1>4. /\ AddFunction(k) = Add_iiFunction(k) /\ SubFunction(k) = Sub_iiFunction(k)
      /\ MulFunction(k) = Mul_iiFunction(k) /\ DivFunction(k) = Div_iiFunction(k)
  BY <1>1, Zenon DEF AddFunction, SubFunction, MulFunction, DivFunction,
         Add_iiFunction, Sub_iiFunction, Mul_iiFunction, Div_iiFunction
<1>5. \A a, b, c : Compare(k, a, b, c) = Needs(k, 2, Holds(k, a))
  BY CompareOfLongs
<1>2. /\ GtFunction(k) = Gt_iiFunction(k) /\ LtFunction(k) = Lt_iiFunction(k)
      /\ GeqFunction(k) = Geq_iiFunction(k) /\ LeqFunction(k) = Leq_iiFunction(k)
  BY <1>5, Zenon DEF GtFunction, LtFunction, GeqFunction, LeqFunction,
         Gt_iiFunction, Lt_iiFunction, Geq_iiFunction, Leq_iiFunction
<1>3. /\ AndPolyFunction(k) = And_iiFunction(k) /\ OrPolyFunction(k) = Or_iiFunction(k)
      /\ XorPolyFunction(k) = Xor_iiFunction(k) /\ NotPolyFunction(k) = Not_iFunction(k)
  BY DEF Logical, AndPolyFunction, OrPolyFunction, XorPolyFunction, NotPolyFunction,
         And_iiFunction, Or_iiFunction, Xor_iiFunction, Not_iFunction
<1> QED
  BY <1>2, <1>3, <1>4

\* And with two numbers of which one is a double.
LEMMA ArithmeticOfDoubles ==
    ASSUME NEW k, NEW a, NEW b, Load(k) >= 2, IsNumber(At(k, 1)), IsNumber(At(k, 0)),
           ~(TagAt(k, 1) = "integer" /\ TagAt(k, 0) = "integer")
    PROVE  Arithmetic(k, a, b) = Needs(k, 2, b)
BY DEF Arithmetic, Unless

LEMMA CompareOfDoubles ==
    ASSUME NEW k, NEW a, NEW b, NEW c, Load(k) >= 2, IsNumber(At(k, 1)), IsNumber(At(k, 0)),
           ~(TagAt(k, 1) = "integer" /\ TagAt(k, 0) = "integer")
    PROVE  Compare(k, a, b, c) = Needs(k, 2, Holds(k, b))
<1>1. PICK h : h = Holds(k, a)
  OBVIOUS
<1>2. PICK g : g = Holds(k, b)
  OBVIOUS
<1>3. ~(TagAt(k, 1) = "string" /\ TagAt(k, 0) = "string")
  BY DEF IsNumber, NumberTags, TagAt
<1>4. Compare(k, a, b, c) = Needs(k, 2, Arithmetic(k, h, g))
  BY <1>1, <1>2, <1>3 DEF Compare
<1>5. Arithmetic(k, h, g) = Needs(k, 2, g)
  BY ArithmeticOfDoubles
<1> QED
  BY <1>2, <1>4, <1>5 DEF Needs

\* A compact operator makes doubles of its operands and does with them what a
\* leaf does.
LEMMA OfDoubles ==
    ASSUME NEW k, NEW x, NEW y, Load(k) >= 2, IsNumber(At(k, 1)), IsNumber(At(k, 0)),
           ~(TagAt(k, 1) = "integer" /\ TagAt(k, 0) = "integer"),
           DLeft(k) = x, DRight(k) = y
    PROVE  /\ AddFunction(k) = Needs(k, 2, Gives(k, Dbl(Plus(x, y))))
           /\ SubFunction(k) = Needs(k, 2, Gives(k, Dbl(Minus(x, y))))
           /\ MulFunction(k) = Needs(k, 2, Gives(k, Dbl(Times(x, y))))
           /\ DivFunction(k) = Needs(k, 2, Unless(k, y = Zero, "DivisionByZero",
                                               Gives(k, Dbl(Over(x, y)))))
           /\ MaxFunction(k) = Needs(k, 2, Gives(k, Dbl(DGreatest(x, y))))
           /\ MinFunction(k) = Needs(k, 2, Gives(k, Dbl(DLeast(x, y))))
           /\ GtFunction(k) = Needs(k, 2, Holds(k, Smaller(y, x)))
           /\ LtFunction(k) = Needs(k, 2, Holds(k, Smaller(x, y)))
           /\ GeqFunction(k) = Needs(k, 2, Holds(k, DAtMost(y, x)))
           /\ LeqFunction(k) = Needs(k, 2, Holds(k, DAtMost(x, y)))
           /\ PowFunction(k) = Needs(k, 2, Unless(k, x = Zero /\ Smaller(y, Zero), "RangeCheck",
                                               Gives(k, Dbl(Libm("pow", <<x, y>>)))))
<1>1. \A a, b : Arithmetic(k, a, b) = Needs(k, 2, b)
  BY ArithmeticOfDoubles
<1>2. \A a, b, c : Compare(k, a, b, c) = Needs(k, 2, Holds(k, b))
  BY CompareOfDoubles
<1>3. /\ AddFunction(k) = Needs(k, 2, Gives(k, Dbl(Plus(x, y))))
      /\ SubFunction(k) = Needs(k, 2, Gives(k, Dbl(Minus(x, y))))
      /\ MulFunction(k) = Needs(k, 2, Gives(k, Dbl(Times(x, y))))
      /\ MaxFunction(k) = Needs(k, 2, Gives(k, Dbl(DGreatest(x, y))))
      /\ MinFunction(k) = Needs(k, 2, Gives(k, Dbl(DLeast(x, y))))
  BY <1>1, Zenon DEF AddFunction, SubFunction, MulFunction, MaxFunction, MinFunction
<1>4. DivFunction(k) = Needs(k, 2, Unless(k, y = Zero, "DivisionByZero", Gives(k, Dbl(Over(x, y)))))
  BY <1>1, Zenon DEF DivFunction, DivDoubles
<1>5. /\ GtFunction(k) = Needs(k, 2, Holds(k, Smaller(y, x)))
      /\ LtFunction(k) = Needs(k, 2, Holds(k, Smaller(x, y)))
      /\ GeqFunction(k) = Needs(k, 2, Holds(k, DAtMost(y, x)))
      /\ LeqFunction(k) = Needs(k, 2, Holds(k, DAtMost(x, y)))
  BY <1>2, Zenon DEF GtFunction, LtFunction, GeqFunction, LeqFunction
<1>6. PowFunction(k) = Needs(k, 2, Unless(k, x = Zero /\ Smaller(y, Zero), "RangeCheck",
                                       Gives(k, Dbl(Libm("pow", <<x, y>>)))))
  <2>1. PICK a : a = Unless(k, x = Zero /\ Smaller(y, Zero), "RangeCheck",
                            Gives(k, Dbl(Libm("pow", <<x, y>>))))
    OBVIOUS
  <2>2. PowFunction(k) = Needs(k, 2, Unless(k, ~IsNumber(At(k, 1)) \/ ~IsNumber(At(k, 0)),
                                            "ArgumentType", a))
    BY <2>1, Zenon DEF PowFunction
  <2> QED
    BY <2>1, <2>2 DEF Unless
<1> QED
  BY <1>3, <1>4, <1>5, <1>6

\* Of two doubles that are not NaN it does not matter which one is looked at first.
LEMMA EndsTurn ==
    ASSUME NEW x \in DoubleValues, NEW y \in DoubleValues, x # NaN, y # NaN
    PROVE  DGreatest(x, y) = DGreatest(y, x) /\ DLeast(x, y) = DLeast(y, x)
<1>1. ~(Smaller(x, y) /\ Smaller(y, x))
  <2>1. CASE IsFinite(x) /\ IsFinite(y)
    <3>1. x[2] \in Int /\ y[2] \in Int
      BY DoubleParts
    <3>2. Smaller(x, y) => x[2] < y[2]
      BY <2>1, Zenon DEF Smaller
    <3>3. Smaller(y, x) => y[2] < x[2]
      BY <2>1, Zenon DEF Smaller
    <3> QED
      BY <3>1, <3>2, <3>3
  <2>2. CASE ~(IsFinite(x) /\ IsFinite(y))
    BY <2>2 DEF Smaller, Inf
  <2> QED
    BY <2>1, <2>2
<1>2. ~Smaller(x, y) /\ ~Smaller(y, x) => x = y
  BY OrderIsTotal
<1> QED
  BY <1>1, <1>2 DEF DGreatest, DLeast

\* Of two doubles the leaf is the compact operator.
LEMMA LeavesOfDoubles ==
    ASSUME NEW k, Sound(k), Load(k) >= 2, TagAt(k, 1) = "double", TagAt(k, 0) = "double"
    PROVE  /\ AddFunction(k) = Add_ddFunction(k) /\ SubFunction(k) = Sub_ddFunction(k)
           /\ MulFunction(k) = Mul_ddFunction(k) /\ DivFunction(k) = Div_ddFunction(k)
           /\ DLeft(k) = NaN \/ DRight(k) = NaN
              \/ (MaxFunction(k) = Max_d_dFunction(k) /\ MinFunction(k) = Min_d_dFunction(k))
           /\ GtFunction(k) = Gt_ddFunction(k) /\ LtFunction(k) = Lt_ddFunction(k)
           /\ GeqFunction(k) = Geq_ddFunction(k) /\ LeqFunction(k) = Leq_ddFunction(k)
           /\ PowFunction(k) = Pow_ddFunction(k)
<1>1. PICK x : x = Left(k)
  OBVIOUS
<1>2. PICK y : y = Right(k)
  OBVIOUS
<1>3. /\ IsNumber(At(k, 1)) /\ IsNumber(At(k, 0))
      /\ ~(TagAt(k, 1) = "integer" /\ TagAt(k, 0) = "integer")
      /\ DLeft(k) = x /\ DRight(k) = y
  BY <1>1, <1>2 DEF DLeft, DRight, Left, Right, AsDouble, DataAt, TagAt, IsNumber, NumberTags
<1>4. x \in DoubleValues /\ y \in DoubleValues
  BY <1>1, <1>2, BothOperands
<1>5. /\ AddFunction(k) = Needs(k, 2, Gives(k, Dbl(Plus(x, y))))
      /\ SubFunction(k) = Needs(k, 2, Gives(k, Dbl(Minus(x, y))))
      /\ MulFunction(k) = Needs(k, 2, Gives(k, Dbl(Times(x, y))))
      /\ DivFunction(k) = Needs(k, 2, Unless(k, y = Zero, "DivisionByZero",
                                          Gives(k, Dbl(Over(x, y)))))
      /\ MaxFunction(k) = Needs(k, 2, Gives(k, Dbl(DGreatest(x, y))))
      /\ MinFunction(k) = Needs(k, 2, Gives(k, Dbl(DLeast(x, y))))
      /\ GtFunction(k) = Needs(k, 2, Holds(k, Smaller(y, x)))
      /\ LtFunction(k) = Needs(k, 2, Holds(k, Smaller(x, y)))
      /\ GeqFunction(k) = Needs(k, 2, Holds(k, DAtMost(y, x)))
      /\ LeqFunction(k) = Needs(k, 2, Holds(k, DAtMost(x, y)))
      /\ PowFunction(k) = Needs(k, 2, Unless(k, x = Zero /\ Smaller(y, Zero), "RangeCheck",
                                          Gives(k, Dbl(Libm("pow", <<x, y>>)))))
  BY <1>3, OfDoubles
<1>6. /\ AddFunction(k) = Add_ddFunction(k) /\ SubFunction(k) = Sub_ddFunction(k)
      /\ MulFunction(k) = Mul_ddFunction(k) /\ DivFunction(k) = Div_ddFunction(k)
  BY <1>1, <1>2, <1>5, Zenon
     DEF Add_ddFunction, Sub_ddFunction, Mul_ddFunction, Div_ddFunction
<1>7. /\ GtFunction(k) = Gt_ddFunction(k) /\ LtFunction(k) = Lt_ddFunction(k)
      /\ GeqFunction(k) = Geq_ddFunction(k) /\ LeqFunction(k) = Leq_ddFunction(k)
  BY <1>1, <1>2, <1>5, Zenon
     DEF Gt_ddFunction, Lt_ddFunction, Geq_ddFunction, Leq_ddFunction
<1>8. ASSUME x # NaN, y # NaN
      PROVE  MaxFunction(k) = Max_d_dFunction(k) /\ MinFunction(k) = Min_d_dFunction(k)
  <2>1. DGreatest(x, y) = DGreatest(y, x) /\ DLeast(x, y) = DLeast(y, x)
    BY <1>4, <1>8, EndsTurn
  <2> QED
    BY <1>1, <1>2, <1>5, <2>1, Zenon DEF Max_d_dFunction, Min_d_dFunction
<1>9. PowFunction(k) = Pow_ddFunction(k)
  <2>1. \A a : Typed(k, <<"double", "double">>, a) = Needs(k, 2, a)
    BY TypedPair
  <2> QED
    BY <1>1, <1>2, <1>5, <2>1, Zenon DEF Pow_ddFunction
<1> QED
  BY <1>3, <1>6, <1>7, <1>8, <1>9

\* Of a double and a long: the leaf looks at the sign of the long, the compact
\* operator at that of the double it becomes.
LEMMA LeavesOfDoubleAndLong ==
    ASSUME NEW k, Sound(k), Load(k) >= 2, TagAt(k, 1) = "double", TagAt(k, 0) = "integer"
    PROVE  /\ AddFunction(k) = Add_diFunction(k) /\ SubFunction(k) = Sub_diFunction(k)
           /\ MulFunction(k) = Mul_diFunction(k) /\ DivFunction(k) = Div_diFunction(k)
           /\ DLeft(k) = NaN \/ DRight(k) = NaN
              \/ (MaxFunction(k) = Max_d_iFunction(k) /\ MinFunction(k) = Min_d_iFunction(k))
           /\ GtFunction(k) = Gt_diFunction(k) /\ LtFunction(k) = Lt_diFunction(k)
           /\ GeqFunction(k) = Geq_diFunction(k) /\ LeqFunction(k) = Leq_diFunction(k)
           /\ PowFunction(k) = Pow_diFunction(k)
<1>1. PICK x : x = Left(k)
  OBVIOUS
<1>2. PICK y : y = FromLong(Right(k))
  OBVIOUS
<1>3. /\ IsNumber(At(k, 1)) /\ IsNumber(At(k, 0))
      /\ ~(TagAt(k, 1) = "integer" /\ TagAt(k, 0) = "integer")
      /\ DLeft(k) = x /\ DRight(k) = y
  BY <1>1, <1>2 DEF DLeft, DRight, Left, Right, AsDouble, DataAt, TagAt, IsNumber, NumberTags
<1>4. x \in DoubleValues /\ y \in DoubleValues
  BY <1>1, <1>2, BothOperands
<1>5. /\ AddFunction(k) = Needs(k, 2, Gives(k, Dbl(Plus(x, y))))
      /\ SubFunction(k) = Needs(k, 2, Gives(k, Dbl(Minus(x, y))))
      /\ MulFunction(k) = Needs(k, 2, Gives(k, Dbl(Times(x, y))))
      /\ DivFunction(k) = Needs(k, 2, Unless(k, y = Zero, "DivisionByZero",
                                          Gives(k, Dbl(Over(x, y)))))
      /\ MaxFunction(k) = Needs(k, 2, Gives(k, Dbl(DGreatest(x, y))))
      /\ MinFunction(k) = Needs(k, 2, Gives(k, Dbl(DLeast(x, y))))
      /\ GtFunction(k) = Needs(k, 2, Holds(k, Smaller(y, x)))
      /\ LtFunction(k) = Needs(k, 2, Holds(k, Smaller(x, y)))
      /\ GeqFunction(k) = Needs(k, 2, Holds(k, DAtMost(y, x)))
      /\ LeqFunction(k) = Needs(k, 2, Holds(k, DAtMost(x, y)))
      /\ PowFunction(k) = Needs(k, 2, Unless(k, x = Zero /\ Smaller(y, Zero), "RangeCheck",
                                          Gives(k, Dbl(Libm("pow", <<x, y>>)))))
  BY <1>3, OfDoubles
<1>6. /\ AddFunction(k) = Add_diFunction(k) /\ SubFunction(k) = Sub_diFunction(k)
      /\ MulFunction(k) = Mul_diFunction(k)
  BY <1>1, <1>2, <1>5, Zenon DEF Add_diFunction, Sub_diFunction, Mul_diFunction
<1>7. /\ GtFunction(k) = Gt_diFunction(k) /\ LtFunction(k) = Lt_diFunction(k)
      /\ GeqFunction(k) = Geq_diFunction(k) /\ LeqFunction(k) = Leq_diFunction(k)
  BY <1>1, <1>2, <1>5, Zenon
     DEF Gt_diFunction, Lt_diFunction, Geq_diFunction, Leq_diFunction
<1>8. ASSUME x # NaN, y # NaN
      PROVE  MaxFunction(k) = Max_d_iFunction(k) /\ MinFunction(k) = Min_d_iFunction(k)
  <2>1. DGreatest(x, y) = DGreatest(y, x) /\ DLeast(x, y) = DLeast(y, x)
    BY <1>4, <1>8, EndsTurn
  <2> QED
    BY <1>1, <1>2, <1>5, <2>1, Zenon DEF Max_d_iFunction, Min_d_iFunction
<1>9. Right(k) \in Int
  BY BothOperands
<1>10. /\ Right(k) = 0 <=> y = Zero
       /\ Right(k) < 0 <=> Smaller(y, Zero)
  <2>1. CASE Right(k) = 0
    <3>1. y = Zero
      BY <1>2, <2>1, ZeroBecomesZero, Zenon
    <3>2. ~Smaller(Zero, Zero)
      BY DEF Smaller, Zero, Fin, IsFinite, NaN
    <3> QED
      BY <2>1, <3>1, <3>2
  <2>2. CASE Right(k) # 0
    BY <1>2, <1>9, <2>2, FromLongKeepsSign
  <2> QED
    BY <2>1, <2>2
<1>11. DivFunction(k) = Div_diFunction(k)
  <2>1. PICK g : g = Gives(k, Dbl(Over(x, y)))
    OBVIOUS
  <2>2. Div_diFunction(k) = Needs(k, 2, Unless(k, Right(k) = 0, "DivisionByZero", g))
    BY <1>1, <1>2, <2>1, Zenon DEF Div_diFunction
  <2>3. DivFunction(k) = Needs(k, 2, Unless(k, y = Zero, "DivisionByZero", g))
    BY <1>5, <2>1, Zenon
  <2> QED
    BY <1>10, <2>2, <2>3 DEF Unless
<1>12. PowFunction(k) = Pow_diFunction(k)
  <2>1. \A a : Typed(k, <<"double", "integer">>, a) = Needs(k, 2, a)
    BY TypedPair
  <2>2. PICK g : g = Gives(k, Dbl(Libm("pow", <<x, y>>)))
    OBVIOUS
  <2>3. Pow_diFunction(k) =
            Needs(k, 2, Unless(k, x = Zero /\ Right(k) < 0, "RangeCheck", g))
    BY <1>1, <1>2, <2>1, <2>2, Zenon DEF Pow_diFunction
  <2>4. PowFunction(k) = Needs(k, 2, Unless(k, x = Zero /\ Smaller(y, Zero), "RangeCheck", g))
    BY <1>5, <2>2, Zenon
  <2> QED
    BY <1>10, <2>3, <2>4 DEF Unless
<1> QED
  BY <1>3, <1>6, <1>7, <1>8, <1>11, <1>12

\* Of a long and a double.
LEMMA LeavesOfLongAndDouble ==
    ASSUME NEW k, Sound(k), Load(k) >= 2, TagAt(k, 1) = "integer", TagAt(k, 0) = "double"
    PROVE  /\ AddFunction(k) = Add_idFunction(k) /\ SubFunction(k) = Sub_idFunction(k)
           /\ MulFunction(k) = Mul_idFunction(k) /\ DivFunction(k) = Div_idFunction(k)
           /\ DLeft(k) = NaN \/ DRight(k) = NaN
              \/ (MaxFunction(k) = Max_i_dFunction(k) /\ MinFunction(k) = Min_i_dFunction(k))
           /\ GtFunction(k) = Gt_idFunction(k) /\ LtFunction(k) = Lt_idFunction(k)
           /\ GeqFunction(k) = Geq_idFunction(k) /\ LeqFunction(k) = Leq_idFunction(k)
<1>1. PICK x : x = FromLong(Left(k))
  OBVIOUS
<1>2. PICK y : y = Right(k)
  OBVIOUS
<1>3. /\ IsNumber(At(k, 1)) /\ IsNumber(At(k, 0))
      /\ ~(TagAt(k, 1) = "integer" /\ TagAt(k, 0) = "integer")
      /\ DLeft(k) = x /\ DRight(k) = y
  BY <1>1, <1>2 DEF DLeft, DRight, Left, Right, AsDouble, DataAt, TagAt, IsNumber, NumberTags
<1>4. x \in DoubleValues /\ y \in DoubleValues
  BY <1>1, <1>2, BothOperands
<1>5. /\ AddFunction(k) = Needs(k, 2, Gives(k, Dbl(Plus(x, y))))
      /\ SubFunction(k) = Needs(k, 2, Gives(k, Dbl(Minus(x, y))))
      /\ MulFunction(k) = Needs(k, 2, Gives(k, Dbl(Times(x, y))))
      /\ DivFunction(k) = Needs(k, 2, Unless(k, y = Zero, "DivisionByZero",
                                          Gives(k, Dbl(Over(x, y)))))
      /\ MaxFunction(k) = Needs(k, 2, Gives(k, Dbl(DGreatest(x, y))))
      /\ MinFunction(k) = Needs(k, 2, Gives(k, Dbl(DLeast(x, y))))
      /\ GtFunction(k) = Needs(k, 2, Holds(k, Smaller(y, x)))
      /\ LtFunction(k) = Needs(k, 2, Holds(k, Smaller(x, y)))
      /\ GeqFunction(k) = Needs(k, 2, Holds(k, DAtMost(y, x)))
      /\ LeqFunction(k) = Needs(k, 2, Holds(k, DAtMost(x, y)))
      /\ PowFunction(k) = Needs(k, 2, Unless(k, x = Zero /\ Smaller(y, Zero), "RangeCheck",
                                          Gives(k, Dbl(Libm("pow", <<x, y>>)))))
  BY <1>3, OfDoubles
<1>6. /\ AddFunction(k) = Add_idFunction(k) /\ SubFunction(k) = Sub_idFunction(k)
      /\ MulFunction(k) = Mul_idFunction(k) /\ DivFunction(k) = Div_idFunction(k)
  BY <1>1, <1>2, <1>5, Zenon DEF Add_idFunction, Sub_idFunction, Mul_idFunction, Div_idFunction
<1>7. /\ GtFunction(k) = Gt_idFunction(k) /\ LtFunction(k) = Lt_idFunction(k)
      /\ GeqFunction(k) = Geq_idFunction(k) /\ LeqFunction(k) = Leq_idFunction(k)
  BY <1>1, <1>2, <1>5, Zenon
     DEF Gt_idFunction, Lt_idFunction, Geq_idFunction, Leq_idFunction
<1>8. ASSUME x # NaN, y # NaN
      PROVE  MaxFunction(k) = Max_i_dFunction(k) /\ MinFunction(k) = Min_i_dFunction(k)
  <2>1. DGreatest(x, y) = DGreatest(y, x) /\ DLeast(x, y) = DLeast(y, x)
    BY <1>4, <1>8, EndsTurn
  <2> QED
    BY <1>1, <1>2, <1>5, <2>1, Zenon DEF Max_i_dFunction, Min_i_dFunction
<1> QED
  BY <1>3, <1>6, <1>7, <1>8

\* Of two longs; what does not depend on their sizes is above.
LEMMA EndsOfLongs ==
    ASSUME NEW k, Sound(k), Load(k) >= 2, TagAt(k, 1) = "integer", TagAt(k, 0) = "integer"
    PROVE  MaxFunction(k) = Max_i_iFunction(k) /\ MinFunction(k) = Min_i_iFunction(k)
<1>1. PICK x \in Int, y \in Int : x = Left(k) /\ y = Right(k)
  BY BothOperands
<1>2. Greatest(x, y) = Greatest(y, x) /\ Least(x, y) = Least(y, x)
  BY DEF Greatest, Least
<1>3. \A a, b : Arithmetic(k, a, b) = Needs(k, 2, a)
  BY ArithmeticOfLongs
<1> QED
  BY <1>1, <1>2, <1>3, Zenon DEF MaxFunction, MinFunction, Max_i_iFunction, Min_i_iFunction

LEMMA TypedDouble ==
    ASSUME NEW k, NEW a, Sound(k), Load(k) >= 1, TagAt(k, 0) = "double"
    PROVE  Typed(k, <<"double">>, a) = a
<1>1. PICK sig : sig = <<"double">>
  OBVIOUS
<1>2. Len(sig) = 1 /\ sig[1] = "double" /\ (\A i \in 1..Len(sig) : i = 1)
  BY <1>1
<1>3. ~\E i \in 1..Len(sig) : sig[i] # "any" /\ TagAt(k, Len(sig) - i) # sig[i]
  <2>1. 1 - 1 = 0
    OBVIOUS
  <2> QED
    BY <1>2, <2>1
<1>4. ~(Load(k) < 1)
  BY LoadIsNat
<1> QED
  BY <1>1, <1>2, <1>3, <1>4 DEF Typed, Needs

LEMMA UnlessRaises ==
    ASSUME NEW k, NEW bad, NEW a, NEW g, g = Unless(k, bad, "RangeCheck", a), a.err = "none"
    PROVE  Unchecked(a, g)
<1>1. bad => g.err = "RangeCheck"
  BY DEF Unless, Raise
<1>2. ~bad => g = a
  BY DEF Unless
<1> QED
  BY <1>1, <1>2 DEF Unchecked

\* Of one double.  sqrt, ln and log are those of their leaves where these do not
\* raise RangeCheck, and raise nothing where they do.
LEMMA LeavesOfDouble ==
    ASSUME NEW k, Sound(k), Load(k) >= 1, TagAt(k, 0) = "double"
    PROVE  /\ SqrFunction(k) = Sqr_dFunction(k)
           /\ \A f \in {"sin", "asin", "cos", "acos", "exp"} : UnaryFunction(k, f) = TrigLeaf(k, f)
           /\ Unchecked(SqrtFunction(k), Sqrt_dFunction(k))
           /\ Unchecked(UnaryFunction(k, "ln"), Ln_dFunction(k))
           /\ Unchecked(UnaryFunction(k, "log"), Log_dFunction(k))
<1>1. PICK y : y = Right(k)
  OBVIOUS
<1>2. IsNumber(At(k, 0)) /\ DRight(k) = y
  BY <1>1 DEF DRight, Right, AsDouble, DataAt, TagAt, IsNumber, NumberTags
<1>3. \A a : UnaryDouble(k, a) = GivesTop(k, Dbl(a))
  <2>1. ~(Load(k) < 1)
    BY LoadIsNat
  <2> QED
    BY <1>2, <2>1 DEF UnaryDouble, Needs
<1>4. \A a : Typed(k, <<"double">>, a) = a
  BY TypedDouble
<1>5. \A a : GivesTop(k, a).err = "none"
  BY DEF GivesTop, Done
<1>6. SqrFunction(k) = Sqr_dFunction(k)
  BY <1>1, <1>2, <1>3, <1>4, Zenon DEF SqrFunction, Sqr_dFunction
<1>7. \A f : UnaryFunction(k, f) = GivesTop(k, Dbl(Libm(f, <<y>>)))
  BY <1>2, <1>3, Zenon DEF UnaryFunction
<1>8. \A f : UnaryFunction(k, f) = TrigLeaf(k, f)
  BY <1>1, <1>4, <1>7, Zenon DEF TrigLeaf
<1>9. Unchecked(SqrtFunction(k), Sqrt_dFunction(k))
  <2>1. PICK a : a = GivesTop(k, Dbl(SquareRoot(y)))
    OBVIOUS
  <2>2. SqrtFunction(k) = a
    BY <1>2, <1>3, <2>1, Zenon DEF SqrtFunction
  <2>3. Sqrt_dFunction(k) = Unless(k, ~DAtMost(Zero, y), "RangeCheck", a)
    BY <1>1, <1>4, <2>1, Zenon DEF Sqrt_dFunction
  <2> QED
    BY <1>5, <2>1, <2>2, <2>3, UnlessRaises, Zenon
<1>10. Unchecked(UnaryFunction(k, "ln"), Ln_dFunction(k))
  <2>1. PICK a : a = GivesTop(k, Dbl(Libm("ln", <<y>>)))
    OBVIOUS
  <2>2. Ln_dFunction(k) = Unless(k, ~Smaller(Zero, y), "RangeCheck", a)
    BY <1>1, <1>4, <2>1, Zenon DEF Ln_dFunction
  <2>3. UnaryFunction(k, "ln") = a
    BY <1>7, <2>1, Zenon
  <2> QED
    BY <1>5, <2>1, <2>2, <2>3, UnlessRaises, Zenon
<1>11. Unchecked(UnaryFunction(k, "log"), Log_dFunction(k))
  <2>1. PICK a : a = GivesTop(k, Dbl(Libm("log", <<y>>)))
    OBVIOUS
  <2>2. Log_dFunction(k) = Unless(k, ~Smaller(Zero, y), "RangeCheck", a)
    BY <1>1, <1>4, <2>1, Zenon DEF Log_dFunction
  <2>3. UnaryFunction(k, "log") = a
    BY <1>7, <2>1, Zenon
  <2> QED
    BY <1>5, <2>1, <2>2, <2>3, UnlessRaises, Zenon
<1> QED
  BY <1>6, <1>8, <1>9, <1>10, <1>11

LEMMA LeavesOfBools ==
    ASSUME NEW k, Load(k) >= 2, TagAt(k, 1) = "bool", TagAt(k, 0) = "bool"
    PROVE  /\ OrPolyFunction(k) = Or_bbFunction(k) /\ XorPolyFunction(k) = Xor_bbFunction(k)
           /\ NotPolyFunction(k) = Not_bFunction(k)
<1>1. \A a, b : Logical(k, a, b) = Needs(k, 2, Gives(k, Bool(a)))
  <2>1. ASSUME NEW a, NEW b PROVE Logical(k, a, b) = Needs(k, 2, Gives(k, Bool(a)))
    <3>1. PICK g : g = Gives(k, Bool(a))
      OBVIOUS
    <3>2. PICK h : h = Gives(k, IntTok(b))
      OBVIOUS
    <3> QED
      BY <3>1, <3>2 DEF Logical
  <2> QED
    BY <2>1
<1>2. OrPolyFunction(k) = Or_bbFunction(k) /\ XorPolyFunction(k) = Xor_bbFunction(k)
  BY <1>1, Zenon DEF OrPolyFunction, XorPolyFunction, Or_bbFunction, Xor_bbFunction
<1>3. NotPolyFunction(k) = Not_bFunction(k)
  BY DEF NotPolyFunction, Not_bFunction
<1> QED
  BY <1>2, <1>3

\* A compact operator looks at the tags of its operands and converts as it goes;
\* the leaf that the type trie chooses by the same tags does not look at all.
\* For the operands of its signature the leaf does what the compact operator
\* does, errors included, whatever the numbers, so that it does not matter to a
\* program whether a name is bound to the one or to the trie; except for max and
\* min of a NaN, and for sqrt, ln and log of an operand that the leaf refuses.
LEMMA CompactOfTyped ==
    ASSUME TypeOK
    PROVE  CompactIsLeaf
<1>1. Sound(m)
  BY MachineParts
<1>2. Match(II) => /\ Load(m) >= 2 /\ TagAt(m, 1) = "integer" /\ TagAt(m, 0) = "integer"
  BY MatchParts, Zenon DEF II
<1>3. Match(DD) => /\ Load(m) >= 2 /\ TagAt(m, 1) = "double" /\ TagAt(m, 0) = "double"
  BY MatchParts, Zenon DEF DD
<1>4. Match(DI) => /\ Load(m) >= 2 /\ TagAt(m, 1) = "double" /\ TagAt(m, 0) = "integer"
  BY MatchParts, Zenon DEF DI
<1>5. Match(ID) => /\ Load(m) >= 2 /\ TagAt(m, 1) = "integer" /\ TagAt(m, 0) = "double"
  BY MatchParts, Zenon DEF ID
<1>6. Match(<<"bool", "bool">>) => /\ Load(m) >= 2 /\ TagAt(m, 1) = "bool" /\ TagAt(m, 0) = "bool"
  BY MatchParts, Zenon
<1>8. ASSUME Match(II)
      PROVE  /\ AddFunction(m) = Add_iiFunction(m) /\ SubFunction(m) = Sub_iiFunction(m)
             /\ MulFunction(m) = Mul_iiFunction(m) /\ DivFunction(m) = Div_iiFunction(m)
             /\ MaxFunction(m) = Max_i_iFunction(m) /\ MinFunction(m) = Min_i_iFunction(m)
             /\ GtFunction(m) = Gt_iiFunction(m) /\ LtFunction(m) = Lt_iiFunction(m)
             /\ GeqFunction(m) = Geq_iiFunction(m) /\ LeqFunction(m) = Leq_iiFunction(m)
             /\ AndPolyFunction(m) = And_iiFunction(m) /\ OrPolyFunction(m) = Or_iiFunction(m)
             /\ XorPolyFunction(m) = Xor_iiFunction(m) /\ NotPolyFunction(m) = Not_iFunction(m)
  BY <1>1, <1>2, <1>8, OfLongs, EndsOfLongs, Zenon
<1>9. ASSUME Match(DD)
      PROVE  /\ AddFunction(m) = Add_ddFunction(m) /\ SubFunction(m) = Sub_ddFunction(m)
             /\ MulFunction(m) = Mul_ddFunction(m) /\ DivFunction(m) = Div_ddFunction(m)
             /\ NaNs \/ (MaxFunction(m) = Max_d_dFunction(m) /\ MinFunction(m) = Min_d_dFunction(m))
             /\ GtFunction(m) = Gt_ddFunction(m) /\ LtFunction(m) = Lt_ddFunction(m)
             /\ GeqFunction(m) = Geq_ddFunction(m) /\ LeqFunction(m) = Leq_ddFunction(m)
             /\ PowFunction(m) = Pow_ddFunction(m)
  BY <1>1, <1>3, <1>9, LeavesOfDoubles, Zenon DEF NaNs
<1>10. ASSUME Match(DI)
       PROVE  /\ AddFunction(m) = Add_diFunction(m) /\ SubFunction(m) = Sub_diFunction(m)
              /\ MulFunction(m) = Mul_diFunction(m) /\ DivFunction(m) = Div_diFunction(m)
              /\ NaNs \/ (MaxFunction(m) = Max_d_iFunction(m) /\ MinFunction(m) = Min_d_iFunction(m))
              /\ GtFunction(m) = Gt_diFunction(m) /\ LtFunction(m) = Lt_diFunction(m)
              /\ GeqFunction(m) = Geq_diFunction(m) /\ LeqFunction(m) = Leq_diFunction(m)
              /\ PowFunction(m) = Pow_diFunction(m)
  BY <1>1, <1>4, <1>10, LeavesOfDoubleAndLong, Zenon DEF NaNs
<1>11. ASSUME Match(ID)
       PROVE  /\ AddFunction(m) = Add_idFunction(m) /\ SubFunction(m) = Sub_idFunction(m)
              /\ MulFunction(m) = Mul_idFunction(m) /\ DivFunction(m) = Div_idFunction(m)
              /\ NaNs \/ (MaxFunction(m) = Max_i_dFunction(m) /\ MinFunction(m) = Min_i_dFunction(m))
              /\ GtFunction(m) = Gt_idFunction(m) /\ LtFunction(m) = Lt_idFunction(m)
              /\ GeqFunction(m) = Geq_idFunction(m) /\ LeqFunction(m) = Leq_idFunction(m)
  BY <1>1, <1>5, <1>11, LeavesOfLongAndDouble, Zenon DEF NaNs
<1>12. ASSUME Match(<<"bool", "bool">>)
       PROVE  /\ OrPolyFunction(m) = Or_bbFunction(m) /\ XorPolyFunction(m) = Xor_bbFunction(m)
              /\ NotPolyFunction(m) = Not_bFunction(m)
  BY <1>6, <1>12, LeavesOfBools, Zenon
<1>13. ASSUME Match(<<"double">>)
       PROVE  /\ SqrFunction(m) = Sqr_dFunction(m)
              /\ \A f \in {"sin", "asin", "cos", "acos", "exp"} : UnaryFunction(m, f) = TrigLeaf(m, f)
              /\ Unchecked(SqrtFunction(m), Sqrt_dFunction(m))
              /\ Unchecked(UnaryFunction(m, "ln"), Ln_dFunction(m))
              /\ Unchecked(UnaryFunction(m, "log"), Log_dFunction(m))
  <2>1. Load(m) >= 1 /\ TagAt(m, 0) = "double"
    BY <1>13, MatchParts, Zenon
  <2> QED
    BY <1>1, <2>1, LeavesOfDouble, Zenon
<1> QED
  BY <1>8, <1>9, <1>10, <1>11, <1>12, <1>13, Zenon DEF CompactIsLeaf

\* In every state, for all operands a program can bring about, a compact operator
\* (add, max, gt, and, sqr, sin...) and the leaf of its type trie (add_di,
\* max_i_d, sqr_d...) leave the same machine and the same error.  max and min are
\* left open where an operand is NaN; sqrt, ln and log raise nothing where their
\* leaves raise RangeCheck.
THEOREM CompactOperatorsAreLeaves == Spec => []CompactIsLeaf
BY OperandsAreTyped, CompactOfTyped, PTL

-----------------------------------------------------------------------------
(* append and prepend *)

LEMMA LeftBy ==
    ASSUME NEW name, NEW out, Leave(name, out)
    PROVE  last'.op = name /\ out.m.room /\ heap' = Released(out.m).heap
BY DEF Leave

LEMMA DoneBy ==
    /\ \A name, out : Do(name, out) => last'.op = name /\ out.m.room /\ heap' = Released(out.m).heap
    /\ \A name, sig, out : Leaf(name, sig, out) => last'.op = name
BY LeftBy DEF Do, Leaf

Extending == {"append", "prepend", "append_lp"}

LEMMA StacksAreNotExtended == ASSUME StackStep PROVE last'.op \notin Extending
BY DoneBy DEF StackStep, Extending
LEMMA ArraysAreNotExtended == ASSUME ArrayStep PROVE last'.op \notin Extending
<1>1. \A out : \A name \in { "Range", "array", "First", "Rest", "Reverse", "Rotate", "Flatten", "Sort",
                             "Transpose", "Partition", "arrayload", "arraystore", "]",
                             "GetMax", "GetMin", "valid" } :
          Do(name, out) => last'.op \notin Extending
  BY DoneBy DEF Extending
<1> QED
  BY <1>1, ZenonT(30) DEF ArrayStep
LEMMA AccessIsNotExtended == ASSUME AccessStep PROVE last'.op \notin Extending
BY DoneBy DEF AccessStep, Extending
LEMMA NumbersAreNotExtended == ASSUME NumberStep PROVE last'.op \notin Extending
BY DoneBy, LibmAssumption DEF NumberStep, Extending, LibmNames
LEMMA LeavesAreNotExtended == ASSUME TrieStep PROVE last'.op \notin Extending
BY DoneBy DEF TrieStep, Extending
LEMMA SavedAreNotExtended == ASSUME SavedStateStep PROVE last'.op \notin Extending
BY DoneBy, LeftBy DEF SavedStateStep, Extending

\* The steps of the three operators.
LEMMA ExtendingStep ==
    ASSUME Next, vars' # vars, last'.op \in Extending
    PROVE  \E out \in {AppendFunction(m), PrependFunction(m), AppendArrayLike(m, "litprocedure")} :
               out.m.room /\ heap' = Released(out.m).heap
<1>1. ASSUME ContainerStep
      PROVE  \/ Do("append", AppendFunction(m)) \/ Do("prepend", PrependFunction(m))
             \/ Do("append_lp", AppendArrayLike(m, "litprocedure"))
  BY <1>1, DoneBy DEF ContainerStep, Extending
<1>2. ~Push /\ ~Quit
  BY DEF Push, Quit, Extending
<1>3. ContainerStep
  BY <1>2, StacksAreNotExtended, ArraysAreNotExtended, AccessIsNotExtended, NumbersAreNotExtended,
     LeavesAreNotExtended, SavedAreNotExtended DEF Next
<1> QED
  BY <1>1, <1>3, DoneBy
-----------------------------------------------------------------------------
(* Counting references *)

\* A payload holds another at finitely many places.
LEMMA UsesAreFinite ==
    ASSUME NEW k, Sound(k), NEW x
    PROVE  /\ IsFiniteSet(Uses(k.st, x)) /\ IsFiniteSet(Uses(k.es, x))
           /\ \A w \in Ids : IsFiniteSet(Uses(Contents(k.heap[w]), x))
<1>1. ASSUME NEW S, NEW s \in Seq(S) PROVE IsFiniteSet(Uses(s, x))
  <2>1. PICK n \in Nat : DOMAIN s = 1..n
    BY <1>1, SeqParts
  <2>2. Uses(s, x) \subseteq 1..n
    BY <2>1 DEF Uses
  <2> QED
    BY <2>2, PartOfSegment
<1>2. ASSUME NEW w \in Ids PROVE IsFiniteSet(Uses(Contents(k.heap[w]), x))
  <2>1. PICK o : o = k.heap[w] /\ IsBody(k.heap, o.kind, o.body) /\ o.kind \in {"free", "array", "string", "dictionary"}
    BY PayloadParts DEF Sound
  <2>2. CASE o.kind = "array"
    <3>1. o.body \in Seq(Cells(k.heap, "array"))
      BY <2>1, <2>2, BodiesAreCells
    <3> QED
      BY <1>1, <2>1, <2>2, <3>1 DEF Contents
  <2>3. CASE o.kind = "dictionary"
    <3>1. DOMAIN o.body \subseteq Names
      BY <2>1, <2>3, BodiesAreCells
    <3>2. Uses(o.body, x) \in SUBSET Names
      BY <3>1 DEF Uses
    <3> QED
      BY <2>1, <2>3, <3>2, NamesAreFinite, FS_Subset DEF Contents
  <2>4. CASE o.kind \notin {"array", "dictionary"}
    <3>1. Contents(o) \in Seq({})
      BY <2>4, SeqUnits DEF Contents
    <3> QED
      BY <1>1, <2>1, <3>1
  <2> QED
    BY <2>2, <2>3, <2>4
<1> QED
  BY <1>1, <1>2 DEF Sound

\* The pairs of a payload and a place where it holds x.
PlacesIn(k, x) == UNION {{y} \X Uses(Contents(k.heap[y]), x) : y \in Ids}

LEMMA PlacesAreFinite ==
    ASSUME NEW k, Sound(k), NEW x
    PROVE  IsFiniteSet(PlacesIn(k, x))
<1> DEFINE U(n) == UNION {{y} \X Uses(Contents(k.heap[y]), x) : y \in 1..n}
           P == {n \in Nat : n <= MaxObjects => IsFiniteSet(U(n))}
<1>1. 0 \in P
  <2>1. U(0) = {}
    OBVIOUS
  <2> QED
    BY <2>1, FS_EmptySet
<1>2. ASSUME NEW n \in Nat, n \in P PROVE n + 1 \in P
  <2>1. PICK l \in Nat : l = n + 1
    OBVIOUS
  <2>2. ASSUME l <= MaxObjects PROVE IsFiniteSet(U(l))
    <3>1. l \in Ids /\ IsFiniteSet(U(n))
      BY <1>2, <2>1, <2>2, MaxObjectsAssumption DEF Ids
    <3>2. IsFiniteSet(Uses(Contents(k.heap[l]), x))
      BY <3>1, UsesAreFinite
    <3>3. PICK B : B = {l} \X Uses(Contents(k.heap[l]), x) /\ IsFiniteSet(B)
      BY <3>2, FS_Singleton, FS_Product
    <3>4. U(l) = U(n) \cup B
      <4>1. 1..l = (1..n) \cup {l}
        BY <2>1
      <4> QED
        BY <3>3, <4>1
    <3>5. PICK A : A = U(n)
      OBVIOUS
    <3>6. U(l) = A \cup B
      BY <3>4, <3>5
    <3>7. IsFiniteSet(A \cup B)
      BY <3>1, <3>3, <3>5, FS_Union
    <3> QED
      BY <3>6, <3>7
  <2> QED
    BY <2>1, <2>2
<1>3. MaxObjects \in P
  <2> HIDE DEF P
  <2> QED
    BY <1>1, <1>2, MaxObjectsAssumption, NaturalsByInduction
<1> QED
  BY <1>3, MaxObjectsAssumption DEF PlacesIn, Ids
LEMMA CountParts ==
    ASSUME NEW k, Sound(k), NEW y \in Ids
    PROVE  \E a, b, c \in Nat :
               /\ References(k, y) = a + b + k.heap[y].lost + c
               /\ a = Cardinality(Uses(k.st, y)) /\ IsFiniteSet(Uses(k.st, y))
               /\ b = 0 <=> Uses(k.es, y) = {}
               /\ c = 0 <=> Holders(k, y) = {}
<1>1. PICK A : A = Uses(k.st, y) /\ IsFiniteSet(A)
  BY UsesAreFinite
<1>2. PICK B : B = Uses(k.es, y) /\ IsFiniteSet(B)
  BY UsesAreFinite
<1>3. PICK C : C = PlacesIn(k, y) /\ IsFiniteSet(C)
  BY PlacesAreFinite
<1>4. PICK a \in Nat : a = Cardinality(A)
  BY <1>1, FS_CardinalityType
<1>5. PICK b \in Nat : b = Cardinality(B) /\ (b = 0 <=> B = {})
  BY <1>2, FS_CardinalityType, FS_EmptySet
<1>6. PICK c \in Nat : c = Cardinality(C) /\ (c = 0 <=> C = {})
  BY <1>3, FS_CardinalityType, FS_EmptySet
<1>7. C = {} <=> Holders(k, y) = {}
  <2>1. \A w \in Ids : \A q \in Uses(Contents(k.heap[w]), y) : <<w, q>> \in C
    BY <1>3 DEF PlacesIn
  <2>2. \A z \in C : \E w \in Ids : Uses(Contents(k.heap[w]), y) # {}
    BY <1>3 DEF PlacesIn
  <2> QED
    BY <2>1, <2>2 DEF Holders
<1>8. References(k, y) = Cardinality(A) + Cardinality(B) + k.heap[y].lost + Cardinality(C)
  BY <1>1, <1>2, <1>3, Zenon DEF References, PlacesIn
<1> QED
  BY <1>1, <1>2, <1>4, <1>5, <1>6, <1>7, <1>8

\* A count of one is that of one place.
LEMMA SoleUse ==
    ASSUME NEW k, Sound(k), NEW y \in Ids, References(k, y) <= 1, NEW p \in Uses(k.st, y)
    PROVE  Uses(k.st, y) = {p} /\ Uses(k.es, y) = {} /\ Holders(k, y) = {}
<1>1. PICK a, b, c \in Nat :
          /\ References(k, y) = a + b + k.heap[y].lost + c
          /\ a = Cardinality(Uses(k.st, y)) /\ IsFiniteSet(Uses(k.st, y))
          /\ b = 0 <=> Uses(k.es, y) = {}
          /\ c = 0 <=> Holders(k, y) = {}
  BY CountParts
<1>2. PICK l \in Nat : l = k.heap[y].lost
  BY PayloadParts DEF Sound
<1>3. a # 0
  BY <1>1, FS_EmptySet
<1>4. a + b + l + c <= 1
  BY <1>1, <1>2
<1>5. a = 1 /\ b = 0 /\ c = 0
  BY <1>3, <1>4
<1>6. \E z : Uses(k.st, y) = {z}
  BY <1>1, <1>5, FS_Singleton
<1> QED
  BY <1>1, <1>5, <1>6

\* Another count is that of another place, or of none.
LEMMA OtherUse ==
    ASSUME NEW k, Sound(k), NEW y \in Ids, ~(References(k, y) <= 1), NEW p
    PROVE  \/ \E q \in Uses(k.st, y) : q # p
           \/ Uses(k.es, y) # {}
           \/ Holders(k, y) # {}
           \/ k.heap[y].lost > 0
<1>1. PICK a, b, c \in Nat :
          /\ References(k, y) = a + b + k.heap[y].lost + c
          /\ a = Cardinality(Uses(k.st, y)) /\ IsFiniteSet(Uses(k.st, y))
          /\ b = 0 <=> Uses(k.es, y) = {}
          /\ c = 0 <=> Holders(k, y) = {}
  BY CountParts
<1>2. PICK l \in Nat : l = k.heap[y].lost
  BY PayloadParts DEF Sound
<1>3. SUFFICES ASSUME \A q \in Uses(k.st, y) : q = p, b = 0, c = 0, l = 0 PROVE FALSE
  BY <1>1, <1>2
<1>4. Uses(k.st, y) = {} \/ Uses(k.st, y) = {p}
  BY <1>3
<1>5. a = 0 \/ a = 1
  BY <1>1, <1>4, FS_EmptySet, FS_Singleton
<1>6. ~(a + b + l + c <= 1)
  BY <1>1, <1>2
<1> QED
  BY <1>3, <1>5, <1>6
\* What others hold of k is as it was, and nothing is left that nobody holds.
Lasting(k, g) ==
    /\ Collected(g)
    /\ \A x \in Ids : Rooted(Popped(k, 2), x) \/ Holders(k, x) # {} => g.heap[x] = k.heap[x]

LEMMA CollectedIsReleased ==
    ASSUME NEW g, Sound(g), Collected(g)
    PROVE  Released(g) = g
<1>1. \A x \in Ids : ~(g.heap[x].lost > 0 /\ g.heap[x].lost = 0)
  OBVIOUS
<1>2. Orphans(g, {}) = {}
  BY <1>1 DEF Orphans, Collected
<1> QED
  BY <1>2 DEF Released
\* g is k without its top, the container of slot 1 now being x with the contents b.
ExtendedTo(k, g, x, b) ==
    /\ g.es = k.es /\ Len(g.st) = Load(k) - 1
    /\ \A p \in 1..(Load(k) - 2) : g.st[p] = k.st[p]
    /\ g.st[Load(k) - 1] = <<TagAt(k, 1), x>>
    /\ \A z \in Ids : z # x => g.heap[z] = k.heap[z]
    /\ g.heap[x].kind = Kind(TagAt(k, 1)) /\ g.heap[x].body = b

\* An array's new contents are the old ones and the value of slot 0.
Gathers(k, b) ==
    IF TagAt(k, 1) \in ArrayTags
    THEN /\ \A i \in DOMAIN Body(k, 1) : \E j \in DOMAIN b : b[j] = Body(k, 1)[i]
         /\ \E j \in DOMAIN b : b[j] = At(k, 0)
    ELSE TagAt(k, 0) \notin CompositeTags

LEMMA StaysHeld ==
    ASSUME NEW k, Sound(k), Load(k) >= 2, TagAt(k, 1) \in ArrayTags \cup {"string"},
           NEW g, NEW x \in Ids, NEW b, ExtendedTo(k, g, x, b), Gathers(k, b),
           x = DataAt(k, 1) \/ k.heap[x].kind = "free",
           NEW z \in Ids, z # x,
           \/ \E q \in Uses(k.st, z) : q # Load(k) - 1
           \/ Uses(k.es, z) # {}
           \/ Holders(k, z) # {}
           \/ k.heap[z].lost > 0
    PROVE  Rooted(g, z) \/ Holders(g, z) # {} \/ g.heap[z].lost > 0
<1>1. PICK n \in Nat : n = Load(k) /\ n = Len(k.st) /\ DOMAIN k.st = 1..n /\ n >= 2
  BY LoadIsNat, SeqParts DEF Load, Sound
<1>2. g.es = k.es /\ g.heap[z] = k.heap[z]
  BY DEF ExtendedTo
<1>3. ASSUME TagAt(k, 1) \in ArrayTags, NEW j \in DOMAIN b, Refers(b[j], z) PROVE Holders(g, z) # {}
  <2>1. Contents(g.heap[x]) = b
    BY <1>3, KindOf DEF ExtendedTo, Contents
  <2>2. j \in Uses(Contents(g.heap[x]), z)
    BY <1>3, <2>1 DEF Uses
  <2> QED
    BY <2>2 DEF Holders
<1>4. CASE \E q \in Uses(k.st, z) : q # Load(k) - 1
  <2>1. PICK q \in 1..n : Refers(k.st[q], z) /\ q # n - 1
    BY <1>1, <1>4 DEF Uses
  <2>2. CASE q = n
    <3>1. At(k, 0) = k.st[q]
      BY <1>1, <2>2 DEF At, Pick
    <3>2. TagAt(k, 0) \in CompositeTags
      BY <2>1, <3>1 DEF Refers, TagAt
    <3>3. TagAt(k, 1) \in ArrayTags /\ \E j \in DOMAIN b : b[j] = At(k, 0)
      BY <3>2 DEF Gathers
    <3> QED
      BY <1>3, <2>1, <3>1, <3>3
  <2>3. CASE q # n
    <3>1. q \in 1..(Load(k) - 2)
      BY <1>1, <2>1, <2>3
    <3>2. g.st[q] = k.st[q]
      BY <3>1 DEF ExtendedTo
    <3>3. q \in DOMAIN g.st
      BY <1>1, <3>1 DEF ExtendedTo
    <3> QED
      BY <2>1, <3>2, <3>3 DEF Rooted, Uses
  <2> QED
    BY <2>2, <2>3
<1>5. CASE Uses(k.es, z) # {}
  BY <1>2, <1>5 DEF Rooted
<1>6. CASE Holders(k, z) # {}
  <2>1. PICK w \in Ids : Uses(Contents(k.heap[w]), z) # {}
    BY <1>6 DEF Holders
  <2>2. CASE w # x
    <3>1. g.heap[w] = k.heap[w]
      BY <2>2 DEF ExtendedTo
    <3> QED
      BY <2>1, <3>1 DEF Holders
  <2>3. CASE w = x /\ k.heap[x].kind = "free"
    BY <2>1, <2>3 DEF Contents, Uses
  <2>4. CASE w = x /\ x = DataAt(k, 1)
    <3>1. k.heap[x].kind = Kind(TagAt(k, 1)) /\ k.heap[x].body = Body(k, 1)
      <4>1. 1 \in Int /\ 0 <= 1 /\ 1 < Load(k) /\ TagAt(k, 1) \in CompositeTags
        BY <1>1, KindOf
      <4> QED
        BY <2>4, <4>1, OperandParts
    <3>2. TagAt(k, 1) \in ArrayTags
      BY <2>1, <2>4, <3>1, KindOf DEF Contents, Uses
    <3>3. PICK i \in DOMAIN Body(k, 1) : Refers(Body(k, 1)[i], z)
      BY <2>1, <2>4, <3>1, <3>2, KindOf DEF Contents, Uses
    <3>4. PICK j \in DOMAIN b : b[j] = Body(k, 1)[i]
      BY <3>2, <3>3 DEF Gathers
    <3> QED
      BY <1>3, <3>2, <3>3, <3>4
  <2> QED
    BY <2>2, <2>3, <2>4
<1>7. CASE k.heap[z].lost > 0
  BY <1>2, <1>7
<1> QED
  BY <1>4, <1>5, <1>6, <1>7

LEMMA ExtensionLasts ==
    ASSUME NEW k, Sound(k), Collected(k), Load(k) >= 2, TagAt(k, 1) \in ArrayTags \cup {"string"},
           NEW g, NEW x \in Ids, NEW b, ExtendedTo(k, g, x, b), Gathers(k, b),
           \/ x = DataAt(k, 1) /\ References(k, x) <= 1
           \/ k.heap[x].kind = "free" /\ ~(References(k, DataAt(k, 1)) <= 1)
    PROVE  Lasting(k, g)
<1>1. PICK n \in Nat : n = Load(k) /\ n = Len(k.st) /\ DOMAIN k.st = 1..n /\ n >= 2
  BY LoadIsNat, SeqParts DEF Load, Sound
<1>2. PICK p \in 1..n : p = n - 1 /\ k.st[p] = At(k, 1)
  BY <1>1 DEF At, Pick
<1>3. PICK y \in Ids : y = DataAt(k, 1) /\ TagAt(k, 1) \in CompositeTags
  <2>1. 1 \in Int /\ 0 <= 1 /\ 1 < Load(k) /\ TagAt(k, 1) \in CompositeTags
    BY <1>1, KindOf
  <2> QED
    BY <2>1, OperandParts
<1>4. Refers(At(k, 1), y) /\ \A z : Refers(At(k, 1), z) => z = y
  BY <1>3 DEF Refers, TagAt, DataAt
<1>9. Popped(k, 2).es = k.es /\ Popped(k, 2).heap = k.heap /\ Popped(k, 2).st = Drop(k.st, 2)
  <2>1. 2 \in 0..Load(k)
    BY <1>1
  <2> QED
    BY <2>1, OkPopped
<1>5. ASSUME NEW z \in Ids, Rooted(Popped(k, 2), z) \/ Holders(k, z) # {}
      PROVE  g.heap[z] = k.heap[z]
  <2>1. ASSUME NEW q \in Uses(Popped(k, 2).st, z) PROVE q \in Uses(k.st, z) /\ q # p
    <3>1. PICK S : S = Toks(k.heap) /\ k.st \in Seq(S)
      BY DEF Sound
    <3>2. 2 \in 0..Len(k.st)
      BY <1>1
    <3>3. Drop(k.st, 2) \in Seq(S) /\ Len(Drop(k.st, 2)) = n - 2
          /\ \A i \in 1..(n - 2) : Drop(k.st, 2)[i] = k.st[i]
      <4>1. PICK s \in Seq(S) : s = k.st /\ 2 \in 0..Len(s)
        BY <3>1, <3>2
      <4>2. /\ Drop(s, 2) \in Seq(S) /\ Len(Drop(s, 2)) = Len(s) - 2
            /\ \A i \in 1..(Len(s) - 2) : Drop(s, 2)[i] = s[i]
        BY <4>1, SeqDrop
      <4>3. Len(s) = n
        BY <1>1, <4>1
      <4> QED
        BY <4>1, <4>2, <4>3
    <3>4. Popped(k, 2).st = Drop(k.st, 2)
      BY <1>9
    <3>5. DOMAIN Drop(k.st, 2) = 1..(n - 2)
      BY <3>3, SeqParts
    <3>6. q \in 1..(n - 2) /\ Refers(k.st[q], z)
      BY <2>1, <3>3, <3>4, <3>5 DEF Uses
    <3> QED
      BY <1>1, <1>2, <3>6 DEF Uses
  <2>2. Popped(k, 2).es = k.es /\ Popped(k, 2).heap = k.heap
    BY <1>9
  <2>3. \/ \E q \in Uses(k.st, z) : q # p
        \/ Uses(k.es, z) # {}
        \/ Holders(k, z) # {}
    BY <1>5, <2>1, <2>2 DEF Rooted
  <2>4. k.heap[z].kind # "free"
    BY <2>3, HeldIsLive DEF Rooted
  <2>5. ASSUME z = y, References(k, y) <= 1 PROVE FALSE
    <3>1. p \in Uses(k.st, y)
      BY <1>1, <1>2, <1>4 DEF Uses
    <3>2. Uses(k.st, y) = {p} /\ Uses(k.es, y) = {} /\ Holders(k, y) = {}
      BY <2>5, <3>1, SoleUse
    <3> QED
      BY <2>3, <2>5, <3>2
  <2>6. z # x
    BY <1>3, <2>4, <2>5
  <2> QED
    BY <2>6 DEF ExtendedTo
<1>6. ASSUME NEW z \in Ids, g.heap[z].kind # "free"
      PROVE  Rooted(g, z) \/ Holders(g, z) # {} \/ g.heap[z].lost > 0
  <2>1. CASE z = x
    <3>1. p \in DOMAIN g.st /\ g.st[p] = <<TagAt(k, 1), x>>
      BY <1>1, <1>2 DEF ExtendedTo
    <3>2. Refers(<<TagAt(k, 1), x>>, x)
      BY <1>3, TagParts DEF Refers
    <3> QED
      BY <2>1, <3>1, <3>2 DEF Rooted, Uses
  <2>2. CASE z # x
    <3>1. g.heap[z] = k.heap[z]
      BY <2>2 DEF ExtendedTo
    <3>2. Rooted(k, z) \/ Holders(k, z) # {} \/ k.heap[z].lost > 0
      BY <1>6, <3>1 DEF Collected
    <3>3. \/ \E q \in Uses(k.st, z) : q # p
          \/ Uses(k.es, z) # {}
          \/ Holders(k, z) # {}
          \/ k.heap[z].lost > 0
      <4>1. CASE p \in Uses(k.st, z)
        <5>1. z = y
          BY <1>2, <1>4, <4>1 DEF Uses
        <5>2. ~(References(k, y) <= 1)
          BY <1>3, <2>2, <5>1
        <5> QED
          BY <5>1, <5>2, OtherUse
      <4>2. CASE p \notin Uses(k.st, z)
        BY <3>2, <4>2 DEF Rooted
      <4> QED
        BY <4>1, <4>2
    <3>4. \/ \E q \in Uses(k.st, z) : q # Load(k) - 1
          \/ Uses(k.es, z) # {}
          \/ Holders(k, z) # {}
          \/ k.heap[z].lost > 0
      BY <1>1, <1>2, <3>3
    <3> QED
      BY <2>2, <3>4, StaysHeld
  <2> QED
    BY <2>1, <2>2
<1> QED
  BY <1>5, <1>6 DEF Lasting, Collected

\* The slot that append and prepend write to: the container itself when nobody
\* else holds it, and a fresh copy when somebody does.
LEMMA CowParts ==
    ASSUME NEW k, Sound(k), Load(k) >= 2, NEW tag \in ArrayTags \cup {"string"}, TagAt(k, 1) = tag,
           NEW own, own = CowSlot(k, 1), own.room, NEW x, x = DataAt(own, 1)
    PROVE  /\ own.es = k.es
           /\ \A p \in 1..Load(k) : p # Load(k) - 1 => own.st[p] = k.st[p]
           /\ own.st[Load(k) - 1] = <<tag, x>>
           /\ \A z \in Ids : z # x => own.heap[z] = k.heap[z]
           /\ \/ x = DataAt(k, 1) /\ References(k, x) <= 1
              \/ k.heap[x].kind = "free" /\ ~(References(k, DataAt(k, 1)) <= 1)
<1>1. PICK n \in Nat : n = Load(k) /\ n = Len(k.st) /\ DOMAIN k.st = 1..n /\ n >= 2
  BY LoadIsNat, SeqParts DEF Load, Sound
<1>2. At(k, 1) = k.st[n - 1] /\ At(k, 1) = <<tag, DataAt(k, 1)>>
  <2>1. 1 \in Int /\ 0 <= 1 /\ 1 < Load(k)
    BY <1>1
  <2>2. At(k, 1) = <<TagAt(k, 1), DataAt(k, 1)>>
    BY <2>1, OperandParts
  <2> QED
    BY <1>1, <2>2 DEF At, Pick
<1>3. CASE References(k, DataAt(k, 1)) <= 1
  <2>1. own = k
    BY <1>3 DEF CowSlot
  <2> QED
    BY <1>1, <1>2, <1>3, <2>1
<1>4. CASE ~(References(k, DataAt(k, 1)) <= 1) /\ FreeIds(k) = {}
  <2>1. own = [k EXCEPT !.room = FALSE]
    BY <1>4 DEF CowSlot
  <2> QED
    BY <2>1 DEF Sound, Shape
<1>5. CASE ~(References(k, DataAt(k, 1)) <= 1) /\ FreeIds(k) # {}
  <2>1. PICK y : y = LeastFree(k)
    OBVIOUS
  <2>2. y \in Ids /\ k.heap[y].kind = "free"
    BY <1>5, <2>1, LeastFreeIsFree
  <2>3. PICK new : new = Fresh(tag, Body(k, 1))
    OBVIOUS
  <2>4. own = [k EXCEPT !.heap[y] = new, !.st = SetPick(@, 1, <<tag, y>>)]
    BY <1>5, <2>1, <2>3 DEF CowSlot
  <2>5. PICK t : t = <<tag, y>>
    OBVIOUS
  <2>6. PICK s : s = SetPick(k.st, 1, t)
    OBVIOUS
  <2>7. PICK h : h = [k.heap EXCEPT ![y] = new]
    OBVIOUS
  <2>8. own = [st |-> s, es |-> k.es, heap |-> h, room |-> k.room]
    BY <2>4, <2>5, <2>6, <2>7 DEF Sound, Shape
  <2>9. \A z \in Ids : z # y => h[z] = k.heap[z]
    BY <2>2, <2>7 DEF Sound, WellFormed
  <2>10. s[n - 1] = t /\ Len(s) = n /\ \A p \in 1..n : p # n - 1 => s[p] = k.st[p]
    <3>1. PICK S : S = Toks(k.heap) \cup {t}
      OBVIOUS
    <3>2. PICK q \in Seq(S) : q = k.st
      BY <3>1, SeqMono DEF Sound
    <3>3. DOMAIN q = 1..n /\ Len(q) = n
      BY <1>1, <3>2
    <3>4. PICK p \in 1..n : p = n - 1
      <4>1. n - 1 \in 1..n
        BY <1>1
      <4> QED
        BY <4>1
    <3>5. s = [q EXCEPT ![p] = t]
      BY <1>1, <2>6, <3>2, <3>4 DEF SetPick
    <3>6. s \in Seq(S) /\ Len(s) = n
      BY <3>1, <3>3, <3>5
    <3>7. s[p] = t /\ \A l \in 1..n : l # p => s[l] = q[l]
      BY <3>3, <3>4, <3>5
    <3> QED
      BY <3>2, <3>4, <3>6, <3>7
  <2>11. At(own, 1) = t /\ own.st = s /\ own.heap = h /\ own.es = k.es
    BY <2>8, <2>10 DEF At, Pick
  <2>12. x = y
    BY <2>5, <2>11 DEF DataAt, Data
  <2> QED
    BY <1>1, <1>5, <2>2, <2>5, <2>9, <2>10, <2>11, <2>12
<1> QED
  BY <1>3, <1>4, <1>5

\* The outcome of append or prepend keeps what others hold.
Lasts(k, out) == out.m.room => Lasting(k, out.m)

LEMMA ExtendedLasts ==
    ASSUME NEW k, Sound(k), Collected(k), Load(k) >= 2,
           NEW tag \in ArrayTags \cup {"string"}, TagAt(k, 1) = tag,
           k.heap[DataAt(k, 1)].acc = Unlimited,
           NEW own, own = CowSlot(k, 1), NEW b \in Seq(Cells(k.heap, Kind(tag))), Gathers(k, b)
    PROVE  Lasts(k, Extended(own, b))
<1>1. PICK x : x = DataAt(own, 1)
  OBVIOUS
<1>2. Ok(k, own) /\ Load(own) = Load(k) /\ x \in Ids
      /\ own.heap[x].kind = Kind(tag) /\ own.heap[x].acc = Unlimited
  BY <1>1, OkCowSlot
<1>3. IsBody(own.heap, Kind(tag), b)
  BY <1>2, BodyKept, KindOf, CellsBody DEF Ok
<1>4. Kind(tag) # "free"
  BY KindOf
<1>5. PICK w : w = Written(own, x, b)
  OBVIOUS
<1>6. /\ Sound(w) /\ w.st = own.st /\ w.es = own.es /\ w.room = own.room
      /\ \A y \in Ids : y # x => w.heap[y] = own.heap[y]
      /\ w.heap[x].kind = Kind(tag) /\ w.heap[x].body = b
  <2>1. Sound(own) /\ own.heap[x].kind # "free" /\ IsBody(own.heap, own.heap[x].kind, b)
    BY <1>2, <1>3, <1>4 DEF Ok
  <2> QED
    BY <1>2, <1>5, <2>1, OkWritten DEF Ok
<1>7. PICK g : g = Popped(w, 1)
  OBVIOUS
<1>8. Load(w) = Load(k)
  BY <1>2, <1>6 DEF Load
<1>9. g.heap = w.heap /\ g.es = w.es /\ g.room = w.room /\ g.st = Drop(w.st, 1)
  <2>1. 1 \in 0..Load(w)
    BY <1>8, LoadIsNat
  <2> QED
    BY <1>6, <1>7, <2>1, OkPopped
<1>10. Len(g.st) = Load(k) - 1 /\ \A p \in 1..(Load(k) - 1) : g.st[p] = w.st[p]
  <2>1. PICK n \in Nat : n = Load(k) /\ n = Len(w.st) /\ n >= 2
    BY <1>8, LoadIsNat DEF Load
  <2>2. PICK s \in Seq(Toks(w.heap)) : s = w.st /\ Len(s) = n
    BY <1>6, <2>1 DEF Sound
  <2>3. 1 \in 0..Len(s)
    BY <2>1, <2>2
  <2>4. Len(Drop(s, 1)) = Len(s) - 1 /\ \A i \in 1..(Len(s) - 1) : Drop(s, 1)[i] = s[i]
    BY <2>3, SeqDrop
  <2> QED
    BY <1>9, <2>1, <2>2, <2>4
<1>11. ASSUME own.room PROVE Lasting(k, g)
  <2>1. /\ own.es = k.es
        /\ \A p \in 1..Load(k) : p # Load(k) - 1 => own.st[p] = k.st[p]
        /\ own.st[Load(k) - 1] = <<tag, x>>
        /\ \A z \in Ids : z # x => own.heap[z] = k.heap[z]
        /\ \/ x = DataAt(k, 1) /\ References(k, x) <= 1
           \/ k.heap[x].kind = "free" /\ ~(References(k, DataAt(k, 1)) <= 1)
    BY <1>1, <1>11, CowParts
  <2>2. ExtendedTo(k, g, x, b)
    <3>1. PICK n \in Nat : n = Load(k) /\ n >= 2
      BY LoadIsNat
    <3>2. Len(g.st) = n - 1 /\ g.es = k.es
      BY <1>6, <1>9, <1>10, <2>1, <3>1
    <3>3. \A p \in 1..(n - 2) : g.st[p] = k.st[p]
      <4>1. ASSUME NEW p \in 1..(n - 2) PROVE g.st[p] = k.st[p]
        <5>1. p \in 1..(n - 1) /\ p \in 1..n /\ p # n - 1
          BY <3>1
        <5>2. g.st[p] = w.st[p] /\ own.st[p] = k.st[p]
          BY <1>10, <2>1, <3>1, <5>1
        <5> QED
          BY <1>6, <5>2
      <4> QED
        BY <4>1
    <3>4. g.st[n - 1] = <<tag, x>>
      BY <1>6, <1>10, <2>1, <3>1
    <3>5. \A z \in Ids : z # x => g.heap[z] = k.heap[z]
      BY <1>6, <1>9, <2>1
    <3> QED
      BY <1>6, <1>9, <3>1, <3>2, <3>3, <3>4, <3>5 DEF ExtendedTo
  <2> QED
    BY <1>2, <2>1, <2>2, ExtensionLasts
<1> QED
  BY <1>1, <1>5, <1>6, <1>7, <1>9, <1>11 DEF Lasts, Extended, Done

LEMMA RaiseLasts == ASSUME NEW k, Collected(k), NEW e PROVE Lasts(k, Raise(k, e))
BY DEF Lasts, Lasting, Raise

LEMMA NeedsLasts ==
    ASSUME NEW k, Sound(k), Collected(k), NEW out, Load(k) >= 2 => Lasts(k, out)
    PROVE  Lasts(k, Needs(k, 2, out))
BY RaiseLasts, LoadIsNat DEF Needs

LEMMA WritableLasts ==
    ASSUME NEW k, Collected(k), NEW out, Payload(k, At(k, 1)).acc = Unlimited => Lasts(k, out)
    PROVE  Lasts(k, Writable(k, 1, out))
BY RaiseLasts DEF Writable, Unless, IsWritable

LEMMA TypedLasts ==
    ASSUME NEW k, Sound(k), Collected(k), NEW a, NEW b, NEW out,
           Load(k) >= 2 /\ Matches(k, 1, a) /\ Matches(k, 0, b) => Lasts(k, out)
    PROVE  Lasts(k, Typed(k, <<a, b>>, out))
<1>1. Lasts(k, Raise(k, "TypeMismatch"))
  BY RaiseLasts
<1>2. PICK sig : sig = <<a, b>>
  OBVIOUS
<1>3. Len(sig) = 2 /\ sig[1] = a /\ sig[2] = b
  BY <1>2
<1>4. ASSUME Load(k) >= 2
      PROVE  Lasts(k, IF \E i \in 1..Len(sig) : sig[i] # "any" /\ TagAt(k, Len(sig) - i) # sig[i]
                      THEN Raise(k, "TypeMismatch") ELSE out)
  <2>1. CASE Matches(k, 1, a) /\ Matches(k, 0, b)
    BY <1>1, <1>4, <2>1
  <2>2. CASE ~Matches(k, 1, a)
    <3>1. 1 \in 1..Len(sig) /\ sig[1] # "any" /\ TagAt(k, Len(sig) - 1) # sig[1]
      BY <1>3, <2>2 DEF Matches
    <3> QED
      BY <1>1, <3>1
  <2>3. CASE ~Matches(k, 0, b)
    <3>1. 2 \in 1..Len(sig) /\ sig[2] # "any" /\ TagAt(k, Len(sig) - 2) # sig[2]
      BY <1>3, <2>3 DEF Matches
    <3> QED
      BY <1>1, <3>1
  <2> QED
    BY <2>1, <2>2, <2>3
<1>5. Lasts(k, Typed(k, sig, out))
  BY <1>3, <1>4, NeedsLasts DEF Typed
<1> QED
  BY <1>2, <1>5

LEMMA SeqBegun ==
    ASSUME NEW S, NEW s \in Seq(S), NEW v \in S
    PROVE  /\ <<v>> \o s \in Seq(S) /\ Len(<<v>> \o s) = 1 + Len(s)
           /\ (<<v>> \o s)[1] = v
           /\ \A i \in 1..Len(s) : (<<v>> \o s)[1 + i] = s[i]
OBVIOUS

LEMMA SeqPrepend ==
    ASSUME NEW S, NEW s \in Seq(S), NEW v \in S, NEW n \in Nat, n = Len(s)
    PROVE  /\ <<v>> \o s \in Seq(S) /\ Len(<<v>> \o s) = n + 1
           /\ (<<v>> \o s)[1] = v
           /\ \A i \in 1..n : (<<v>> \o s)[1 + i] = s[i]
<1>1. PICK r : r = <<v>> \o s
  OBVIOUS
<1>2. /\ r \in Seq(S) /\ Len(r) = 1 + Len(s) /\ r[1] = v
      /\ \A i \in 1..Len(s) : r[1 + i] = s[i]
  BY <1>1, SeqBegun
<1>3. /\ r \in Seq(S) /\ Len(r) = n + 1 /\ r[1] = v
      /\ \A i \in 1..n : r[1 + i] = s[i]
  BY <1>2
<1> QED
  BY <1>1, <1>3

LEMMA ExtendingLasts ==
    ASSUME NEW k, Sound(k), Collected(k), Load(k) >= 2,
           NEW tag \in ArrayTags \cup {"string"}, Matches(k, 1, tag),
           NEW v \in Cells(k.heap, Kind(tag)), NEW own, own = CowSlot(k, 1),
           IF TagAt(k, 1) \in ArrayTags THEN v = At(k, 0) ELSE TagAt(k, 0) \notin CompositeTags
    PROVE  /\ Lasts(k, Writable(k, 1, Extended(own, Append(Body(own, 1), v))))
           /\ Lasts(k, Writable(k, 1, Extended(own, <<v>> \o Body(own, 1))))
<1>1. TagAt(k, 1) = tag /\ Body(k, 1) \in Seq(Cells(k.heap, Kind(tag))) /\ tag \in CompositeTags
  BY LoadIsNat, SequenceBody
<1>2. Payload(k, At(k, 1)) = k.heap[DataAt(k, 1)]
  BY <1>1, LoadIsNat, OperandParts
<1>3. PICK a : a = Append(Body(own, 1), v)
  OBVIOUS
<1>4. PICK b : b = <<v>> \o Body(own, 1)
  OBVIOUS
<1>5. ASSUME k.heap[DataAt(k, 1)].acc = Unlimited PROVE Lasts(k, Extended(own, a)) /\ Lasts(k, Extended(own, b))
  <2>1. PICK S : S = Cells(k.heap, Kind(tag))
    OBVIOUS
  <2>2. PICK s \in Seq(S) : s = Body(k, 1) /\ s = Body(own, 1)
    BY <1>1, <1>5, <2>1, OkCowSlot
  <2>3. PICK n \in Nat : n = Len(s) /\ DOMAIN s = 1..n
    BY <2>2, SeqParts
  <2>6. a \in Seq(S) /\ Len(a) = n + 1 /\ a[n + 1] = v /\ \A i \in 1..n : a[i] = s[i]
    BY <1>3, <2>1, <2>2, <2>3, SeqAppend
  <2>8. b \in Seq(S) /\ Len(b) = n + 1 /\ b[1] = v /\ \A i \in 1..n : b[1 + i] = s[i]
    <3>1. b = <<v>> \o s
      BY <1>4, <2>2
    <3> QED
      BY <2>1, <2>2, <2>3, <3>1, SeqPrepend
  <2>9. DOMAIN a = 1..(n + 1) /\ DOMAIN b = 1..(n + 1)
    BY <2>6, <2>8, SeqParts
  <2>10. Gathers(k, a)
    <3>1. \A i \in DOMAIN s : i \in DOMAIN a /\ a[i] = s[i]
      BY <2>3, <2>6, <2>9
    <3>2. n + 1 \in DOMAIN a
      BY <2>3, <2>9
    <3> QED
      BY <2>2, <2>6, <3>1, <3>2 DEF Gathers
  <2>11. Gathers(k, b)
    <3>1. \A i \in DOMAIN s : 1 + i \in DOMAIN b /\ b[1 + i] = s[i]
      BY <2>3, <2>8, <2>9
    <3>2. 1 \in DOMAIN b
      BY <2>3, <2>9
    <3> QED
      BY <2>2, <2>8, <3>1, <3>2 DEF Gathers
  <2> QED
    BY <1>1, <1>5, <2>1, <2>6, <2>8, <2>10, <2>11, ExtendedLasts
<1>6. Lasts(k, Writable(k, 1, Extended(own, a))) /\ Lasts(k, Writable(k, 1, Extended(own, b)))
  BY <1>2, <1>5, WritableLasts
<1> QED
  BY <1>3, <1>4, <1>6

LEMMA ExtendArrayLikeLasts ==
    ASSUME NEW k, Sound(k), Collected(k), NEW tag \in ArrayTags
    PROVE  Lasts(k, AppendArrayLike(k, tag)) /\ Lasts(k, PrependArrayLike(k, tag))
<1>1. PICK own : own = CowSlot(k, 1)
  OBVIOUS
<1>2. PICK a : a = Extended(own, Append(Body(own, 1), At(k, 0)))
  OBVIOUS
<1>3. PICK b : b = Extended(own, <<At(k, 0)>> \o Body(own, 1))
  OBVIOUS
<1>4. ASSUME Load(k) >= 2 /\ Matches(k, 1, tag) /\ Matches(k, 0, "any")
      PROVE  Lasts(k, Writable(k, 1, a)) /\ Lasts(k, Writable(k, 1, b))
  <2>1. At(k, 0) \in Cells(k.heap, Kind(tag))
    BY <1>4, LoadIsNat, Operands, KindOf DEF Cells
  <2>2. TagAt(k, 1) \in ArrayTags
    BY <1>4, LoadIsNat, SequenceBody
  <2> QED
    BY <1>1, <1>2, <1>3, <1>4, <2>1, <2>2, ExtendingLasts
<1>5. Lasts(k, Typed(k, <<tag, "any">>, Writable(k, 1, a))) /\ Lasts(k, Typed(k, <<tag, "any">>, Writable(k, 1, b)))
  BY <1>4, TypedLasts
<1> QED
  BY <1>1, <1>2, <1>3, <1>5 DEF AppendArrayLike, PrependArrayLike, CowArraySlot

LEMMA ExtendStringLasts ==
    ASSUME NEW k, Sound(k), Collected(k)
    PROVE  Lasts(k, AppendString(k)) /\ Lasts(k, PrependString(k))
<1>1. PICK own : own = CowSlot(k, 1)
  OBVIOUS
<1>2. PICK a : a = Extended(own, Append(Body(own, 1), Char(DataAt(k, 0))))
  OBVIOUS
<1>3. PICK b : b = Extended(own, <<Char(DataAt(k, 0))>> \o Body(own, 1))
  OBVIOUS
<1>4. ASSUME Load(k) >= 2 /\ Matches(k, 1, "string") /\ Matches(k, 0, "integer")
      PROVE  Lasts(k, Writable(k, 1, a)) /\ Lasts(k, Writable(k, 1, b))
  <2>1. TagAt(k, 0) = "integer" /\ TagAt(k, 1) = "string"
    BY <1>4, CompositesAreTypes, MatchesType
  <2>2. DataAt(k, 0) \in Int
    BY <1>4, <2>1, LoadIsNat, OperandParts
  <2>3. Char(DataAt(k, 0)) \in Cells(k.heap, Kind("string"))
    BY <2>2, CharIsCharacter, KindOf DEF Cells
  <2>4. TagAt(k, 1) \notin ArrayTags /\ TagAt(k, 0) \notin CompositeTags
    BY <2>1 DEF ArrayTags, CompositeTags
  <2> QED
    BY <1>1, <1>2, <1>3, <1>4, <2>3, <2>4, ExtendingLasts
<1>5. Lasts(k, Typed(k, <<"string", "integer">>, Writable(k, 1, a)))
      /\ Lasts(k, Typed(k, <<"string", "integer">>, Writable(k, 1, b)))
  BY <1>4, TypedLasts
<1> QED
  BY <1>1, <1>2, <1>3, <1>5 DEF AppendString, PrependString, CowStringSlot

LEMMA AppendLasts ==
    ASSUME NEW k, Sound(k), Collected(k)
    PROVE  Lasts(k, AppendFunction(k)) /\ Lasts(k, PrependFunction(k))
<1>1. PICK a : a = (CASE TagAt(k, 1) \in {"array", "procedure"} -> AppendArrayLike(k, TagAt(k, 1))
                      [] TagAt(k, 1) = "string" -> AppendString(k)
                      [] OTHER -> Raise(k, "ArgumentType"))
  OBVIOUS
<1>2. PICK b : b = (CASE TagAt(k, 1) \in {"array", "procedure"} -> PrependArrayLike(k, TagAt(k, 1))
                      [] TagAt(k, 1) = "string" -> PrependString(k)
                      [] OTHER -> Raise(k, "ArgumentType"))
  OBVIOUS
<1>3. TagAt(k, 1) \in {"array", "procedure"} =>
          Lasts(k, AppendArrayLike(k, TagAt(k, 1))) /\ Lasts(k, PrependArrayLike(k, TagAt(k, 1)))
  BY ExtendArrayLikeLasts, KindOf
<1>4. Lasts(k, a) /\ Lasts(k, b)
  BY <1>1, <1>2, <1>3, ExtendStringLasts, RaiseLasts
<1> QED
  BY <1>1, <1>2, <1>4, NeedsLasts DEF AppendFunction, PrependFunction

\* append and prepend write to the container only when nobody else holds it, and
\* to a copy of it otherwise: what any other token holds keeps its contents.
LEMMA ExtensionKeeps ==
    ASSUME TypeOK, Held, Next, vars' # vars, last'.op \in Extending
    PROVE  \A x \in Ids : (Rooted([m EXCEPT !.st = Drop(@, 2)], x) \/ Holders(m, x) # {})
                             => heap'[x] = heap[x]
<1>1. Sound(m) /\ Collected(m) /\ m.heap = heap
  BY MachineParts DEF Held
<1>2. PICK out \in {AppendFunction(m), PrependFunction(m), AppendArrayLike(m, "litprocedure")} :
          out.m.room /\ heap' = Released(out.m).heap
  BY ExtendingStep
<1>3. "litprocedure" \in ArrayTags
  BY DEF ArrayTags
<1>4. Good(m, out) /\ Lasts(m, out)
  BY <1>1, <1>2, <1>3, AppendGood, AppendLasts, ExtendArrayLikeGood, ExtendArrayLikeLasts
<1>5. Sound(out.m) /\ Lasting(m, out.m)
  BY <1>2, <1>4 DEF Good, Ok, Lasts
<1>6. heap' = out.m.heap
  BY <1>2, <1>5, CollectedIsReleased DEF Lasting
<1>7. [m EXCEPT !.st = Drop(@, 2)] = Popped(m, 2)
  BY DEF Popped
<1> QED
  BY <1>1, <1>5, <1>6, <1>7 DEF Lasting

\* append and prepend show to nobody but the token they leave (the copy on write
\* of sli_cow.h): the payloads that the rest of the stacks or other payloads hold
\* are untouched by them.
THEOREM ExtensionStaysPrivate == Spec => ExtensionIsPrivate
<1>1. TypeOK /\ Held /\ [Next]_vars =>
          [last'.op \in {"append", "prepend", "append_lp"} =>
               \A x \in Ids : (Rooted([m EXCEPT !.st = Drop(@, 2)], x) \/ Holders(m, x) # {})
                                => heap'[x] = heap[x]]_vars
  BY ExtensionKeeps DEF Extending
<1> QED
  BY <1>1, OperatorsInvariant, PTL DEF Spec, ExtensionIsPrivate

-----------------------------------------------------------------------------
(* Results of one's own *)

\* What a machine owns is left alone when the dead are released.
LEMMA OwnedLasts ==
    ASSUME NEW k, NEW g, Sound(g), Owns(k, g), NEW x, x = DataAt(g, 0)
    PROVE  /\ x \in Ids /\ x \notin Dead(g)
           /\ Released(g).heap[x] = g.heap[x]
           /\ Holders(Released(g), x) = {}
           /\ Uses(Released(g).st, x) = {Load(g)} /\ Uses(Released(g).es, x) = {}
<1>1. x \in Ids /\ Uses(g.st, x) = {Load(g)} /\ Uses(g.es, x) = {} /\ Holders(g, x) = {}
  BY DEF Owns, IsNew
<1>2. x \notin Dead(g)
  <2>1. PICK p \in DOMAIN g.st : Refers(g.st[p], x)
    <3>1. Load(g) \in Uses(g.st, x)
      BY <1>1
    <3> QED
      BY <3>1 DEF Uses
  <2> QED
    BY <2>1, DeadAreUnused
<1>3. PICK h : h = Released(g).heap
  OBVIOUS
<1>4. \A y \in Ids : h[y] = IF y \in Dead(g) THEN Free ELSE g.heap[y]
  BY <1>3, ReleasedParts
<1>5. Uses(Contents(Free), x) = {}
  BY DEF Free, Contents, Uses
<1>6. \A y \in Ids : Uses(Contents(h[y]), x) = {}
  BY <1>1, <1>4, <1>5 DEF Holders
<1>7. Holders(Released(g), x) = {}
  BY <1>3, <1>6 DEF Holders
<1> QED
  BY <1>1, <1>2, <1>3, <1>4, <1>7, ReleasedParts

\* The one reference of what only the stack holds, once.
LEMMA OneReference ==
    ASSUME NEW k, NEW x \in Ids, NEW n, Uses(k.st, x) = {n}, Uses(k.es, x) = {}, Holders(k, x) = {},
           k.heap[x].lost = 0
    PROVE  References(k, x) = 1
<1>1. PICK A : A = Uses(k.st, x) /\ Cardinality(A) = 1
  BY FS_Singleton
<1>2. PICK B : B = Uses(k.es, x) /\ Cardinality(B) = 0
  BY FS_EmptySet
<1>3. PlacesIn(k, x) = {}
  BY DEF PlacesIn, Holders
<1>4. PICK C : C = PlacesIn(k, x) /\ Cardinality(C) = 0
  BY <1>3, FS_EmptySet
<1>5. References(k, x) = Cardinality(A) + Cardinality(B) + k.heap[x].lost + Cardinality(C)
  BY <1>1, <1>2, <1>4, Zenon DEF References, PlacesIn
<1> QED
  BY <1>1, <1>2, <1>4, <1>5

\* What a step makes of an outcome.
Becomes(out) ==
    /\ out.m.room /\ last'.err = out.err
    /\ ostack' = out.m.st /\ estack' = out.m.es /\ heap' = Released(out.m).heap

LEMMA DoneAs ==
    /\ \A name, out : Do(name, out) => last'.op = name /\ Becomes(out)
    /\ \A name, sig, out : Leaf(name, sig, out) => last'.op = name /\ Becomes(out)
BY DEF Do, Leaf, Leave, Becomes

LEMMA MadeIsOwn ==
    ASSUME TypeOK, NEW out, Makes(m, out), Becomes(out), last'.err = "none"
    PROVE  /\ heap[Data(Made)].kind = "free"
           /\ heap'[Data(Made)].acc = Unlimited
           /\ References([st |-> ostack', es |-> estack', heap |-> heap'], Data(Made)) = 1
<1>1. PICK g : g = out.m
  OBVIOUS
<1>2. Sound(g) /\ Owns(m, g)
  BY <1>1 DEF Makes, Good, Ok, Becomes
<1>3. PICK x : x = DataAt(g, 0)
  OBVIOUS
<1>4. PICK k : k = [st |-> ostack', es |-> estack', heap |-> heap']
  OBVIOUS
<1>5. k.st = Released(g).st /\ k.es = Released(g).es /\ k.heap = Released(g).heap
  BY <1>1, <1>2, <1>4, ReleasedParts DEF Becomes
<1>6. /\ x \in Ids /\ heap[x].kind = "free" /\ g.heap[x].acc = Unlimited /\ g.heap[x].lost = 0
      /\ Load(g) >= 1
  BY <1>2, <1>3, MachineParts DEF Owns, IsNew
<1>7. k.heap[x] = g.heap[x] /\ Holders(k, x) = {} /\ Uses(k.st, x) = {Load(g)} /\ Uses(k.es, x) = {}
  BY <1>2, <1>3, <1>5, OwnedLasts DEF Holders
<1>8. Made = At(g, 0)
  <2>1. PICK n \in Nat : n = Len(g.st) /\ DOMAIN g.st = 1..n /\ Load(g) = n
    BY <1>2, SeqParts DEF Sound, Load
  <2>2. n - 0 = n /\ n \in DOMAIN g.st
    BY <1>6, <2>1
  <2>3. At(g, 0) = g.st[n]
    BY <2>1, <2>2 DEF At, Pick
  <2> QED
    BY <1>1, <2>1, <2>3 DEF Made, Becomes
<1>9. Data(Made) = x
  BY <1>3, <1>8 DEF DataAt
<1>10. References(k, x) = 1
  BY <1>6, <1>7, OneReference
<1> QED
  BY <1>4, <1>6, <1>7, <1>9, <1>10
LEMMA AccessMakesNone == ASSUME AccessStep PROVE last'.op \notin Makers
BY DoneAs DEF AccessStep, Makers
LEMMA NumbersMakeNone == ASSUME NumberStep PROVE last'.op \notin Makers
BY DoneAs, LibmAssumption DEF NumberStep, Makers, LibmNames
LEMMA LeavesMakeNone == ASSUME TrieStep PROVE last'.op \notin Makers
BY DoneAs DEF TrieStep, Makers
LEMMA SavedMakeNone == ASSUME SavedStateStep PROVE last'.op \notin Makers
BY DoneAs, LeftBy DEF SavedStateStep, Makers

LEMMA StacksMake ==
    ASSUME TypeOK, StackStep, last'.op \in Makers
    PROVE  \E out : Makes(m, out) /\ Becomes(out)
<1>1. Do("operandstack", OperandstackFunction(m))
  BY DoneAs DEF StackStep, Makers
<1>2. Makes(m, OperandstackFunction(m))
  BY MachineParts, OperandstackMakes
<1> QED
  BY <1>1, <1>2, DoneAs

LEMMA ContainersMake ==
    ASSUME TypeOK, ContainerStep, last'.op \in Makers
    PROVE  \E out : Makes(m, out) /\ Becomes(out)
<1>1. Sound(m)
  BY MachineParts
<1>2. \/ Do("keys", KeysFunction(m)) \/ Do("values", ValuesFunction(m))
      \/ Do(">>", DictconstructFunction(m)) \/ Do("clonedict", ClonedictFunction(m))
      \/ Do("join", JoinFunction(m)) \/ Do("getinterval", GetintervalFunction(m))
      \/ Do("insertelement", InsertelementFunction(m))
      \/ Leaf("insert_a", <<"array", "integer", "array">>, InsertArray(m))
      \/ Leaf("insert_s", <<"string", "integer", "string">>, InsertString(m))
      \/ Leaf("replace_a", <<"array", "integer", "integer", "array">>, ReplaceArray(m))
      \/ Leaf("replace_s", <<"string", "integer", "integer", "string">>, ReplaceString(m))
      \/ Leaf("erase_a", <<"array", "integer", "integer">>, EraseArrayLike(m, "array"))
      \/ Leaf("erase_p", <<"procedure", "integer", "integer">>, EraseArrayLike(m, "procedure"))
      \/ Leaf("erase_s", <<"string", "integer", "integer">>, EraseString(m))
  <2>1. \A out : \A name \in { "length", "empty", "size", "reserve", "get", "put", "cvi_s", "cvd_s", "cva",
                              "cleardict", "known", "search", "append", "prepend", "eq", "neq",
                              "append_lp" } : ~Do(name, out)
    BY DoneAs DEF Makers
  <2> QED
    BY <2>1, ZenonT(60) DEF ContainerStep
<1>3. /\ Makes(m, KeysFunction(m)) /\ Makes(m, ValuesFunction(m)) /\ Makes(m, DictconstructFunction(m))
      /\ Makes(m, ClonedictFunction(m)) /\ Makes(m, JoinFunction(m))
      /\ Makes(m, GetintervalFunction(m)) /\ Makes(m, InsertelementFunction(m))
  BY <1>1, KeysMakes, ValuesMakes, DictconstructMakes, ClonedictMakes, JoinMakes, GetintervalMakes,
     InsertelementMakes
<1>4. /\ Makes(m, InsertArray(m)) /\ Makes(m, InsertString(m))
      /\ Makes(m, ReplaceArray(m)) /\ Makes(m, ReplaceString(m))
      /\ Makes(m, EraseArrayLike(m, "array")) /\ Makes(m, EraseArrayLike(m, "procedure"))
      /\ Makes(m, EraseString(m))
  <2>1. "array" \in ArrayTags /\ "procedure" \in ArrayTags
    BY DEF ArrayTags
  <2> QED
    BY <1>1, <2>1, InsertLeafMakes, ReplaceLeafMakes, EraseLeafMakes
       DEF InsertArray, InsertString, ReplaceArray, ReplaceString, EraseArrayLike, EraseString
<1>5. ASSUME NEW name, NEW sig, NEW out, Leaf(name, sig, out), Makes(m, out)
      PROVE  Makes(m, out) /\ Becomes(out)
  BY <1>5, DoneAs
<1> QED
  BY <1>2, <1>3, <1>4, <1>5, DoneAs

LEMMA ArraysMake ==
    ASSUME TypeOK, ArrayStep, last'.op \in Makers
    PROVE  \E out : Becomes(out) /\ (\/ Makes(m, out)
                                    \/ /\ last'.op = "Sort" /\ Body(m, 0) = <<>>
                                       /\ \E sorted : out = SortFunction(m, sorted))
<1>1. Sound(m)
  BY MachineParts
<1>2. \A out : \A name \in {"First", "arrayload", "GetMax", "GetMin", "valid"} : ~Do(name, out)
  BY DoneAs DEF Makers
<1>3. \/ Do("Range", RangeFunction(m)) \/ Do("array", ArrayFunction(m)) \/ Do("Rest", RestFunction(m))
      \/ Do("Reverse", ReverseFunction(m)) \/ Do("Rotate", RotateFunction(m))
      \/ Do("Flatten", FlattenFunction(m)) \/ Do("Transpose", TransposeFunction(m))
      \/ Do("Partition", PartitionFunction(m)) \/ Do("arraystore", ArraystoreFunction(m))
      \/ Do("]", ArraycreateFunction(m))
      \/ \E sorted \in SortingsOfTop : Do("Sort", SortFunction(m, sorted))
  BY <1>2, ZenonT(30) DEF ArrayStep
<1>4. /\ Makes(m, RangeFunction(m)) /\ Makes(m, ArrayFunction(m)) /\ Makes(m, RestFunction(m))
      /\ Makes(m, ReverseFunction(m)) /\ Makes(m, RotateFunction(m)) /\ Makes(m, FlattenFunction(m))
      /\ Makes(m, TransposeFunction(m)) /\ Makes(m, PartitionFunction(m))
      /\ Makes(m, ArraystoreFunction(m)) /\ Makes(m, ArraycreateFunction(m))
  BY <1>1, RangeMakes, ArrayMakes, RestMakes, ReverseMakes, RotateMakes, FlattenMakes, TransposeMakes,
     PartitionMakes, ArraystoreMakes, ArraycreateMakes
<1>5. ASSUME NEW sorted \in SortingsOfTop, Do("Sort", SortFunction(m, sorted)), Body(m, 0) # <<>>
      PROVE  Makes(m, SortFunction(m, sorted))
  <2>1. Load(m) >= 1 /\ TagAt(m, 0) = "array" /\ Sortable(Body(m, 0))
            => sorted \in Sorted(m, Body(m, 0))
    BY <1>5, MatchParts DEF SortingsOfTop
  <2> QED
    BY <1>1, <1>5, <2>1, SortMakes
<1>6. ASSUME \E sorted \in SortingsOfTop : Do("Sort", SortFunction(m, sorted))
      PROVE  \E out : Becomes(out) /\ (\/ Makes(m, out)
                                      \/ /\ last'.op = "Sort" /\ Body(m, 0) = <<>>
                                         /\ \E sorted : out = SortFunction(m, sorted))
  <2>1. PICK sorted \in SortingsOfTop : Do("Sort", SortFunction(m, sorted))
    BY <1>6
  <2>2. Becomes(SortFunction(m, sorted)) /\ last'.op = "Sort"
    BY <2>1, DoneAs
  <2> QED
    BY <1>5, <2>1, <2>2
<1> QED
  BY <1>3, <1>4, <1>6, DoneAs

\* Sort leaves an empty array where it is.
LEMMA SortedEmpty ==
    ASSUME TypeOK, Body(m, 0) = <<>>, NEW sorted, NEW out, out = SortFunction(m, sorted), Becomes(out),
           last'.err = "none"
    PROVE  heap'[Data(Made)].body = <<>>
<1>1. Sound(m)
  BY MachineParts
<1>2. PICK r : r = Done(m)
  OBVIOUS
<1>3. SortFunction(m, sorted) = Typed(m, <<"array">>, r)
  BY <1>2 DEF SortFunction
<1>4. PICK sig : sig = <<"array">> /\ Len(sig) = 1 /\ sig[1] = "array"
  <2>1. PICK s : s = <<"array">>
    OBVIOUS
  <2>2. Len(s) = 1 /\ s[1] = "array"
    BY <2>1
  <2> QED
    BY <2>1, <2>2
<1>5. out.m = m /\ Load(m) >= 1
  <2>1. out \in {r, Raise(m, "StackUnderflow"), Raise(m, "TypeMismatch")}
    BY <1>3, <1>4 DEF Typed, Needs
  <2>2. Load(m) < 1 => out = Raise(m, "StackUnderflow")
    BY <1>3, <1>4 DEF Typed, Needs
  <2>3. out.err = "none"
    BY DEF Becomes
  <2> QED
    BY <1>1, <1>2, <2>1, <2>2, <2>3, LoadIsNat DEF Raise, Done
<1>6. PICK x : x = DataAt(m, 0)
  OBVIOUS
<1>7. PICK n \in Nat : n = Len(m.st) /\ DOMAIN m.st = 1..n /\ Load(m) = n
  BY <1>1, SeqParts DEF Sound, Load
<1>8. Made = At(m, 0)
  <2>1. n - 0 = n /\ n \in DOMAIN m.st
    BY <1>5, <1>7
  <2>2. At(m, 0) = m.st[n]
    BY <1>7, <2>1 DEF At, Pick
  <2> QED
    BY <1>5, <1>7, <2>2 DEF Made, Becomes
<1>9. TagAt(m, 0) = "array"
  <2>1. out # Raise(m, "TypeMismatch")
    <3>1. Raise(m, "TypeMismatch").err = "TypeMismatch"
      BY DEF Raise
    <3>2. out.err = "none"
      BY DEF Becomes
    <3> QED
      BY <3>1, <3>2
  <2>2. Load(m) \in Nat /\ ~(Load(m) < Len(sig))
    BY <1>1, <1>4, <1>5, LoadIsNat
  <2>3. ~ \E i \in 1..Len(sig) : sig[i] # "any" /\ TagAt(m, Len(sig) - i) # sig[i]
    BY <1>3, <1>4, <2>1, <2>2 DEF Typed, Needs
  <2>4. 1 \in 1..Len(sig) /\ Len(sig) - 1 = 0 /\ sig[1] = "array"
    BY <1>4
  <2> QED
    BY <2>3, <2>4
<1>10. x \in Ids /\ m.heap[x].body = <<>>
  <2>1. m.heap[x].body = <<>>
    BY <1>6 DEF Body, Payload, DataAt
  <2>2. At(m, 0) \in Toks(m.heap)
    BY <1>1, <1>5, LoadIsNat, Operands
  <2>3. PICK t : t = At(m, 0)
    OBVIOUS
  <2>4. t \in Toks(m.heap) /\ Tag(t) = "array" /\ Data(t) = x
    BY <1>6, <1>9, <2>2, <2>3 DEF TagAt, DataAt
  <2>5. x \in Ids
    BY <2>4, TokenData DEF CompositeTags, ArrayTags
  <2> QED
    BY <2>1, <2>5
<1>11. Released(m).heap[x].body = <<>>
  BY <1>1, <1>10, ReleasedParts DEF Free
<1> QED
  BY <1>5, <1>6, <1>8, <1>11 DEF Becomes, DataAt

LEMMA Making ==
    ASSUME TypeOK, Next, vars' # vars, last'.op \in Makers, last'.err = "none",
           ~(last'.op = "Sort" /\ heap'[Data(Made)].body = <<>>)
    PROVE  /\ heap[Data(Made)].kind = "free"
           /\ heap'[Data(Made)].acc = Unlimited
           /\ References([st |-> ostack', es |-> estack', heap |-> heap'], Data(Made)) = 1
<1>1. ~Push /\ ~Quit
  BY DEF Push, Quit, Makers
<1>2. StackStep \/ ContainerStep \/ ArrayStep
  BY <1>1, AccessMakesNone, NumbersMakeNone, LeavesMakeNone, SavedMakeNone DEF Next
<1>3. PICK out : Becomes(out) /\ (\/ Makes(m, out)
                                 \/ /\ last'.op = "Sort" /\ Body(m, 0) = <<>>
                                    /\ \E sorted : out = SortFunction(m, sorted))
  BY <1>2, StacksMake, ContainersMake, ArraysMake
<1>4. Makes(m, out)
  BY <1>3, SortedEmpty
<1> QED
  BY <1>3, <1>4, MadeIsOwn

\* What the operators of Makers leave on top is held by nobody else: no payload
\* of an operand, of a payload inside one or of the execution stack. A put into
\* the result shows in nothing that was there before.
THEOREM ResultsStayOwn == Spec => ResultsAreOwn
<1>1. TypeOK /\ [Next]_vars =>
          [/\ last'.op \in Makers /\ last'.err = "none"
           /\ ~(last'.op = "Sort" /\ heap'[Data(Made)].body = <<>>)
           => /\ heap[Data(Made)].kind = "free"
              /\ heap'[Data(Made)].acc = Unlimited
              /\ References([st |-> ostack', es |-> estack', heap |-> heap'], Data(Made)) = 1]_vars
  BY Making
<1> QED
  BY <1>1, OperandsAreTyped, PTL DEF Spec, ResultsAreOwn
===============================================================================
