------------------------------- MODULE ArrayOps -------------------------------
(***************************************************************************)
(* The array operators of src/src/builtins/sli_array_module.cpp, but for   *)
(* the Map family, whose frames are in Dispatcher.  None of them looks at  *)
(* the access state, and each leaves a payload of its own.                 *)
(***************************************************************************)
EXTENDS ContainerOps

\* A new array takes the place of the operands of slots 0..n-1.
Replaced(m, n, body) == Done(PushedNew(Popped(m, n), "array", body))

NumberTags == {"integer", "double"}
AllTagged(s, tag) == \A i \in DOMAIN s : Tag(s[i]) = tag

-----------------------------------------------------------------------------
(* Building *)

\* Range with integer arguments: the bounds are on the side di points to, so
\* the quotient that counts the elements is no negative number.
RangeOf(start, stop, di) ==
    IF (di > 0 /\ stop >= start) \/ (di < 0 /\ stop <= start)
    THEN [j \in 1..(1 + Quot(stop - start, di)) |-> IntTok(start + (j - 1) * di)]
    ELSE <<>>

\* With a double among them, every element is start + j * di, rounded.
AsDouble(t) == IF Tag(t) = "double" THEN Data(t) ELSE FromLong(Data(t))
RangeOfDoubles(start, stop, di) ==
    IF \/ Smaller(Zero, di) /\ ~Smaller(stop, start)
       \/ Smaller(di, Zero) /\ ~Smaller(start, stop)
    THEN LET n == 1 + Truncated(Over(Minus(stop, start), di))[2] \div Unit
         IN  [j \in 1..n |-> <<"double", Plus(start, Times(FromLong(j - 1), di))>>]
    ELSE <<>>

RangeFunction(m) ==
    Typed(m, <<"array">>,
        LET args == Body(m, 0)
            n == Len(args)
            ints == AllTagged(args, "integer")
            arg(i) == IF ints THEN Data(args[i]) ELSE AsDouble(args[i])
            one == IF ints THEN 1 ELSE One
            Elements(start, stop, di) ==
                IF ints THEN RangeOf(start, stop, di) ELSE RangeOfDoubles(start, stop, di)
        IN  Unless(m, n \notin 1..3, "RangeCheck",
            Unless(m, \E i \in 1..n : Tag(args[i]) \notin NumberTags, "ArgumentType",
            Unless(m, n = 3 /\ arg(3) = (IF ints THEN 0 ELSE Zero), "DivisionByZero",
                Replaced(m, 1,
                    IF n = 1 THEN Elements(one, IF ints THEN arg(1) ELSE Floor(arg(1)), one)
                    ELSE IF n = 2 THEN Elements(arg(1), arg(2), one)
                    ELSE Elements(arg(1), arg(2), arg(3)))))))

\* A negative length throws std::length_error, which the dispatcher reports.
ArrayFunction(m) ==
    Typed(m, <<"integer">>,
        Unless(m, DataAt(m, 0) < 0, "C++Exception",
            Replaced(m, 1, [i \in 1..DataAt(m, 0) |-> IntTok(0)])))

-----------------------------------------------------------------------------
(* Taking apart and rearranging *)

NonEmptyArrayLike(m, out) ==
    Needs(m, 1,
        Unless(m, TagAt(m, 0) \notin ArrayTags, "ArgumentType",
        Unless(m, Size(m, 0) = 0, "RangeCheck", out)))

FirstFunction(m) == NonEmptyArrayLike(m, Done(SlotSet(m, 0, Body(m, 0)[1])))
RestFunction(m) ==
    NonEmptyArrayLike(m, Done(PushedNew(Popped(m, 1), TagAt(m, 0), Tail(Body(m, 0)))))

ReverseFunction(m) == Typed(m, <<"array">>, Replaced(m, 1, Reverse(Body(m, 0))))

RotateKeeps(m) ==
    Typed(m, <<"array", "integer">>,
        LET s == Body(m, 1)
            k == DataAt(m, 0) % Len(s)
        IN  IF s = <<>> \/ k = 0 THEN Done(Popped(m, 1))
            ELSE Replaced(m, 2, SubSeq(s, Len(s) - k + 1, Len(s)) \o SubSeq(s, 1, Len(s) - k)))

\* The last k of the size elements come first, k in 0..size-1.
RotateFunction(m) ==
    Typed(m, <<"array", "integer">>,
        LET s == Body(m, 1)
            k == DataAt(m, 0) % Len(s)
        IN  Replaced(m, 2,
                IF s = <<>> THEN s
                ELSE SubSeq(s, Len(s) - k + 1, Len(s)) \o SubSeq(s, 1, Len(s) - k)))

FlattenFunction(m) ==
    Typed(m, <<"array">>,
        LET s == Body(m, 0)
            part(t) == IF Tag(t) = "array" THEN Payload(m, t).body ELSE <<t>>
            flat[n \in 0..Len(s)] == IF n = 0 THEN <<>> ELSE flat[n - 1] \o part(s[n])
        IN  Replaced(m, 1, flat[Len(s)]))

\* Lexicographic order of two strings of characters.
Before(s, t) ==
    \E k \in 1..Len(t) :
        /\ \A j \in 1..(k - 1) : j <= Len(s) /\ s[j] = t[j]
        /\ k > Len(s) \/ s[k] < t[k]

Less(m, t, u) ==
    CASE Tag(t) = "string" -> Before(Payload(m, t).body, Payload(m, u).body)
      [] Tag(t) = "double" -> Smaller(Data(t), Data(u))
      [] OTHER -> Data(t) < Data(u)

\* std::sort: elements that compare equal come in an order it does not promise,
\* so which one of these it makes of s is for the caller to choose.
Sorted(m, s) ==
    {p \in {[i \in DOMAIN s |-> s[q[i]]] : q \in Bijection(DOMAIN s, DOMAIN s)} :
        \A i, j \in DOMAIN s : i < j => ~Less(m, p[j], p[i])}

Sortable(s) == AllTagged(s, Tag(s[1])) /\ Tag(s[1]) \in NumberTags \cup {"string"}

SortFunction(m, sorted) ==
    Typed(m, <<"array">>,
        LET s == Body(m, 0)
        IN  IF s = <<>> THEN Done(m)
            ELSE Unless(m, ~Sortable(s), "ArgumentType", Replaced(m, 1, sorted)))

-----------------------------------------------------------------------------
(* Two levels *)

\* New arrays with these bodies and one that holds them, in place of n operands.
Nested(m, n, bodies) ==
    LET free == FreeIds(m)
        rows == [i \in DOMAIN bodies |-> <<"array", Nth(free, i)>>]
    IN  IF Len(bodies) >= Cardinality(free) THEN Done([m EXCEPT !.room = FALSE])
        ELSE Done([m EXCEPT
                !.heap = [x \in Ids |->
                    IF x \notin free \/ Rank(free, x) > Len(bodies) + 1 THEN m.heap[x]
                    ELSE IF Rank(free, x) <= Len(bodies) THEN Fresh("array", bodies[Rank(free, x)])
                    ELSE Fresh("array", rows)],
                !.st = Append(Drop(@, n), <<"array", Nth(free, Len(bodies) + 1)>>)])

TransposeFunction(m) ==
    Typed(m, <<"array">>,
        LET s == Body(m, 0)
            row(i) == Payload(m, s[i]).body
        IN  IF s = <<>> THEN Replaced(m, 1, <<>>)
            ELSE Unless(m, ~AllTagged(s, "array"), "ArgumentType",
                 Unless(m, \E i \in DOMAIN s : Len(row(i)) # Len(row(1)), "RangeCheck",
                    Nested(m, 1, [j \in DOMAIN row(1) |-> [i \in DOMAIN s |-> row(i)[j]]]))))

PartitionFunction(m) ==
    Typed(m, <<"array", "integer", "integer">>,
        LET s == Body(m, 2)
            n == DataAt(m, 1)
            d == DataAt(m, 0)
            windows == IF Len(s) >= n THEN (Len(s) - n) \div d + 1 ELSE 0
        IN  Unless(m, n <= 0 \/ d <= 0, "RangeCheck",
                Nested(m, 3, [w \in 1..windows |->
                                 SubSeq(s, (w - 1) * d + 1, (w - 1) * d + n)])))

-----------------------------------------------------------------------------
(* Between an array and the stack *)

ArrayloadFunction(m) ==
    Typed(m, <<"array">>,
        Done([m EXCEPT !.st = Drop(@, 1) \o Body(m, 0) \o <<IntTok(Size(m, 0))>>]))

ArraystoreReversed(m) ==
    Typed(m, <<"integer">>,
        LET n == DataAt(m, 0)
        IN  Unless(m, n < 0, "RangeCheck",
            Unless(m, Load(m) < n + 1, "StackUnderflow",
                Replaced(m, n + 1, Reverse(SubSeq(m.st, Load(m) - n, Load(m) - 1))))))

ArraystoreFunction(m) ==
    Typed(m, <<"integer">>,
        LET n == DataAt(m, 0)
        IN  Unless(m, n < 0, "RangeCheck",
            Unless(m, Load(m) < n + 1, "StackUnderflow",
                Replaced(m, n + 1, SubSeq(m.st, Load(m) - n, Load(m) - 1)))))

\* ] makes an array of what lies above the mark.
ArraycreateFunction(m) ==
    Unless(m, ~HasMark(m), "SyntaxError",
        Done(PushedNew(Popped(m, Len(AboveMark(m)) + 1), "array", AboveMark(m))))

\* GetMax and GetMin: an element replaces the best so far when it beats it.
MinMaxFunction(m, max) ==
    Typed(m, <<"array">>,
        LET s == Body(m, 0)
            Better(b, t) == IF IF max THEN Less(m, b, t) ELSE Less(m, t, b) THEN t ELSE b
            best[n \in 0..Len(s)] == IF n = 0 THEN s[1] ELSE Better(best[n - 1], s[n])
        IN  Unless(m, s = <<>>, "RangeCheck",
            Unless(m, Tag(s[1]) \notin NumberTags \/ ~AllTagged(s, Tag(s[1])), "ArgumentType",
                Done(SlotSet(m, 0, best[Len(s)])))))

\* A token of an array always has a payload.
ValidFunction(m) == Typed(m, <<"array">>, Done(SlotSet(m, 0, Bool(TRUE))))
=============================================================================
