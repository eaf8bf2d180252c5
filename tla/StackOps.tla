------------------------------- MODULE StackOps -------------------------------
(***************************************************************************)
(* The operators that rearrange the operand stack                          *)
(* (src/src/builtins/sli_stack.cpp) over the token stack's own moves       *)
(* (src/src/containers/sli_tokenstack.h).  npop, index, copy and roll read *)
(* their counts without looking at the type: the caller passes the integer *)
(* that the operand's payload reads as.                                    *)
(***************************************************************************)
EXTENDS Heap

CONSTANT Modulus    \* size_t wraps at this power of two
ASSUME ModulusAssumption == Modulus \in Nat \ {0}

-----------------------------------------------------------------------------
(* Moves of the token stack *)

\* std::rotate of the top n slots: the slot mid from their bottom comes first.
Rotated(s, n, mid) ==
    LET base == Len(s) - n
    IN  [i \in 1..Len(s) |->
            IF i <= base THEN s[i] ELSE s[base + 1 + ((i - base - 1 + mid) % n)]]

\* The sum n + k is one of a size_t and a long: it is computed without sign.
StackRoll(s, n, k) ==
    IF n = 0 THEN s
    ELSE IF k >= 0 THEN Rotated(s, n, n - (k % n))
    ELSE Rotated(s, n, n - (((n + k) % Modulus) % n))

Rolled(m, n, k) == [m EXCEPT !.st = StackRoll(@, n, k)]

-----------------------------------------------------------------------------
(* The operators *)

PopFunction(m) == Needs(m, 1, Done(Popped(m, 1)))
DupFunction(m) == Needs(m, 1, Done(Pushed(m, At(m, 0))))
ExchFunction(m) ==
    Needs(m, 2, Done(SlotSet(SlotSet(m, 0, At(m, 1)), 1, At(m, 0))))
OverFunction(m) == Needs(m, 2, Done(Pushed(m, At(m, 1))))

NpopFunction(m, n) ==
    Needs(m, 1, Unless(m, n < 0, "RangeCheck",
        Needs(m, n + 1, Done(Popped(m, n + 1)))))

\* Slot n + 1 is one past the slots that the second check asks for.
IndexFunction(m, n) ==
    Needs(m, 1, Unless(m, n < 0, "RangeCheck",
        Needs(m, n + 1,
            Done(SlotSet(m, 0, IF Load(m) = n + 1 THEN Garbage ELSE At(m, n + 1))))))

CopyFunction(m, n) ==
    Needs(m, 1, Unless(m, n < 0, "RangeCheck",
        Needs(m, n + 1,
            LET rest == Drop(m.st, 1)
            IN  Done([m EXCEPT !.st = rest \o SubSeq(rest, Len(rest) - n + 1, Len(rest))]))))

RollFunction(m, n, k) ==
    Needs(m, 2, Unless(m, n < 0, "RangeCheck",
        Needs(m, n + 2, Done(Rolled(Popped(m, 2), n, k)))))

RolluFunction(m) == Needs(m, 3, Done(Rolled(m, 3, 1)))
RolldFunction(m) == Needs(m, 3, Done(Rolled(m, 3, -1)))
RotFunction(m) == Done(Rolled(m, Load(m), 1))

CountFunction(m) == Done(Pushed(m, IntTok(Load(m))))
CounttomarkFunction(m) ==
    Unless(m, ~HasMark(m), "UnmatchedMark", Done(Pushed(m, IntTok(Len(AboveMark(m))))))
ClearFunction(m) == Done([m EXCEPT !.st = <<>>])

OperandstackFunction(m) == Done(PushedNew(m, "array", m.st))

\* The source array may die with its slot, so its elements are copied first.
RestoreostackFunction(m) == Typed(m, <<"array">>, Done([m EXCEPT !.st = Body(m, 0)]))
=============================================================================
