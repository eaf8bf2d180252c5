---------------------------------- MODULE Heap --------------------------------
(***************************************************************************)
(* Composite objects: the reference-counted payloads that the tokens of    *)
(* arrays, procedures, strings and dictionaries share (TokenArray,         *)
(* SLIString and Dictionary of src/src/containers), with the access state  *)
(* of src/src/builtins/sli_access.h.                                       *)
(*                                                                         *)
(* A machine m is the record of the operand stack st, the execution stack  *)
(* es, of which only the tokens with a payload matter here, the heap, and  *)
(* room, which becomes FALSE when the model's heap is too small.           *)
(*                                                                         *)
(* A composite token is <<tag, id>>: array, procedure and litprocedure are *)
(* three tags of one payload.  A payload's reference count is the number of*)
(* places that hold a token of it; Token's constructors keep it so.        *)
(*                                                                         *)
(* An operator of the language is a function of m: it returns the machine  *)
(* it leaves behind and the error it raises, "none" when it raises none.   *)
(***************************************************************************)
EXTENDS Tokens, FiniteSets

CONSTANTS
    MaxObjects,     \* how many payloads exist at once
    CharSize        \* how many character codes there are (256 in the code)

ASSUME MaxObjectsAssumption == MaxObjects \in Nat
ASSUME CharSizeAssumption == CharSize \in Nat \ {0}

Ids == 1..MaxObjects

ArrayTags == {"array", "procedure", "litprocedure"}
CompositeTags == ArrayTags \cup {"string", "dictionary"}

\* The payload a tag stands for.
Kind(tag) == IF tag \in ArrayTags THEN "array" ELSE tag

(* The lattice of access states; every check compares with one of them. *)
Unlimited == 0
ReadOnly == 1
ExecuteOnly == 2
NoAccess == 3

\* lost counts the references that nobody holds and nobody took back.
Free == [kind |-> "free", acc |-> Unlimited, body |-> <<>>, lost |-> 0]
Fresh(tag, body) == [kind |-> Kind(tag), acc |-> Unlimited, body |-> body, lost |-> 0]

IsWritable(o) == o.acc = Unlimited
IsReadable(o) == o.acc <= ReadOnly

-----------------------------------------------------------------------------
(* Reading the machine: slot 0 is the top *)

Load(m) == Len(m.st)
At(m, i) == Pick(m.st, i)
TagAt(m, i) == Tag(At(m, i))
DataAt(m, i) == Data(At(m, i))
Payload(m, t) == m.heap[Data(t)]
Body(m, i) == Payload(m, At(m, i)).body
Size(m, i) == Cardinality(DOMAIN Body(m, i))

\* The tokens inside a payload: an array's elements, a dictionary's values.
Contents(o) == IF o.kind \in {"array", "dictionary"} THEN o.body ELSE <<>>

Refers(t, x) == Tag(t) \in CompositeTags /\ Data(t) = x

\* A token that the code has no right to: read out of bounds, or a payload
\* overwritten as if it were a number.
Garbage == <<"garbage", 0>>

\* What a negative index counts from the end; -1 when it is out of range.
ResolveIndex(n, size) ==
    LET k == IF n < 0 THEN n + size ELSE n
    IN  IF k \in 0..(size - 1) THEN k ELSE -1

\* The tokens above the topmost mark.
LastMark(m) == SelectLastInSeq(m.st, LAMBDA t : Tag(t) = "mark")
HasMark(m) == LastMark(m) > 0
AboveMark(m) == SubSeq(m.st, LastMark(m) + 1, Load(m))

-----------------------------------------------------------------------------
(* Reference counts *)

Uses(s, x) == {k \in DOMAIN s : Refers(s[k], x)}
Holders(m, x) == {y \in Ids : Uses(Contents(m.heap[y]), x) # {}}
Rooted(m, x) == Uses(m.st, x) # {} \/ Uses(m.es, x) # {}

ReferencesOfStacks(m, x) ==
    Cardinality(Uses(m.st, x)) + Cardinality(Uses(m.es, x)) + m.heap[x].lost
References(m, x) ==
    Cardinality(Uses(m.st, x)) + Cardinality(Uses(m.es, x)) + m.heap[x].lost
    + Cardinality(UNION {{y} \X Uses(Contents(m.heap[y]), x) : y \in Ids})

OrphansOfStacks(m, d) ==
    {x \in Ids : m.heap[x].kind # "free" /\ m.heap[x].lost = 0 /\ ~Rooted(m, x)}

\* Payloads that nothing outside d holds any more.
Orphans(m, d) ==
    {x \in Ids : /\ m.heap[x].kind # "free" /\ m.heap[x].lost = 0
                 /\ ~Rooted(m, x) /\ Holders(m, x) \subseteq d}

\* A count that reaches zero frees the payload, and with it what it held, and so
\* on.  Payloads that hold each other stay for ever.
Dead(m) ==
    LET loose == {x \in Ids : m.heap[x].kind # "free" /\ ~Rooted(m, x)}
        dead[n \in Nat] == IF n = 0 THEN {} ELSE Orphans(m, dead[n - 1])
    IN  dead[Cardinality(loose)]

Released(m) ==
    IF Orphans(m, {}) = {} THEN m
    ELSE LET dead == Dead(m)
         IN  [m EXCEPT !.heap = [x \in Ids |-> IF x \in dead THEN Free ELSE m.heap[x]]]

-----------------------------------------------------------------------------
(* Changing the machine *)

WithKey(d, k, v) == [x \in DOMAIN d \cup {k} |-> IF x = k THEN v ELSE d[x]]

\* The n-th of a set of numbers, in their order.
Rank(S, x) == Cardinality({y \in S : y <= x})
Nth(S, n) == CHOOSE x \in S : Rank(S, x) = n

FreeIds(m) == {x \in Ids : m.heap[x].kind = "free"}
LeastFree(m) == Min(FreeIds(m))

Popped(m, n) == [m EXCEPT !.st = Drop(@, n)]
Pushed(m, t) == [m EXCEPT !.st = Append(@, t)]
SlotSet(m, i, t) == [m EXCEPT !.st = SetPick(@, i, t)]
Retagged(m, tag) == SlotSet(m, 0, <<tag, DataAt(m, 0)>>)

\* A new payload, its only token pushed.
PushedNew(m, tag, body) ==
    LET x == LeastFree(m)
    IN  IF FreeIds(m) = {} THEN [m EXCEPT !.room = FALSE]
        ELSE [m EXCEPT !.heap[x] = Fresh(tag, body), !.st = Append(@, <<tag, x>>)]

Written(m, x, body) == [m EXCEPT !.heap[x].body = body]
Lost(m, x) == [m EXCEPT !.heap[x].lost = @ + 1]
Narrowed(m, x, acc) == [m EXCEPT !.heap[x].acc = IF acc > @ THEN acc ELSE @]

-----------------------------------------------------------------------------
(* Outcomes of an operator *)

\* The errors that the operators raise; "C++Exception" is the dispatcher's name
\* for what the library throws.
Errors ==
    { "ArgumentType", "BadIO", "C++Exception", "DivisionByZero", "InvalidAccess",
      "PositiveIntegerExpected", "RangeCheck", "StackUnderflow", "SyntaxError",
      "TypeMismatch", "UndefinedName", "UnmatchedMark", "WriteProtected" }

Done(m) == [err |-> "none", m |-> m]
Raise(m, e) == [err |-> e, m |-> m]

\* The operator needs n tokens.
Needs(m, n, out) == IF Load(m) < n THEN Raise(m, "StackUnderflow") ELSE out

\* The operator needs the operands of a signature, bottom first.
Typed(m, sig, out) ==
    Needs(m, Len(sig),
          IF \E i \in 1..Len(sig) :
                 sig[i] # "any" /\ TagAt(m, Len(sig) - i) # sig[i]
          THEN Raise(m, "TypeMismatch") ELSE out)

Unless(m, bad, e, out) == IF bad THEN Raise(m, e) ELSE out

Readable(m, i, out) ==
    Unless(m, ~IsReadable(Payload(m, At(m, i))), "InvalidAccess", out)
Writable(m, i, out) ==
    Unless(m, ~IsWritable(Payload(m, At(m, i))), "WriteProtected", out)

\* The pair of an index and a container's size that the interval operators take.
InRange(n, size) == n \in 0..(size - 1)
=============================================================================
