----------------------------- MODULE ContainerOps -----------------------------
(***************************************************************************)
(* The operators on arrays, procedures, strings and dictionaries           *)
(* (src/src/builtins/sli_container_ops.cpp, sli_op_bodies.h, sli_cow.h).   *)
(* A compact operator looks at the tag of the collection and hands over to *)
(* the leaf for that type, which checks its own operands.                  *)
(***************************************************************************)
EXTENDS Heap, Doubles

CONSTANT Order      \* the names, in the order in which a dictionary iterates over its keys
Names == ToSet(Order)
ASSUME OrderAssumption == Order \in Seq(Names) /\ IsInjective(Order)

Char(n) == n % CharSize
Keys(d) ==
    LET at == {i \in DOMAIN Order : Order[i] \in DOMAIN d}
    IN  [n \in 1..Cardinality(at) |-> Order[Nth(at, n)]]

-----------------------------------------------------------------------------
(* length, size, empty, reserve: no access check but reserve's *)

LengthLeaf(m, tag) == Typed(m, <<tag>>, Done(SlotSet(m, 0, IntTok(Size(m, 0)))))
LengthArrayLike(m, tag) == LengthLeaf(m, tag)
LengthString(m) == LengthLeaf(m, "string")
LengthDict(m) == LengthLeaf(m, "dictionary")

SizeArrayLike(m) == Typed(m, <<"array">>, Done(Pushed(m, IntTok(Size(m, 0)))))
SizeString(m) == Typed(m, <<"string">>, Done(Pushed(m, IntTok(Size(m, 0)))))

EmptyLeaf(m, tag) == Typed(m, <<tag>>, Done(Pushed(m, Bool(Size(m, 0) = 0))))
EmptyArrayLike(m) == EmptyLeaf(m, "array")
EmptyString(m) == EmptyLeaf(m, "string")
EmptyDict(m) == EmptyLeaf(m, "dictionary")

\* Capacity is not part of the state.
ReserveLeaf(m, tag) ==
    Typed(m, <<tag, "integer">>, Writable(m, 1,
        Unless(m, DataAt(m, 0) < 0, "PositiveIntegerExpected", Done(Popped(m, 1)))))
ReserveArrayLike(m) == ReserveLeaf(m, "array")
ReserveString(m) == ReserveLeaf(m, "string")

LengthFunction(m) ==
    Needs(m, 1,
        CASE TagAt(m, 0) \in ArrayTags -> LengthArrayLike(m, TagAt(m, 0))
          [] TagAt(m, 0) = "string" -> LengthString(m)
          [] TagAt(m, 0) = "dictionary" -> LengthDict(m)
          [] OTHER -> Raise(m, "ArgumentType"))

EmptyFunction(m) ==
    Needs(m, 1,
        CASE TagAt(m, 0) = "array" -> EmptyArrayLike(m)
          [] TagAt(m, 0) = "dictionary" -> EmptyDict(m)
          [] TagAt(m, 0) = "string" -> EmptyString(m)
          [] OTHER -> Raise(m, "ArgumentType"))

SizeFunction(m) ==
    Needs(m, 1,
        CASE TagAt(m, 0) = "array" -> SizeArrayLike(m)
          [] TagAt(m, 0) = "string" -> SizeString(m)
          [] OTHER -> Raise(m, "ArgumentType"))

ReserveFunction(m) ==
    Needs(m, 2,
        CASE TagAt(m, 1) = "array" -> ReserveArrayLike(m)
          [] TagAt(m, 1) = "string" -> ReserveString(m)
          [] OTHER -> Raise(m, "ArgumentType"))

-----------------------------------------------------------------------------
(* get *)

GetArrayLike(m, tag) ==
    Typed(m, <<tag, "integer">>, Readable(m, 1,
        LET k == ResolveIndex(DataAt(m, 0), Size(m, 1))
        IN  Unless(m, k < 0, "RangeCheck", Done(Pushed(Popped(m, 2), Body(m, 1)[k + 1])))))

GetString(m) ==
    Typed(m, <<"string", "integer">>, Readable(m, 1,
        LET k == ResolveIndex(DataAt(m, 0), Size(m, 1))
        IN  Unless(m, k < 0, "RangeCheck",
                Done(Pushed(Popped(m, 2), IntTok(Body(m, 1)[k + 1]))))))

\* The first index that is no integer, or is out of range, decides the error.
GetArrayArray(m) ==
    Typed(m, <<"array", "array">>, Readable(m, 1, Readable(m, 0,
        LET arr == Body(m, 1)
            idxs == Body(m, 0)
            at(i) == ResolveIndex(Data(idxs[i]), Len(arr))
            wrong == {i \in DOMAIN idxs : Tag(idxs[i]) # "integer" \/ at(i) < 0}
        IN  IF wrong = {}
            THEN Done(PushedNew(Popped(m, 2), "array",
                                [i \in DOMAIN idxs |-> arr[at(i) + 1]]))
            ELSE LET i == CHOOSE i \in wrong : \A j \in wrong : i <= j
                 IN  Raise(m, IF Tag(idxs[i]) # "integer" THEN "ArgumentType"
                                                          ELSE "RangeCheck"))))

GetDict(m) ==
    Typed(m, <<"dictionary", "literal">>, Readable(m, 1,
        Unless(m, DataAt(m, 0) \notin DOMAIN Body(m, 1), "UndefinedName",
            Done(Pushed(Popped(m, 2), Body(m, 1)[DataAt(m, 0)])))))

GetFunction(m) ==
    Needs(m, 2,
        CASE TagAt(m, 1) \in ArrayTags /\ TagAt(m, 0) = "integer"
                 -> GetArrayLike(m, TagAt(m, 1))
          [] TagAt(m, 1) = "array" /\ TagAt(m, 0) = "array" -> GetArrayArray(m)
          [] TagAt(m, 1) = "string" /\ TagAt(m, 0) = "integer" -> GetString(m)
          [] TagAt(m, 1) = "dictionary" /\ TagAt(m, 0) = "literal" -> GetDict(m)
          [] OTHER -> Raise(m, "ArgumentType"))

-----------------------------------------------------------------------------
(* put: assigns in place, whoever else holds the container *)

\* The value of a string's put is read as an integer whatever it is.
PutElement(m, value) ==
    Writable(m, 2,
        LET k == ResolveIndex(DataAt(m, 1), Size(m, 2))
        IN  Unless(m, k < 0, "RangeCheck",
                Done(Popped(Written(m, DataAt(m, 2), [Body(m, 2) EXCEPT ![k + 1] = value]), 2))))

\* One step down a path from the token that the walk has reached: it must be
\* an array, of which slot k is the next one.  The first error stays.
PathStep(m, walk, index) ==
    LET x == Data(walk.tok)
        k == ResolveIndex(Data(index), Len(m.heap[x].body))
        Fail(e) == [walk EXCEPT !.err = e]
    IN  IF walk.err # "none" THEN walk
        ELSE IF Tag(walk.tok) # "array" \/ Tag(index) # "integer" THEN Fail("ArgumentType")
        ELSE IF ~IsReadable(m.heap[x]) THEN Fail("InvalidAccess")
        ELSE IF k < 0 THEN Fail("RangeCheck")
        ELSE [tok |-> m.heap[x].body[k + 1], x |-> x, k |-> k, err |-> "none"]

PathWalk(m, path) ==
    LET walk[n \in 0..Len(path)] ==
            IF n = 0 THEN [tok |-> At(m, 2), x |-> 0, k |-> 0, err |-> "none"]
            ELSE PathStep(m, walk[n - 1], path[n])
    IN  walk[Len(path)]

PutPathAnywhere(m) ==
    LET leaf == PathWalk(m, Body(m, 1))
    IN  Unless(m, Size(m, 1) = 0, "RangeCheck", Unless(m, leaf.err # "none", leaf.err,
            Done(Popped(Written(m, leaf.x,
                                [m.heap[leaf.x].body EXCEPT ![leaf.k + 1] = At(m, 0)]), 2))))

\* Only the last array of the walk is written, and nobody gets a copy first.
PutPath(m) ==
    Readable(m, 1, Unless(m, Size(m, 1) = 0, "RangeCheck",
        LET leaf == PathWalk(m, Body(m, 1))
        IN  Unless(m, leaf.err # "none", leaf.err,
            Unless(m, ~IsWritable(m.heap[leaf.x]), "WriteProtected",
                Done(Popped(Written(m, leaf.x,
                                    [m.heap[leaf.x].body EXCEPT ![leaf.k + 1] = At(m, 0)]), 2))))))

PutDict(m) ==
    Writable(m, 2,
        Done(Popped(Written(m, DataAt(m, 2), WithKey(Body(m, 2), DataAt(m, 1), At(m, 0))), 3)))

PutFunction(m, char) ==
    Needs(m, 3,
        CASE TagAt(m, 2) \in ArrayTags /\ TagAt(m, 1) = "integer" -> PutElement(m, At(m, 0))
          [] TagAt(m, 2) = "array" /\ TagAt(m, 1) = "array" -> PutPath(m)
          [] TagAt(m, 2) = "string" /\ TagAt(m, 1) = "integer" -> PutElement(m, Char(char))
          [] TagAt(m, 2) = "dictionary" /\ TagAt(m, 1) = "literal" -> PutDict(m)
          [] OTHER -> Raise(m, "ArgumentType"))

-----------------------------------------------------------------------------
(* Numbers out of strings *)

\* cvi_s and cvd_s: the C library reads a number from the characters, or finds
\* none; which one is for the caller to choose.
StringAs(m, number) == Typed(m, <<"string">>, Readable(m, 0, Done(SlotSet(m, 0, number))))
StringIsNoNumber(m) == Typed(m, <<"string">>, Readable(m, 0, Raise(m, "ArgumentType")))

-----------------------------------------------------------------------------
(* Dictionaries *)

\* A dictionary that may be read gives way to an array.
DictionaryAs(m, elements) ==
    Typed(m, <<"dictionary">>, Readable(m, 0,
        Done(PushedNew(Popped(m, 1), "array", elements))))

KeysFunction(m) ==
    LET ks == Keys(Body(m, 0)) IN DictionaryAs(m, [i \in DOMAIN ks |-> Lit(ks[i])])
ValuesFunction(m) ==
    LET ks == Keys(Body(m, 0)) IN DictionaryAs(m, [i \in DOMAIN ks |-> Body(m, 0)[ks[i]]])
CvaDictFunction(m) ==
    LET ks == Keys(Body(m, 0))
        pair(k) == <<Lit(k), Body(m, 0)[k]>>
    IN  DictionaryAs(m, [i \in 1..(2 * Len(ks)) |-> pair(ks[(i + 1) \div 2])[2 - (i % 2)]])

\* >> makes a dictionary of the keys and values above the mark, from the top
\* down: of two pairs with the same key the lower one stays.
DictconstructFunction(m) ==
    LET s == AboveMark(m)
        ks == {i \in DOMAIN s : i % 2 = 1}
        Lower(k) == CHOOSE i \in ks : Data(s[i]) = k /\ \A j \in ks : Data(s[j]) = k => i <= j
    IN  Unless(m, ~HasMark(m), "SyntaxError",
        Unless(m, Len(s) % 2 # 0 \/ \E i \in ks : Tag(s[i]) # "literal", "ArgumentType",
            Done(PushedNew(Popped(m, Len(s) + 1), "dictionary",
                           [k \in {Data(s[i]) : i \in ks} |-> s[Lower(k) + 1]]))))

\* No dictionary of this model is on the dictionary stack: see DictStack.
CleardictFunction(m) ==
    Typed(m, <<"dictionary">>, Writable(m, 0,
        Done(Popped(Written(m, DataAt(m, 0), <<>>), 1))))

ClonedictFunction(m) ==
    Typed(m, <<"dictionary">>, Readable(m, 0,
        Done(PushedNew(m, "dictionary", Body(m, 0)))))

KnownFunction(m) ==
    Typed(m, <<"dictionary", "literal">>, Readable(m, 1,
        Done(Pushed(Popped(m, 2), Bool(DataAt(m, 0) \in DOMAIN Body(m, 1))))))

\* A trie, which the code hands to cva_t, is no operand of this model.
CvaFunction(m) ==
    Needs(m, 1,
        CASE TagAt(m, 0) = "dictionary" -> CvaDictFunction(m)
          [] TagAt(m, 0) \in {"procedure", "litprocedure"} -> Done(Retagged(m, "array"))
          [] OTHER -> Raise(m, "ArgumentType"))

-----------------------------------------------------------------------------
(* join, search *)

JoinLeaf(m, tag) ==
    Typed(m, <<tag, tag>>, Readable(m, 1, Readable(m, 0,
        Done(PushedNew(Popped(m, 2), tag, Body(m, 1) \o Body(m, 0))))))
JoinString(m) == JoinLeaf(m, "string")
JoinArray(m) == JoinLeaf(m, "array")
JoinProcedure(m) == JoinLeaf(m, "procedure")

JoinFunction(m) ==
    Needs(m, 2,
        CASE TagAt(m, 1) = "array" -> JoinArray(m)
          [] TagAt(m, 1) = "string" -> JoinString(m)
          [] TagAt(m, 1) = "procedure" -> JoinProcedure(m)
          [] OTHER -> Raise(m, "ArgumentType"))

\* Token's equality: strings by contents, arrays and dictionaries by identity,
\* across the tags that share a payload or a name.
NameTags == {"name", "literal", "symbol"}
TokenEq(m, t, u) ==
    CASE Tag(t) = "string" /\ Tag(u) = "string" -> Payload(m, t).body = Payload(m, u).body
      [] Tag(t) \in NameTags /\ Tag(u) \in NameTags -> Data(t) = Data(u)
      [] Tag(t) \in ArrayTags /\ Tag(u) \in ArrayTags -> Data(t) = Data(u)
      [] Tag(t) = "double" /\ Tag(u) = "double" -> Equal(Data(t), Data(u))
      [] OTHER -> Tag(t) = Tag(u) /\ Data(t) = Data(u)

\* The positions, from 0, where b occurs in a.
StringOccurrences(a, b) ==
    {p \in 0..(Len(a) - Len(b)) : \A i \in DOMAIN b : a[p + i] = b[i]}
TokenOccurrences(m, a, b) ==
    {p \in 0..(Len(a) - Len(b)) : \A i \in DOMAIN b : TokenEq(m, a[p + i], b[i])}
First(ps) == CHOOSE p \in ps : \A q \in ps : p <= q

\* The haystack is copied and pushed again when there is no match.
SearchString(m) ==
    Typed(m, <<"string", "string">>, Readable(m, 1, Readable(m, 0,
        LET hay == Body(m, 1)
            needle == Body(m, 0)
            found == StringOccurrences(hay, needle)
            rest == Popped(m, 2)
        IN  IF found = {} THEN Done(Pushed(PushedNew(rest, "string", hay), Bool(FALSE)))
            ELSE LET p == First(found)
                     post == PushedNew(rest, "string", SubSeq(hay, p + Len(needle) + 1, Len(hay)))
                     match == PushedNew(post, "string", needle)
                 IN  Done(Pushed(PushedNew(match, "string", SubSeq(hay, 1, p)), Bool(TRUE))))))

\* The end of the haystack means no match, even for what matches there.
SearchArray(m) ==
    Typed(m, <<"array", "array">>, Readable(m, 1, Readable(m, 0,
        LET hay == Body(m, 1)
            needle == Body(m, 0)
            found == {p \in TokenOccurrences(m, hay, needle) : p < Len(hay)}
            rest == Popped(m, 2)
        IN  IF found = {} THEN Done(SlotSet(m, 0, Bool(FALSE)))
            ELSE LET p == First(found)
                     post == PushedNew(rest, "array", SubSeq(hay, p + Len(needle) + 1, Len(hay)))
                     match == Pushed(post, At(m, 0))
                 IN  Done(Pushed(PushedNew(match, "array", SubSeq(hay, 1, p)), Bool(TRUE))))))

SearchFunction(m) ==
    Needs(m, 2,
        CASE TagAt(m, 1) = "array" -> SearchArray(m)
          [] TagAt(m, 1) = "string" -> SearchString(m)
          [] OTHER -> Raise(m, "ArgumentType"))

-----------------------------------------------------------------------------
(* Intervals *)

GetintervalLeaf(m, tag) ==
    Typed(m, <<tag, "integer", "integer">>, Readable(m, 2,
        LET count == DataAt(m, 0)
            idx == DataAt(m, 1)
        IN  Unless(m, count < 0, "PositiveIntegerExpected",
            Unless(m, ~InRange(idx, Size(m, 2)) \/ idx + count > Size(m, 2), "RangeCheck",
                Done(PushedNew(Popped(m, 3), tag, SubSeq(Body(m, 2), idx + 1, idx + count)))))))
GetintervalArray(m) == GetintervalLeaf(m, "array")
GetintervalString(m) == GetintervalLeaf(m, "string")

GetintervalFunction(m) ==
    Needs(m, 3,
        CASE TagAt(m, 2) = "array" -> GetintervalArray(m)
          [] TagAt(m, 2) = "string" -> GetintervalString(m)
          [] OTHER -> Raise(m, "ArgumentType"))

\* s with the n elements from idx on replaced by t; n is cut to what s has.
Spliced(s, idx, n, t) == SubSeq(s, 1, idx) \o t \o SubSeq(s, idx + n + 1, Len(s))

InsertUnread(m, tag) ==
    Typed(m, <<tag, "integer", tag>>, Readable(m, 2,
        Unless(m, ~InRange(DataAt(m, 1), Size(m, 2)), "RangeCheck",
            Done(PushedNew(Popped(m, 3), tag, Spliced(Body(m, 2), DataAt(m, 1), 0, Body(m, 0)))))))

InsertLeaf(m, tag) ==
    Typed(m, <<tag, "integer", tag>>, Readable(m, 2, Readable(m, 0,
        Unless(m, ~InRange(DataAt(m, 1), Size(m, 2)), "RangeCheck",
            Done(PushedNew(Popped(m, 3), tag, Spliced(Body(m, 2), DataAt(m, 1), 0, Body(m, 0))))))))
InsertArray(m) == InsertLeaf(m, "array")
InsertString(m) == InsertLeaf(m, "string")

ReplaceLeaf(m, tag) ==
    Typed(m, <<tag, "integer", "integer", tag>>, Readable(m, 3, Readable(m, 0,
        Unless(m, ~InRange(DataAt(m, 2), Size(m, 3)), "RangeCheck",
        Unless(m, DataAt(m, 1) < 0, "PositiveIntegerExpected",
            Done(PushedNew(Popped(m, 4), tag,
                           Spliced(Body(m, 3), DataAt(m, 2), DataAt(m, 1), Body(m, 0)))))))))
ReplaceArray(m) == ReplaceLeaf(m, "array")
ReplaceString(m) == ReplaceLeaf(m, "string")

EraseLeaf(m, tag) ==
    Typed(m, <<tag, "integer", "integer">>, Readable(m, 2,
        Unless(m, ~InRange(DataAt(m, 1), Size(m, 2)), "RangeCheck",
        Unless(m, DataAt(m, 0) < 0, "PositiveIntegerExpected",
            Done(PushedNew(Popped(m, 3), tag,
                           Spliced(Body(m, 2), DataAt(m, 1), DataAt(m, 0), <<>>)))))))
EraseArrayLike(m, tag) == EraseLeaf(m, tag)
EraseString(m) == EraseLeaf(m, "string")

InsertElementArray(m) ==
    Typed(m, <<"array", "integer", "any">>, Readable(m, 2,
        Unless(m, ~InRange(DataAt(m, 1), Size(m, 2)), "RangeCheck",
            Done(PushedNew(Popped(m, 3), "array",
                           Spliced(Body(m, 2), DataAt(m, 1), 0, <<At(m, 0)>>))))))
InsertElementString(m) ==
    Typed(m, <<"string", "integer", "integer">>, Readable(m, 2,
        Unless(m, ~InRange(DataAt(m, 1), Size(m, 2)), "RangeCheck",
            Done(PushedNew(Popped(m, 3), "string",
                           Spliced(Body(m, 2), DataAt(m, 1), 0, <<Char(DataAt(m, 0))>>))))))

InsertelementFunction(m) ==
    Needs(m, 3,
        CASE TagAt(m, 2) = "array" -> InsertElementArray(m)
          [] TagAt(m, 2) = "string" -> InsertElementString(m)
          [] OTHER -> Raise(m, "ArgumentType"))

-----------------------------------------------------------------------------
(* append, prepend: extend in place when nobody else holds the container,
   and a copy of it, unlimited again, when somebody does *)

InPlace(m, i) == m

CowSlot(m, i) ==
    IF References(m, DataAt(m, i)) <= 1 THEN m
    ELSE IF FreeIds(m) = {} THEN [m EXCEPT !.room = FALSE]
    ELSE [m EXCEPT !.heap[LeastFree(m)] = Fresh(TagAt(m, i), Body(m, i)),
                   !.st = SetPick(@, i, <<TagAt(m, i), LeastFree(m)>>)]
CowArraySlot(m) == CowSlot(m, 1)
CowStringSlot(m) == CowSlot(m, 1)

\* The container of slot 1 takes a new body and the value is dropped.
Extended(m, body) == Done(Popped(Written(m, DataAt(m, 1), body), 1))

AppendArrayLike(m, tag) ==
    Typed(m, <<tag, "any">>, Writable(m, 1,
        LET own == CowArraySlot(m) IN Extended(own, Append(Body(own, 1), At(m, 0)))))
AppendString(m) ==
    Typed(m, <<"string", "integer">>, Writable(m, 1,
        LET own == CowStringSlot(m) IN Extended(own, Append(Body(own, 1), Char(DataAt(m, 0))))))
PrependArrayLike(m, tag) ==
    Typed(m, <<tag, "any">>, Writable(m, 1,
        LET own == CowArraySlot(m) IN Extended(own, <<At(m, 0)>> \o Body(own, 1))))
PrependString(m) ==
    Typed(m, <<"string", "integer">>, Writable(m, 1,
        LET own == CowStringSlot(m) IN Extended(own, <<Char(DataAt(m, 0))>> \o Body(own, 1))))

AppendFunction(m) ==
    Needs(m, 2,
        CASE TagAt(m, 1) \in {"array", "procedure"} -> AppendArrayLike(m, TagAt(m, 1))
          [] TagAt(m, 1) = "string" -> AppendString(m)
          [] OTHER -> Raise(m, "ArgumentType"))

PrependFunction(m) ==
    Needs(m, 2,
        CASE TagAt(m, 1) \in {"array", "procedure"} -> PrependArrayLike(m, TagAt(m, 1))
          [] TagAt(m, 1) = "string" -> PrependString(m)
          [] OTHER -> Raise(m, "ArgumentType"))

-----------------------------------------------------------------------------
(* eq: only the contents of strings are compared, so only strings are gated *)

ReadableString(m, i, out) ==
    IF TagAt(m, i) = "string" THEN Readable(m, i, out) ELSE out

EqFunction(m) ==
    Needs(m, 2, ReadableString(m, 1, ReadableString(m, 0,
        Done(Pushed(Popped(m, 2), Bool(TokenEq(m, At(m, 1), At(m, 0))))))))
NeqFunction(m) ==
    Needs(m, 2, ReadableString(m, 1, ReadableString(m, 0,
        Done(Pushed(Popped(m, 2), Bool(~TokenEq(m, At(m, 1), At(m, 0))))))))

=============================================================================
