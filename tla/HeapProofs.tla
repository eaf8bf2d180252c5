------------------------------- MODULE HeapProofs -----------------------------
(***************************************************************************)
(* What the operators are made of, for any programs and bounds.  The moves *)
(* of the stack, the changes of the payloads and the folds over arrays     *)
(* keep every token and every payload in one piece; nothing that is held   *)
(* is released; a payload that may not be written keeps its contents.      *)
(* Good says so of an operator's outcome, and the operators on stacks,     *)
(* access states, containers and arrays follow one by one.                 *)
(***************************************************************************)
EXTENDS Operators, Numbers, FiniteSetTheorems

-----------------------------------------------------------------------------
(* Sequences *)

\* A sequence is the function of its positions.
LEMMA SeqParts ==
    ASSUME NEW S, NEW s \in Seq(S)
    PROVE  /\ Len(s) \in Nat /\ DOMAIN s = 1..Len(s) /\ \A i \in 1..Len(s) : s[i] \in S
           /\ (s = <<>>) = (Len(s) = 0)
OBVIOUS

LEMMA SeqMono ==
    ASSUME NEW S, NEW T, S \subseteq T, NEW s \in Seq(S)
    PROVE  s \in Seq(T)
OBVIOUS

\* A function of 1..n is a sequence, the empty one when n is no natural number.
LEMMA SeqBuilt ==
    ASSUME NEW S, NEW n \in Int, NEW f, f = [i \in 1..n |-> f[i]], \A i \in 1..n : f[i] \in S
    PROVE  f \in Seq(S) /\ (n >= 0 => Len(f) = n) /\ (n < 0 => f = <<>>)
<1>1. CASE n >= 0
  BY <1>1
<1>2. CASE n < 0
  <2>1. 1..n = 1..0
    BY <1>2
  <2>2. f = [i \in 1..0 |-> f[i]]
    BY <2>1
  <2>3. f = <<>>
    BY <2>2
  <2> QED
    BY <1>2, <2>3
<1> QED
  BY <1>1, <1>2

LEMMA SeqAppend ==
    ASSUME NEW S, NEW s \in Seq(S), NEW t \in S
    PROVE  /\ Append(s, t) \in Seq(S) /\ Len(Append(s, t)) = Len(s) + 1
           /\ Append(s, t)[Len(s) + 1] = t
           /\ \A i \in 1..Len(s) : Append(s, t)[i] = s[i]
OBVIOUS

LEMMA SeqConcat ==
    ASSUME NEW S, NEW s \in Seq(S), NEW t \in Seq(S)
    PROVE  /\ s \o t \in Seq(S) /\ Len(s \o t) = Len(s) + Len(t)
           /\ \A i \in 1..Len(s) : (s \o t)[i] = s[i]
           /\ \A i \in 1..Len(t) : (s \o t)[Len(s) + i] = t[i]
OBVIOUS

LEMMA SeqUnits ==
    ASSUME NEW S
    PROVE  <<>> \in Seq(S) /\ (\A t \in S : <<t>> \in Seq(S)) /\ (\A t, u \in S : <<t, u>> \in Seq(S))
OBVIOUS

\* What lies between two positions, and nothing when there is nothing between.
LEMMA SeqCut ==
    ASSUME NEW S, NEW s \in Seq(S), NEW i \in Int, NEW j \in Int, i >= 1, j <= Len(s)
    PROVE  /\ SubSeq(s, i, j) \in Seq(S)
           /\ Len(SubSeq(s, i, j)) = IF j >= i THEN 1 + j - i ELSE 0
           /\ \A l \in 1..(1 + j - i) : SubSeq(s, i, j)[l] = s[i + l - 1]
<1>1. PICK n \in Int : n = 1 + j - i
  OBVIOUS
<1>2. PICK f : f = [l \in 1..n |-> s[i + l - 1]]
  OBVIOUS
<1>3. SubSeq(s, i, j) = f
  BY <1>1, <1>2
<1>4. \A l \in 1..n : f[l] = s[i + l - 1] /\ i + l - 1 \in 1..Len(s)
  BY <1>1, <1>2
<1>5. \A l \in 1..n : f[l] \in S
  BY <1>4, SeqParts
<1>6. f \in Seq(S) /\ (n >= 0 => Len(f) = n) /\ (n < 0 => f = <<>>)
  <2>1. f = [l \in 1..n |-> f[l]]
    BY <1>2
  <2> QED
    BY <1>5, <2>1, SeqBuilt
<1>7. Len(f) = IF j >= i THEN 1 + j - i ELSE 0
  <2>1. CASE n >= 0
    BY <1>1, <1>6, <2>1
  <2>2. CASE n < 0
    BY <1>1, <1>6, <2>2
  <2> QED
    BY <2>1, <2>2
<1> QED
  BY <1>1, <1>3, <1>4, <1>6, <1>7

LEMMA SeqDrop ==
    ASSUME NEW S, NEW s \in Seq(S), NEW n \in 0..Len(s)
    PROVE  /\ Drop(s, n) \in Seq(S) /\ Len(Drop(s, n)) = Len(s) - n
           /\ \A i \in 1..(Len(s) - n) : Drop(s, n)[i] = s[i]
<1>1. PICK j \in Int : j = Len(s) - n
  OBVIOUS
<1>2. SubSeq(s, 1, j) \in Seq(S) /\ Len(SubSeq(s, 1, j)) = j
      /\ \A l \in 1..j : SubSeq(s, 1, j)[l] = s[l]
  <2>1. 1 \in Int /\ 1 >= 1 /\ j <= Len(s) /\ j >= 0
    BY <1>1
  <2>2. SubSeq(s, 1, j) \in Seq(S) /\ Len(SubSeq(s, 1, j)) = (IF j >= 1 THEN 1 + j - 1 ELSE 0)
        /\ \A l \in 1..(1 + j - 1) : SubSeq(s, 1, j)[l] = s[1 + l - 1]
    BY <2>1, SeqCut
  <2> QED
    BY <2>1, <2>2
<1> QED
  BY <1>1, <1>2 DEF Drop

LEMMA SeqSetPick ==
    ASSUME NEW S, NEW s \in Seq(S), NEW i \in 0..(Len(s) - 1), NEW t \in S
    PROVE  /\ SetPick(s, i, t) \in Seq(S) /\ Len(SetPick(s, i, t)) = Len(s)
           /\ SetPick(s, i, t)[Len(s) - i] = t
           /\ \A j \in 1..Len(s) : j # Len(s) - i => SetPick(s, i, t)[j] = s[j]
<1>1. PICK n \in 1..Len(s) : n = Len(s) - i
  OBVIOUS
<1>2. PICK r : r = [s EXCEPT ![n] = t]
  OBVIOUS
<1>3. SetPick(s, i, t) = r
  BY <1>1, <1>2 DEF SetPick
<1>4. r \in Seq(S) /\ Len(r) = Len(s) /\ r[n] = t /\ \A j \in 1..Len(s) : j # n => r[j] = s[j]
  BY <1>2
<1> QED
  BY <1>1, <1>3, <1>4

LEMMA SeqSame ==
    ASSUME NEW S, NEW T, NEW s \in Seq(S), NEW t \in Seq(T), Len(s) = Len(t),
           \A i \in 1..Len(s) : s[i] = t[i]
    PROVE  s = t
OBVIOUS

-----------------------------------------------------------------------------
(* Tokens and payloads *)

\* The tokens that a heap has payloads for.
Toks(h) == {t \in Values : IsToken(h, t)}

LEMMA TokensAreToks ==
    ASSUME NEW h, NEW s
    PROVE  AreTokens(h, s) <=> s \in Seq(Toks(h))
<1>1. ASSUME AreTokens(h, s) PROVE s \in Seq(Toks(h))
  <2>1. s \in Seq(Values) /\ \A i \in DOMAIN s : IsToken(h, s[i])
    BY <1>1 DEF AreTokens
  <2>2. \A i \in 1..Len(s) : s[i] \in Toks(h)
    BY <2>1 DEF Toks, IsToken
  <2> QED
    BY <2>1, <2>2
<1>2. ASSUME s \in Seq(Toks(h)) PROVE AreTokens(h, s)
  <2>1. Toks(h) \subseteq Values /\ \A t \in Toks(h) : IsToken(h, t)
    BY DEF Toks
  <2>2. s \in Seq(Values)
    BY <1>2, <2>1
  <2>3. \A i \in DOMAIN s : IsToken(h, s[i])
    BY <1>2, <2>1
  <2> QED
    BY <2>2, <2>3 DEF AreTokens
<1> QED
  BY <1>1, <1>2

\* What an array or a string is made of.
Cells(h, kind) == IF kind = "array" THEN Toks(h) ELSE Characters

LEMMA BodiesAreCells ==
    ASSUME NEW h, NEW b
    PROVE  /\ IsBody(h, "array", b) <=> b \in Seq(Cells(h, "array"))
           /\ IsBody(h, "string", b) <=> b \in Seq(Cells(h, "string"))
           /\ IsBody(h, "free", b) <=> b = <<>>
           /\ IsBody(h, "dictionary", b) <=>
                  DOMAIN b \subseteq Names /\ \A l \in DOMAIN b : IsToken(h, b[l])
<1>1. IsBody(h, "array", b) <=> AreTokens(h, b)
  BY DEF IsBody
<1> QED
  BY <1>1, TokensAreToks DEF IsBody, Cells

LEMMA TagParts ==
    /\ \A x : Tag(IntTok(x)) = "integer" /\ Data(IntTok(x)) = x
    /\ \A x : Tag(Bool(x)) = "bool" /\ Data(Bool(x)) = x
    /\ \A x : Tag(Lit(x)) = "literal" /\ Data(Lit(x)) = x
    /\ \A x : Tag(NameTok(x)) = "name" /\ Data(NameTok(x)) = x
    /\ \A x : Tag(Dbl(x)) = "double" /\ Data(Dbl(x)) = x
    /\ \A x, y : Tag(<<x, y>>) = x /\ Data(<<x, y>>) = y
    /\ Tag(MarkTok) = "mark" /\ Tag(Garbage) = "garbage"
BY DEF Tag, Data, IntTok, Bool, Lit, NameTok, Dbl, MarkTok, Garbage

LEMMA KindOf ==
    /\ \A tag \in ArrayTags : Kind(tag) = "array" /\ tag \in CompositeTags
    /\ Kind("string") = "string" /\ Kind("dictionary") = "dictionary"
    /\ "array" \in ArrayTags /\ "procedure" \in ArrayTags /\ "litprocedure" \in ArrayTags
    /\ "string" \in CompositeTags /\ "dictionary" \in CompositeTags
    /\ "string" \notin ArrayTags /\ "dictionary" \notin ArrayTags
    /\ \A tag \in CompositeTags : Kind(tag) \in {"array", "string", "dictionary"}
BY DEF Kind, ArrayTags, CompositeTags

\* A token of numbers, truth values, names or marks needs no payload.
LEMMA ScalarsAreTokens ==
    ASSUME NEW h
    PROVE  /\ \A n \in Int : IntTok(n) \in Toks(h)
           /\ \A x \in DoubleValues : Dbl(x) \in Toks(h)
           /\ \A b \in BOOLEAN : Bool(b) \in Toks(h)
           /\ \A n \in Names : Lit(n) \in Toks(h) /\ NameTok(n) \in Toks(h)
           /\ MarkTok \in Toks(h) /\ Garbage \in Toks(h)
<1>1. \A t \in Scalars : t \in Values
  BY DEF Values
<1>2. \A t \in Values : Tag(t) \notin CompositeTags => t \in Toks(h)
  BY DEF Toks, IsToken
<1>3. \A tag \in {"integer", "double", "bool", "literal", "name", "mark", "garbage"} : tag \notin CompositeTags
  BY DEF CompositeTags, ArrayTags
<1>4. \A n \in Int : IntTok(n) \in Scalars
  BY DEF Scalars, IntTok
<1>5. \A x \in DoubleValues : Dbl(x) \in Scalars
  BY DEF Scalars, Dbl
<1>6. \A b \in BOOLEAN : Bool(b) \in Scalars
  BY Zenon DEF Scalars, Bool
<1>7. \A n \in Names : Lit(n) \in Scalars /\ NameTok(n) \in Scalars
  BY DEF Scalars, Lit, NameTok
<1>8. MarkTok \in Scalars /\ Garbage \in Scalars
  BY DEF Scalars
<1>9. \A n \in Int : IntTok(n) \in Toks(h)
  BY <1>1, <1>2, <1>3, <1>4, TagParts
<1>10. \A x \in DoubleValues : Dbl(x) \in Toks(h)
  BY <1>1, <1>2, <1>3, <1>5, TagParts
<1>11. \A b \in BOOLEAN : Bool(b) \in Toks(h)
  BY <1>1, <1>2, <1>3, <1>6, TagParts
<1>12. \A n \in Names : Lit(n) \in Toks(h) /\ NameTok(n) \in Toks(h)
  BY <1>1, <1>2, <1>3, <1>7, TagParts
<1>13. MarkTok \in Toks(h) /\ Garbage \in Toks(h)
  BY <1>1, <1>2, <1>3, <1>8, TagParts
<1> QED
  BY <1>9, <1>10, <1>11, <1>12, <1>13

LEMMA TokenData ==
    ASSUME NEW h, NEW t \in Toks(h)
    PROVE  /\ t = <<Tag(t), Data(t)>>
           /\ Tag(t) = "integer" => Data(t) \in Int
           /\ Tag(t) = "double" => Data(t) \in DoubleValues
           /\ Tag(t) = "bool" => Data(t) \in BOOLEAN
           /\ Tag(t) \in {"literal", "name"} => Data(t) \in Names
           /\ Tag(t) \in CompositeTags => Data(t) \in Ids /\ h[Data(t)].kind = Kind(Tag(t))
           /\ Tag(t) \in TypeNames \/ t = Garbage
<1>1. t \in Values /\ IsToken(h, t)
  BY DEF Toks
<1>2. CASE t \in CompositeTags \X Ids
  <2>1. t = <<Tag(t), Data(t)>> /\ Tag(t) \in CompositeTags /\ Data(t) \in Ids
    BY <1>2 DEF Tag, Data
  <2>2. h[Data(t)].kind = Kind(Tag(t))
    BY <1>1, <2>1 DEF IsToken
  <2>3. Tag(t) \notin {"integer", "double", "bool", "literal", "name"}
    BY <2>1 DEF CompositeTags, ArrayTags
  <2> QED
    BY <2>1, <2>2, <2>3 DEF TypeNames
<1>3. CASE t \in Scalars
  <2>1. CASE t \in {"integer"} \X Int
    BY <2>1 DEF Tag, Data, CompositeTags, ArrayTags, TypeNames
  <2>2. CASE t \in {"double"} \X DoubleValues
    BY <2>2 DEF Tag, Data, CompositeTags, ArrayTags, TypeNames
  <2>3. CASE t \in {"bool"} \X BOOLEAN
    BY <2>3 DEF Tag, Data, CompositeTags, ArrayTags, TypeNames
  <2>4. CASE t \in {"literal", "name"} \X Names
    BY <2>4 DEF Tag, Data, CompositeTags, ArrayTags, TypeNames
  <2>5. CASE t \in {MarkTok, Garbage}
    BY <2>5 DEF Tag, Data, CompositeTags, ArrayTags, TypeNames, MarkTok, Garbage
  <2> QED
    BY <1>3, <2>1, <2>2, <2>3, <2>4, <2>5 DEF Scalars
<1> QED
  BY <1>1, <1>2, <1>3 DEF Values

\* The same payload under another of its tags.
LEMMA RetagIsToken ==
    ASSUME NEW h, NEW x \in Ids, NEW tag \in CompositeTags, h[x].kind = Kind(tag)
    PROVE  <<tag, x>> \in Toks(h)
<1>1. <<tag, x>> \in Values
  BY DEF Values
<1> QED
  BY <1>1, TagParts DEF Toks, IsToken

-----------------------------------------------------------------------------
(* Machines: what keeps the payloads and the stacks in one piece *)

Shape(k) == k = [st |-> k.st, es |-> k.es, heap |-> k.heap, room |-> k.room]
Sound(k) ==
    /\ Shape(k)
    /\ k.st \in Seq(Toks(k.heap)) /\ k.es \in Seq(Toks(k.heap))
    /\ WellFormed(k.heap)

\* No payload changes its kind or loosens its access state.
Kept(h, g) ==
    \A x \in Ids : StaysNarrowed(h[x], g[x]) /\ (h[x].kind # "free" => g[x].kind = h[x].kind)

Ok(k, g) == Sound(k) /\ Sound(g) /\ Kept(k.heap, g.heap)

LEMMA PayloadParts ==
    ASSUME NEW h, WellFormed(h), NEW x \in Ids
    PROVE  /\ h[x] = [kind |-> h[x].kind, acc |-> h[x].acc, body |-> h[x].body, lost |-> h[x].lost]
           /\ h[x].acc \in Int /\ h[x].acc >= 0 /\ h[x].acc <= 3 /\ h[x].lost \in Nat
           /\ h[x].kind = "free" => h[x] = Free
           /\ h[x].kind \in {"free", "array", "string", "dictionary"}
           /\ IsBody(h, h[x].kind, h[x].body)
           /\ DOMAIN h = Ids
<1>1. IsPayload(h, h[x]) /\ DOMAIN h = Ids
  BY DEF WellFormed
<1>2. h[x].acc \in Int /\ h[x].acc >= 0 /\ h[x].acc <= 3
  BY <1>1 DEF IsPayload, Unlimited, NoAccess
<1>3. h[x].kind \in {"free", "array", "string", "dictionary"}
  BY <1>1 DEF IsPayload, IsBody
<1> QED
  BY <1>1, <1>2, <1>3 DEF IsPayload

LEMMA KeptSame ==
    ASSUME NEW h, WellFormed(h)
    PROVE  Kept(h, h)
<1>1. ASSUME NEW x \in Ids PROVE h[x].acc >= h[x].acc
  <2>1. h[x].acc \in Int
    BY PayloadParts
  <2> QED
    BY <2>1
<1> QED
  BY <1>1 DEF Kept, StaysNarrowed

LEMMA KeptTrans ==
    ASSUME NEW f, NEW g, NEW h, WellFormed(f), WellFormed(g), WellFormed(h), Kept(f, g), Kept(g, h)
    PROVE  Kept(f, h)
<1> SUFFICES ASSUME NEW x \in Ids
             PROVE  StaysNarrowed(f[x], h[x]) /\ (f[x].kind # "free" => h[x].kind = f[x].kind)
  BY DEF Kept
<1>1. /\ StaysNarrowed(f[x], g[x]) /\ (f[x].kind # "free" => g[x].kind = f[x].kind)
      /\ StaysNarrowed(g[x], h[x]) /\ (g[x].kind # "free" => h[x].kind = g[x].kind)
  BY DEF Kept
<1>2. PICK a, b, c \in Int : a = f[x].acc /\ b = g[x].acc /\ c = h[x].acc /\ a >= 0 /\ b >= 0
  BY PayloadParts
<1> QED
  BY <1>1, <1>2 DEF StaysNarrowed, Unlimited

LEMMA ToksKept ==
    ASSUME NEW h, NEW g, Kept(h, g)
    PROVE  Toks(h) \subseteq Toks(g)
<1> SUFFICES ASSUME NEW t \in Toks(h) PROVE t \in Toks(g)
  OBVIOUS
<1>1. t \in Values /\ (Tag(t) \in CompositeTags => h[Data(t)].kind = Kind(Tag(t)) /\ Data(t) \in Ids)
  BY TokenData DEF Toks, IsToken
<1>2. Tag(t) \in CompositeTags => g[Data(t)].kind = Kind(Tag(t))
  BY <1>1, KindOf DEF Kept
<1> QED
  BY <1>1, <1>2 DEF Toks, IsToken

LEMMA BodyKept ==
    ASSUME NEW h, NEW g, Kept(h, g), NEW kind, NEW b, IsBody(h, kind, b),
           kind \in {"free", "array", "string", "dictionary"}
    PROVE  IsBody(g, kind, b)
<1>1. Toks(h) \subseteq Toks(g)
  BY ToksKept
<1>2. CASE kind = "array"
  <2>1. b \in Seq(Toks(h))
    BY <1>2, BodiesAreCells DEF Cells
  <2>2. b \in Seq(Toks(g))
    BY <1>1, <2>1, SeqMono
  <2> QED
    BY <1>2, <2>2, BodiesAreCells DEF Cells
<1>3. CASE kind \in {"free", "string"}
  BY <1>3, BodiesAreCells DEF Cells
<1>4. CASE kind = "dictionary"
  <2>1. DOMAIN b \subseteq Names /\ \A l \in DOMAIN b : IsToken(h, b[l])
    BY <1>4, BodiesAreCells
  <2>2. \A l \in DOMAIN b : IsToken(g, b[l])
    <3>1. \A t : IsToken(h, t) => t \in Toks(h)
      BY DEF Toks, IsToken
    <3> QED
      BY <1>1, <2>1, <3>1 DEF Toks
  <2> QED
    BY <1>4, <2>1, <2>2, BodiesAreCells
<1> QED
  BY <1>2, <1>3, <1>4

\* What a heap becomes when some of its payloads change.
LEMMA HeapUpdate ==
    ASSUME NEW h, NEW g, WellFormed(h), DOMAIN g = Ids, Kept(h, g),
           \A x \in Ids : g[x] = h[x] \/ IsPayload(g, g[x])
    PROVE  WellFormed(g)
<1>1. ASSUME NEW x \in Ids, g[x] = h[x] PROVE IsPayload(g, g[x])
  <2>1. IsPayload(h, h[x])
    BY DEF WellFormed
  <2>2. IsBody(g, h[x].kind, h[x].body)
    BY PayloadParts, BodyKept
  <2> QED
    BY <1>1, <2>1, <2>2 DEF IsPayload
<1> QED
  BY <1>1 DEF WellFormed

LEMMA OkSame ==
    ASSUME NEW k, Sound(k)
    PROVE  Ok(k, k)
BY KeptSame DEF Ok, Sound

LEMMA OkTrans ==
    ASSUME NEW k, NEW g, NEW f, Ok(k, g), Ok(g, f)
    PROVE  Ok(k, f)
<1>1. WellFormed(k.heap) /\ WellFormed(g.heap) /\ WellFormed(f.heap)
  BY DEF Ok, Sound
<1> QED
  BY <1>1, KeptTrans DEF Ok

\* The same heap under another operand stack.
WithStack(k, s) == [k EXCEPT !.st = s]

LEMMA OkStack ==
    ASSUME NEW k, Sound(k), NEW s \in Seq(Toks(k.heap))
    PROVE  /\ Ok(k, WithStack(k, s)) /\ WithStack(k, s).st = s
           /\ WithStack(k, s).heap = k.heap /\ WithStack(k, s).es = k.es
           /\ WithStack(k, s).room = k.room
<1>1. k = [st |-> k.st, es |-> k.es, heap |-> k.heap, room |-> k.room]
  BY DEF Sound, Shape
<1>2. PICK g : g = WithStack(k, s)
  OBVIOUS
<1>3. g.st = s /\ g.es = k.es /\ g.heap = k.heap /\ g.room = k.room
      /\ g = [st |-> g.st, es |-> g.es, heap |-> g.heap, room |-> g.room]
  BY <1>1, <1>2 DEF WithStack
<1>4. Sound(g)
  BY <1>3 DEF Sound, Shape
<1>5. Kept(k.heap, g.heap)
  BY <1>3, KeptSame DEF Sound
<1>6. Ok(k, g)
  BY <1>4, <1>5 DEF Ok
<1> QED
  BY <1>2, <1>3, <1>6

LEMMA OkPopped ==
    ASSUME NEW k, Sound(k), NEW n \in 0..Load(k)
    PROVE  /\ Ok(k, Popped(k, n)) /\ Load(Popped(k, n)) = Load(k) - n
           /\ Popped(k, n).heap = k.heap /\ Popped(k, n).es = k.es
           /\ Popped(k, n).room = k.room /\ Popped(k, n).st = Drop(k.st, n)
<1>1. Drop(k.st, n) \in Seq(Toks(k.heap)) /\ Len(Drop(k.st, n)) = Len(k.st) - n
  BY SeqDrop DEF Sound, Load
<1>2. Popped(k, n) = WithStack(k, Drop(k.st, n))
  BY DEF Popped, WithStack
<1> QED
  BY <1>1, <1>2, OkStack DEF Load

LEMMA OkPushed ==
    ASSUME NEW k, Sound(k), NEW t \in Toks(k.heap)
    PROVE  /\ Ok(k, Pushed(k, t)) /\ Load(Pushed(k, t)) = Load(k) + 1
           /\ Pushed(k, t).heap = k.heap /\ Pushed(k, t).es = k.es
           /\ Pushed(k, t).room = k.room /\ Pushed(k, t).st = Append(k.st, t)
<1>1. Append(k.st, t) \in Seq(Toks(k.heap)) /\ Len(Append(k.st, t)) = Len(k.st) + 1
  BY SeqAppend DEF Sound
<1>2. PICK s : s = Append(k.st, t)
  OBVIOUS
<1>3. s \in Seq(Toks(k.heap)) /\ Len(s) = Len(k.st) + 1
  BY <1>1, <1>2
<1>4. Pushed(k, t) = WithStack(k, s)
  BY <1>2 DEF Pushed, WithStack
<1>5. /\ Ok(k, Pushed(k, t)) /\ Load(Pushed(k, t)) = Load(k) + 1
      /\ Pushed(k, t).heap = k.heap /\ Pushed(k, t).es = k.es
      /\ Pushed(k, t).room = k.room /\ Pushed(k, t).st = s
  BY <1>3, <1>4, OkStack DEF Load
<1> QED
  BY <1>2, <1>5

LEMMA OkSlotSet ==
    ASSUME NEW k, Sound(k), NEW i \in 0..(Load(k) - 1), NEW t \in Toks(k.heap)
    PROVE  /\ Ok(k, SlotSet(k, i, t)) /\ Load(SlotSet(k, i, t)) = Load(k)
           /\ SlotSet(k, i, t).heap = k.heap /\ SlotSet(k, i, t).es = k.es
           /\ SlotSet(k, i, t).room = k.room /\ SlotSet(k, i, t).st = SetPick(k.st, i, t)
<1>1. SetPick(k.st, i, t) \in Seq(Toks(k.heap)) /\ Len(SetPick(k.st, i, t)) = Len(k.st)
  <2>1. PICK s : s = k.st
    OBVIOUS
  <2>2. PICK S : S = Toks(k.heap)
    OBVIOUS
  <2>3. s \in Seq(S) /\ t \in S /\ i \in 0..(Len(s) - 1)
    BY <2>1, <2>2 DEF Sound, Load
  <2>4. SetPick(s, i, t) \in Seq(S) /\ Len(SetPick(s, i, t)) = Len(s)
    BY <2>3, SeqSetPick
  <2> QED
    BY <2>1, <2>2, <2>4
<1>2. SlotSet(k, i, t) = WithStack(k, SetPick(k.st, i, t))
  BY DEF SlotSet, WithStack
<1> QED
  BY <1>1, <1>2, OkStack DEF Load

\* A fresh payload is one of its kind.
LEMMA FreshIsPayload ==
    ASSUME NEW h, NEW tag \in CompositeTags, NEW b, IsBody(h, Kind(tag), b)
    PROVE  /\ IsPayload(h, Fresh(tag, b)) /\ Fresh(tag, b).kind = Kind(tag)
           /\ Fresh(tag, b).body = b /\ Fresh(tag, b).acc = Unlimited /\ Fresh(tag, b).lost = 0
           /\ Fresh(tag, b).kind # "free"
BY KindOf DEF Fresh, IsPayload, Unlimited, NoAccess

\* A free payload becomes one of its own.
LEMMA HeapGrows ==
    ASSUME NEW h, WellFormed(h), NEW x \in Ids, h[x].kind = "free",
           NEW tag \in CompositeTags, NEW b, IsBody(h, Kind(tag), b),
           NEW g, DOMAIN g = Ids, g[x] = Fresh(tag, b), \A y \in Ids : y # x => g[y] = h[y]
    PROVE  WellFormed(g) /\ Kept(h, g)
<1>1. Kept(h, h)
  BY KeptSame
<1>2. Kept(h, g)
  BY <1>1 DEF Kept, StaysNarrowed
<1>3. IsBody(g, Kind(tag), b)
  BY <1>2, KindOf, BodyKept
<1>4. IsPayload(g, g[x])
  BY <1>3, FreshIsPayload
<1> QED
  BY <1>2, <1>4, HeapUpdate

LEMMA LeastFreeIsFree ==
    ASSUME NEW k, FreeIds(k) # {}
    PROVE  LeastFree(k) \in Ids /\ k.heap[LeastFree(k)].kind = "free"
<1>1. FreeIds(k) \subseteq Ids /\ Ids \subseteq Nat
  BY MaxObjectsAssumption DEF FreeIds, Ids
<1>2. \E x \in FreeIds(k) : \A y \in FreeIds(k) : x <= y
  BY <1>1, LeastExists
<1>3. LeastFree(k) \in FreeIds(k)
  BY <1>2 DEF LeastFree, Min
<1> QED
  BY <1>1, <1>3 DEF FreeIds

LEMMA OkPushedNew ==
    ASSUME NEW k, Sound(k), NEW tag \in CompositeTags, NEW b, IsBody(k.heap, Kind(tag), b)
    PROVE  /\ Ok(k, PushedNew(k, tag, b))
           /\ PushedNew(k, tag, b).es = k.es
           /\ FreeIds(k) = {} =>
                  /\ PushedNew(k, tag, b).heap = k.heap /\ PushedNew(k, tag, b).st = k.st
                  /\ PushedNew(k, tag, b).room = FALSE
           /\ FreeIds(k) # {} =>
                  /\ PushedNew(k, tag, b).st = Append(k.st, <<tag, LeastFree(k)>>)
                  /\ PushedNew(k, tag, b).room = k.room
                  /\ PushedNew(k, tag, b).heap = [k.heap EXCEPT ![LeastFree(k)] = Fresh(tag, b)]
<1>1. k = [st |-> k.st, es |-> k.es, heap |-> k.heap, room |-> k.room] /\ DOMAIN k.heap = Ids
      /\ WellFormed(k.heap) /\ k.st \in Seq(Toks(k.heap)) /\ k.es \in Seq(Toks(k.heap))
  BY DEF Sound, Shape, WellFormed
<1>2. CASE FreeIds(k) = {}
  <2>1. PICK g : g = [k EXCEPT !.room = FALSE]
    OBVIOUS
  <2>2. PushedNew(k, tag, b) = g
    BY <1>2, <2>1 DEF PushedNew
  <2>3. g.st = k.st /\ g.es = k.es /\ g.heap = k.heap /\ g.room = FALSE /\ Shape(g)
    BY <1>1, <2>1 DEF Shape
  <2>4. Ok(k, g)
    BY <1>1, <2>3, KeptSame DEF Ok, Sound
  <2> QED
    BY <1>2, <2>2, <2>3, <2>4
<1>3. CASE FreeIds(k) # {}
  <2>1. PICK x \in Ids : x = LeastFree(k) /\ k.heap[x].kind = "free"
    BY <1>3, LeastFreeIsFree
  <2>2. PICK h : h = [k.heap EXCEPT ![x] = Fresh(tag, b)]
    OBVIOUS
  <2>3. PICK g : g = [k EXCEPT !.heap = h, !.st = Append(@, <<tag, x>>)]
    OBVIOUS
  <2>4. PushedNew(k, tag, b) = g
    BY <1>1, <1>3, <2>1, <2>2, <2>3 DEF PushedNew
  <2>5. g.st = Append(k.st, <<tag, x>>) /\ g.es = k.es /\ g.heap = h /\ g.room = k.room /\ Shape(g)
    BY <1>1, <2>3 DEF Shape
  <2>6. DOMAIN h = Ids /\ h[x] = Fresh(tag, b) /\ \A y \in Ids : y # x => h[y] = k.heap[y]
    BY <1>1, <2>2
  <2>7. WellFormed(h) /\ Kept(k.heap, h)
    BY <1>1, <2>1, <2>6, HeapGrows
  <2>8. Toks(k.heap) \subseteq Toks(h) /\ <<tag, x>> \in Toks(h)
    BY <2>6, <2>7, ToksKept, RetagIsToken, FreshIsPayload
  <2>9. k.st \in Seq(Toks(h)) /\ k.es \in Seq(Toks(h))
    BY <1>1, <2>8, SeqMono
  <2>10. Append(k.st, <<tag, x>>) \in Seq(Toks(h))
    BY <2>8, <2>9, SeqAppend
  <2>11. Ok(k, g)
    BY <2>5, <2>7, <2>9, <2>10 DEF Ok, Sound
  <2> QED
    BY <1>3, <2>1, <2>2, <2>4, <2>5, <2>11
<1> QED
  BY <1>2, <1>3

\* A payload that may be written takes another body.
LEMMA OkWritten ==
    ASSUME NEW k, Sound(k), NEW x \in Ids, k.heap[x].acc = Unlimited, k.heap[x].kind # "free",
           NEW b, IsBody(k.heap, k.heap[x].kind, b)
    PROVE  /\ Ok(k, Written(k, x, b))
           /\ Written(k, x, b).st = k.st /\ Written(k, x, b).es = k.es
           /\ Written(k, x, b).room = k.room
           /\ \A y \in Ids : y # x => Written(k, x, b).heap[y] = k.heap[y]
           /\ Written(k, x, b).heap[x].kind = k.heap[x].kind
           /\ Written(k, x, b).heap[x].acc = Unlimited
           /\ Written(k, x, b).heap[x].body = b
           /\ Written(k, x, b).heap[x].lost = k.heap[x].lost
<1>1. k = [st |-> k.st, es |-> k.es, heap |-> k.heap, room |-> k.room] /\ DOMAIN k.heap = Ids
      /\ WellFormed(k.heap) /\ k.st \in Seq(Toks(k.heap)) /\ k.es \in Seq(Toks(k.heap))
  BY DEF Sound, Shape, WellFormed
<1>2. k.heap[x] = [kind |-> k.heap[x].kind, acc |-> k.heap[x].acc,
                   body |-> k.heap[x].body, lost |-> k.heap[x].lost]
      /\ IsPayload(k.heap, k.heap[x])
      /\ k.heap[x].kind \in {"free", "array", "string", "dictionary"}
  BY <1>1, PayloadParts DEF WellFormed
<1>3. PICK o : o = [k.heap[x] EXCEPT !.body = b]
  OBVIOUS
<1>4. PICK h : h = [k.heap EXCEPT ![x] = o]
  OBVIOUS
<1>5. PICK g : g = [k EXCEPT !.heap = h]
  OBVIOUS
<1>6. Written(k, x, b) = g
  BY <1>1, <1>2, <1>3, <1>4, <1>5 DEF Written
<1>7. o.kind = k.heap[x].kind /\ o.acc = k.heap[x].acc /\ o.body = b /\ o.lost = k.heap[x].lost
      /\ o = [kind |-> o.kind, acc |-> o.acc, body |-> o.body, lost |-> o.lost]
  BY <1>2, <1>3
<1>8. DOMAIN h = Ids /\ h[x] = o /\ \A y \in Ids : y # x => h[y] = k.heap[y]
  BY <1>1, <1>4
<1>9. g.st = k.st /\ g.es = k.es /\ g.heap = h /\ g.room = k.room /\ Shape(g)
  BY <1>1, <1>5 DEF Shape
<1>10. Kept(k.heap, h)
  <2>1. Kept(k.heap, k.heap)
    BY <1>1, KeptSame
  <2>2. StaysNarrowed(k.heap[x], o) /\ o.kind = k.heap[x].kind
    BY <1>7, <2>1 DEF Kept, StaysNarrowed
  <2> QED
    BY <1>8, <2>1, <2>2 DEF Kept
<1>11. IsPayload(h, o)
  <2>1. IsBody(h, o.kind, b)
    BY <1>2, <1>7, <1>10, BodyKept
  <2> QED
    BY <1>2, <1>7, <2>1 DEF IsPayload
<1>12. WellFormed(h)
  BY <1>1, <1>8, <1>10, <1>11, HeapUpdate
<1>13. g.st \in Seq(Toks(h)) /\ g.es \in Seq(Toks(h))
  BY <1>1, <1>9, <1>10, ToksKept, SeqMono
<1>14. Ok(k, g)
  BY <1>9, <1>10, <1>12, <1>13 DEF Ok, Sound
<1> QED
  BY <1>6, <1>7, <1>8, <1>9, <1>14

LEMMA OkNarrowed ==
    ASSUME NEW k, Sound(k), NEW x \in Ids, NEW acc \in {Unlimited, ReadOnly, ExecuteOnly, NoAccess},
           k.heap[x].kind # "free"
    PROVE  Ok(k, Narrowed(k, x, acc))
<1>1. k = [st |-> k.st, es |-> k.es, heap |-> k.heap, room |-> k.room] /\ DOMAIN k.heap = Ids
      /\ WellFormed(k.heap) /\ k.st \in Seq(Toks(k.heap)) /\ k.es \in Seq(Toks(k.heap))
  BY DEF Sound, Shape, WellFormed
<1>2. k.heap[x] = [kind |-> k.heap[x].kind, acc |-> k.heap[x].acc,
                   body |-> k.heap[x].body, lost |-> k.heap[x].lost]
      /\ IsPayload(k.heap, k.heap[x])
      /\ k.heap[x].kind \in {"free", "array", "string", "dictionary"}
      /\ k.heap[x].acc \in Int /\ k.heap[x].acc >= 0 /\ k.heap[x].acc <= 3
  BY <1>1, PayloadParts DEF WellFormed
<1>3. PICK a \in Int : a = (IF acc > k.heap[x].acc THEN acc ELSE k.heap[x].acc)
                       /\ a >= k.heap[x].acc /\ a >= 0 /\ a <= 3
  BY <1>2 DEF Unlimited, ReadOnly, ExecuteOnly, NoAccess
<1>4. PICK o : o = [k.heap[x] EXCEPT !.acc = a]
  OBVIOUS
<1>5. PICK h : h = [k.heap EXCEPT ![x] = o]
  OBVIOUS
<1>6. PICK g : g = [k EXCEPT !.heap = h]
  OBVIOUS
<1>7. Narrowed(k, x, acc) = g
  BY <1>1, <1>2, <1>3, <1>4, <1>5, <1>6 DEF Narrowed
<1>8. o.kind = k.heap[x].kind /\ o.acc = a /\ o.body = k.heap[x].body /\ o.lost = k.heap[x].lost
      /\ o = [kind |-> o.kind, acc |-> o.acc, body |-> o.body, lost |-> o.lost]
  BY <1>2, <1>4
<1>9. DOMAIN h = Ids /\ h[x] = o /\ \A y \in Ids : y # x => h[y] = k.heap[y]
  BY <1>1, <1>5
<1>10. g.st = k.st /\ g.es = k.es /\ g.heap = h /\ g.room = k.room /\ Shape(g)
  BY <1>1, <1>6 DEF Shape
<1>11. Kept(k.heap, h)
  <2>1. Kept(k.heap, k.heap)
    BY <1>1, KeptSame
  <2>2. StaysNarrowed(k.heap[x], o) /\ o.kind = k.heap[x].kind
    BY <1>3, <1>8 DEF StaysNarrowed
  <2> QED
    BY <1>9, <2>1, <2>2 DEF Kept
<1>12. IsPayload(h, o)
  <2>1. IsBody(h, o.kind, o.body)
    BY <1>2, <1>8, <1>11, BodyKept DEF IsPayload
  <2>2. o.acc \in Unlimited..NoAccess
    BY <1>3, <1>8 DEF Unlimited, NoAccess
  <2> QED
    BY <1>2, <1>8, <2>1, <2>2 DEF IsPayload
<1>13. WellFormed(h)
  BY <1>1, <1>9, <1>11, <1>12, HeapUpdate
<1>14. g.st \in Seq(Toks(h)) /\ g.es \in Seq(Toks(h))
  BY <1>1, <1>10, <1>11, ToksKept, SeqMono
<1>15. Ok(k, g)
  BY <1>10, <1>11, <1>13, <1>14 DEF Ok, Sound
<1> QED
  BY <1>7, <1>15

LEMMA OkLost ==
    ASSUME NEW k, Sound(k), NEW x \in Ids, k.heap[x].kind # "free"
    PROVE  /\ Ok(k, Lost(k, x))
           /\ Lost(k, x).st = k.st
<1>1. k = [st |-> k.st, es |-> k.es, heap |-> k.heap, room |-> k.room] /\ DOMAIN k.heap = Ids
      /\ WellFormed(k.heap) /\ k.st \in Seq(Toks(k.heap)) /\ k.es \in Seq(Toks(k.heap))
  BY DEF Sound, Shape, WellFormed
<1>2. k.heap[x] = [kind |-> k.heap[x].kind, acc |-> k.heap[x].acc,
                   body |-> k.heap[x].body, lost |-> k.heap[x].lost]
      /\ IsPayload(k.heap, k.heap[x])
      /\ k.heap[x].kind \in {"free", "array", "string", "dictionary"} /\ k.heap[x].lost \in Nat
  BY <1>1, PayloadParts DEF WellFormed
<1>3. PICK n \in Nat : n = k.heap[x].lost + 1
  BY <1>2
<1>4. PICK o : o = [k.heap[x] EXCEPT !.lost = n]
  OBVIOUS
<1>5. PICK h : h = [k.heap EXCEPT ![x] = o]
  OBVIOUS
<1>6. PICK g : g = [k EXCEPT !.heap = h]
  OBVIOUS
<1>7. Lost(k, x) = g
  BY <1>1, <1>2, <1>3, <1>4, <1>5, <1>6 DEF Lost
<1>8. o.kind = k.heap[x].kind /\ o.acc = k.heap[x].acc /\ o.body = k.heap[x].body /\ o.lost = n
      /\ o = [kind |-> o.kind, acc |-> o.acc, body |-> o.body, lost |-> o.lost]
  BY <1>2, <1>4
<1>9. DOMAIN h = Ids /\ h[x] = o /\ \A y \in Ids : y # x => h[y] = k.heap[y]
  BY <1>1, <1>5
<1>10. g.st = k.st /\ g.es = k.es /\ g.heap = h /\ g.room = k.room /\ Shape(g)
  BY <1>1, <1>6 DEF Shape
<1>11. Kept(k.heap, h)
  <2>1. Kept(k.heap, k.heap)
    BY <1>1, KeptSame
  <2>2. StaysNarrowed(k.heap[x], o) /\ o.kind = k.heap[x].kind
    BY <1>8, <2>1 DEF StaysNarrowed, Kept
  <2> QED
    BY <1>9, <2>1, <2>2 DEF Kept
<1>12. IsPayload(h, o)
  <2>1. IsBody(h, o.kind, o.body)
    BY <1>2, <1>8, <1>11, BodyKept DEF IsPayload
  <2> QED
    BY <1>2, <1>3, <1>8, <2>1 DEF IsPayload
<1>13. WellFormed(h)
  BY <1>1, <1>9, <1>11, <1>12, HeapUpdate
<1>14. g.st \in Seq(Toks(h)) /\ g.es \in Seq(Toks(h))
  BY <1>1, <1>10, <1>11, ToksKept, SeqMono
<1>15. Ok(k, g)
  BY <1>10, <1>11, <1>13, <1>14 DEF Ok, Sound
<1> QED
  BY <1>7, <1>10, <1>15

-----------------------------------------------------------------------------
(* Operands *)

LEMMA LoadIsNat ==
    ASSUME NEW k, Sound(k)
    PROVE  Load(k) \in Nat
BY DEF Sound, Load

LEMMA OperandIsToken ==
    ASSUME NEW k, Sound(k), NEW i \in Int, 0 <= i, i < Load(k)
    PROVE  At(k, i) \in Toks(k.heap)
<1>1. PICK l \in Nat : l = Len(k.st) /\ i < l
  BY LoadIsNat DEF Load
<1>2. l - i \in 1..l
  BY <1>1
<1>3. \A n \in 1..l : k.st[n] \in Toks(k.heap)
  BY <1>1, SeqParts DEF Sound
<1>4. k.st[l - i] \in Toks(k.heap)
  BY <1>2, <1>3
<1> QED
  BY <1>1, <1>4 DEF At, Pick

\* What a token of each type comes with.
LEMMA OperandParts ==
    ASSUME NEW k, Sound(k), NEW i \in Int, 0 <= i, i < Load(k)
    PROVE  /\ At(k, i) \in Toks(k.heap) /\ At(k, i) = <<TagAt(k, i), DataAt(k, i)>>
           /\ TagAt(k, i) = "integer" => DataAt(k, i) \in Int
           /\ TagAt(k, i) = "double" => DataAt(k, i) \in DoubleValues
           /\ TagAt(k, i) = "bool" => DataAt(k, i) \in BOOLEAN
           /\ TagAt(k, i) \in {"literal", "name"} => DataAt(k, i) \in Names
           /\ TagAt(k, i) \in CompositeTags =>
                  /\ DataAt(k, i) \in Ids /\ k.heap[DataAt(k, i)].kind = Kind(TagAt(k, i))
                  /\ k.heap[DataAt(k, i)].kind # "free"
                  /\ Payload(k, At(k, i)) = k.heap[DataAt(k, i)]
                  /\ k.heap[DataAt(k, i)].body = Body(k, i)
                  /\ IsBody(k.heap, Kind(TagAt(k, i)), Body(k, i))
           /\ TagAt(k, i) \in TypeNames \/ At(k, i) = Garbage
<1>1. At(k, i) \in Toks(k.heap)
  BY OperandIsToken
<1>2. PICK t \in Toks(k.heap) : t = At(k, i)
  BY <1>1
<1>3. /\ t = <<Tag(t), Data(t)>>
      /\ Tag(t) = "integer" => Data(t) \in Int
      /\ Tag(t) = "double" => Data(t) \in DoubleValues
      /\ Tag(t) = "bool" => Data(t) \in BOOLEAN
      /\ Tag(t) \in {"literal", "name"} => Data(t) \in Names
      /\ Tag(t) \in CompositeTags => Data(t) \in Ids /\ k.heap[Data(t)].kind = Kind(Tag(t))
      /\ Tag(t) \in TypeNames \/ t = Garbage
  BY TokenData
<1>4. TagAt(k, i) = Tag(t) /\ DataAt(k, i) = Data(t) /\ Payload(k, At(k, i)) = k.heap[Data(t)]
      /\ Body(k, i) = k.heap[Data(t)].body
  BY <1>2 DEF TagAt, DataAt, Payload, Body
<1>5. ASSUME Tag(t) \in CompositeTags
      PROVE  k.heap[Data(t)].kind # "free" /\ IsBody(k.heap, Kind(Tag(t)), Body(k, i))
  <2>1. WellFormed(k.heap)
    BY DEF Sound
  <2>2. IsBody(k.heap, k.heap[Data(t)].kind, k.heap[Data(t)].body)
    BY <1>3, <1>5, <2>1, PayloadParts
  <2> QED
    BY <1>3, <1>4, <1>5, <2>2, KindOf
<1> QED
  BY <1>1, <1>2, <1>3, <1>4, <1>5

\* An array, a procedure or a string is a sequence; its size is its length.
LEMMA SequenceOperand ==
    ASSUME NEW k, Sound(k), NEW i \in Int, 0 <= i, i < Load(k),
           TagAt(k, i) \in ArrayTags \cup {"string"}
    PROVE  /\ Body(k, i) \in Seq(Cells(k.heap, Kind(TagAt(k, i))))
           /\ Size(k, i) = Len(Body(k, i)) /\ Size(k, i) \in Nat
           /\ Len(Body(k, i)) \in Nat
           /\ \A n \in 1..Len(Body(k, i)) : Body(k, i)[n] \in Cells(k.heap, Kind(TagAt(k, i)))
           /\ TagAt(k, i) \in ArrayTags => Body(k, i) \in Seq(Toks(k.heap))
           /\ TagAt(k, i) = "string" => Body(k, i) \in Seq(Characters)
<1>1. TagAt(k, i) \in CompositeTags /\ Kind(TagAt(k, i)) \in {"array", "string"}
  BY KindOf DEF CompositeTags
<1>2. IsBody(k.heap, Kind(TagAt(k, i)), Body(k, i))
  BY <1>1, OperandParts
<1>3. Body(k, i) \in Seq(Cells(k.heap, Kind(TagAt(k, i))))
  BY <1>1, <1>2, BodiesAreCells
<1>4. PICK s \in Seq(Cells(k.heap, Kind(TagAt(k, i)))) : s = Body(k, i)
  BY <1>3
<1>5. Len(s) \in Nat /\ DOMAIN s = 1..Len(s) /\ \A n \in 1..Len(s) : s[n] \in Cells(k.heap, Kind(TagAt(k, i)))
  BY SeqParts
<1>6. Cardinality(1..Len(s)) = Len(s)
  <2>1. PICK n \in Nat : n = Len(s)
    BY <1>5
  <2>2. Cardinality(1..n) = IF 1 > n THEN 0 ELSE n - 1 + 1
    BY FS_Interval
  <2> QED
    BY <2>1, <2>2
<1>7. Size(k, i) = Len(s)
  BY <1>4, <1>5, <1>6 DEF Size
<1> QED
  BY <1>3, <1>4, <1>5, <1>7, KindOf DEF Cells

-----------------------------------------------------------------------------
(* Outcomes *)

\* An operator leaves all in one piece, and when it raises an error nothing has
\* changed.
Good(k, out) ==
    /\ Ok(k, out.m) /\ out.err \in {"none"} \cup Errors
    /\ out.err # "none" => out.m = k /\ out.err # "BadIO"

LEMMA GoodDone ==
    ASSUME NEW k, NEW g, Ok(k, g)
    PROVE  Good(k, Done(g))
<1>1. PICK out : out = Done(g)
  OBVIOUS
<1>2. out.m = g /\ out.err = "none"
  BY <1>1 DEF Done
<1>3. Good(k, out)
  BY <1>2 DEF Good
<1> QED
  BY <1>1, <1>3

\* The errors whose operands stay.
Plain == Errors \ {"BadIO"}

LEMMA PlainErrors ==
    /\ "ArgumentType" \in Plain /\ "C++Exception" \in Plain /\ "DivisionByZero" \in Plain
    /\ "InvalidAccess" \in Plain /\ "PositiveIntegerExpected" \in Plain /\ "RangeCheck" \in Plain
    /\ "StackUnderflow" \in Plain /\ "SyntaxError" \in Plain /\ "TypeMismatch" \in Plain
    /\ "UndefinedName" \in Plain /\ "UnmatchedMark" \in Plain /\ "WriteProtected" \in Plain
BY DEF Plain, Errors

LEMMA GoodRaise ==
    ASSUME NEW k, Sound(k), NEW e \in Plain
    PROVE  Good(k, Raise(k, e))
<1>1. PICK out : out = Raise(k, e)
  OBVIOUS
<1>2. out.m = k /\ out.err = e
  BY <1>1 DEF Raise
<1>3. e \in Errors /\ e # "BadIO"
  BY DEF Plain
<1>4. Good(k, out)
  BY <1>2, <1>3, OkSame DEF Good
<1> QED
  BY <1>1, <1>4

LEMMA GoodNeeds ==
    ASSUME NEW k, Sound(k), NEW n, NEW out, Load(k) >= n => Good(k, out), n \in Int
    PROVE  Good(k, Needs(k, n, out))
<1>1. Good(k, Raise(k, "StackUnderflow"))
  BY GoodRaise, PlainErrors
<1> QED
  BY <1>1, LoadIsNat DEF Needs

LEMMA GoodUnless ==
    ASSUME NEW k, Sound(k), NEW bad, NEW e \in Plain, NEW out, ~bad => Good(k, out)
    PROVE  Good(k, Unless(k, bad, e, out))
<1>1. Good(k, Raise(k, e))
  BY GoodRaise
<1> QED
  BY <1>1 DEF Unless

LEMMA GoodReadable ==
    ASSUME NEW k, Sound(k), NEW i, NEW out, Good(k, out)
    PROVE  Good(k, Readable(k, i, out))
BY GoodUnless, PlainErrors DEF Readable

LEMMA GoodWritable ==
    ASSUME NEW k, Sound(k), NEW i, NEW out,
           Payload(k, At(k, i)).acc = Unlimited => Good(k, out)
    PROVE  Good(k, Writable(k, i, out))
BY GoodUnless, PlainErrors DEF Writable, IsWritable

\* Signatures, from one operand to four.
Matches(k, i, a) == a # "any" => TagAt(k, i) = a

LEMMA GoodTyped1 ==
    ASSUME NEW k, Sound(k), NEW a, NEW out,
           Load(k) >= 1 /\ Matches(k, 0, a) => Good(k, out)
    PROVE  Good(k, Typed(k, <<a>>, out))
<1>1. Good(k, Raise(k, "TypeMismatch"))
  BY GoodRaise, PlainErrors
<1>2. PICK sig : sig = <<a>>
  OBVIOUS
<1>3. Len(sig) = 1 /\ sig[1] = a
  BY <1>2
<1>4. ASSUME Load(k) >= 1
      PROVE  Good(k, IF \E i \in 1..Len(sig) : sig[i] # "any" /\ TagAt(k, Len(sig) - i) # sig[i]
                     THEN Raise(k, "TypeMismatch") ELSE out)
  <2>1. CASE Matches(k, 0, a)
    BY <1>1, <1>4, <2>1
  <2>2. CASE ~Matches(k, 0, a)
    <3>1. 1 \in 1..Len(sig) /\ sig[1] # "any" /\ TagAt(k, Len(sig) - 1) # sig[1]
      BY <1>3, <2>2 DEF Matches
    <3> QED
      BY <1>1, <3>1
  <2> QED
    BY <2>1, <2>2
<1>5. Good(k, Typed(k, sig, out))
  BY <1>3, <1>4, GoodNeeds DEF Typed
<1> QED
  BY <1>2, <1>5

LEMMA GoodTyped2 ==
    ASSUME NEW k, Sound(k), NEW a, NEW b, NEW out,
           Load(k) >= 2 /\ Matches(k, 1, a) /\ Matches(k, 0, b) => Good(k, out)
    PROVE  Good(k, Typed(k, <<a, b>>, out))
<1>1. Good(k, Raise(k, "TypeMismatch"))
  BY GoodRaise, PlainErrors
<1>2. PICK sig : sig = <<a, b>>
  OBVIOUS
<1>3. Len(sig) = 2 /\ sig[1] = a /\ sig[2] = b
  BY <1>2
<1>4. ASSUME Load(k) >= 2
      PROVE  Good(k, IF \E i \in 1..Len(sig) : sig[i] # "any" /\ TagAt(k, Len(sig) - i) # sig[i]
                     THEN Raise(k, "TypeMismatch") ELSE out)
  <2>1. CASE Matches(k, 1, a) /\ Matches(k, 0, b)
    BY <1>1, <1>4, <2>1
  <2>2. CASE ~Matches(k, 1, a)
    <3>1. 1 \in 1..Len(sig) /\ sig[1] # "any" /\ TagAt(k, Len(sig) - 1) # sig[1]
      BY <1>3, <2>2 DEF Matches
    <3> QED
      BY <1>1, <3>1
  <2>3. CASE ~Matches(k, 0, b)
    <3>1. 2 \in 1..Len(sig) /\ sig[2] # "any" /\ TagAt(k, Len(sig) - 2) # sig[2]
      BY <1>3, <2>3 DEF Matches
    <3> QED
      BY <1>1, <3>1
  <2> QED
    BY <2>1, <2>2, <2>3
<1>5. Good(k, Typed(k, sig, out))
  BY <1>3, <1>4, GoodNeeds DEF Typed
<1> QED
  BY <1>2, <1>5

LEMMA GoodTyped3 ==
    ASSUME NEW k, Sound(k), NEW a, NEW b, NEW c, NEW out,
           Load(k) >= 3 /\ Matches(k, 2, a) /\ Matches(k, 1, b) /\ Matches(k, 0, c) => Good(k, out)
    PROVE  Good(k, Typed(k, <<a, b, c>>, out))
<1>1. Good(k, Raise(k, "TypeMismatch"))
  BY GoodRaise, PlainErrors
<1>2. PICK sig : sig = <<a, b, c>>
  OBVIOUS
<1>3. Len(sig) = 3 /\ sig[1] = a /\ sig[2] = b /\ sig[3] = c
  BY <1>2
<1>4. ASSUME Load(k) >= 3
      PROVE  Good(k, IF \E i \in 1..Len(sig) : sig[i] # "any" /\ TagAt(k, Len(sig) - i) # sig[i]
                     THEN Raise(k, "TypeMismatch") ELSE out)
  <2>1. CASE Matches(k, 2, a) /\ Matches(k, 1, b) /\ Matches(k, 0, c)
    BY <1>1, <1>4, <2>1
  <2>2. CASE ~Matches(k, 2, a)
    <3>1. 1 \in 1..Len(sig) /\ sig[1] # "any" /\ TagAt(k, Len(sig) - 1) # sig[1]
      BY <1>3, <2>2 DEF Matches
    <3> QED
      BY <1>1, <3>1
  <2>3. CASE ~Matches(k, 1, b)
    <3>1. 2 \in 1..Len(sig) /\ sig[2] # "any" /\ TagAt(k, Len(sig) - 2) # sig[2]
      BY <1>3, <2>3 DEF Matches
    <3> QED
      BY <1>1, <3>1
  <2>4. CASE ~Matches(k, 0, c)
    <3>1. 3 \in 1..Len(sig) /\ sig[3] # "any" /\ TagAt(k, Len(sig) - 3) # sig[3]
      BY <1>3, <2>4 DEF Matches
    <3> QED
      BY <1>1, <3>1
  <2> QED
    BY <2>1, <2>2, <2>3, <2>4
<1>5. Good(k, Typed(k, sig, out))
  BY <1>3, <1>4, GoodNeeds DEF Typed
<1> QED
  BY <1>2, <1>5

LEMMA GoodTyped4 ==
    ASSUME NEW k, Sound(k), NEW a, NEW b, NEW c, NEW d, NEW out,
           Load(k) >= 4 /\ Matches(k, 3, a) /\ Matches(k, 2, b) /\ Matches(k, 1, c) /\ Matches(k, 0, d) => Good(k, out)
    PROVE  Good(k, Typed(k, <<a, b, c, d>>, out))
<1>1. Good(k, Raise(k, "TypeMismatch"))
  BY GoodRaise, PlainErrors
<1>2. PICK sig : sig = <<a, b, c, d>>
  OBVIOUS
<1>3. Len(sig) = 4 /\ sig[1] = a /\ sig[2] = b /\ sig[3] = c /\ sig[4] = d
  BY <1>2
<1>4. ASSUME Load(k) >= 4
      PROVE  Good(k, IF \E i \in 1..Len(sig) : sig[i] # "any" /\ TagAt(k, Len(sig) - i) # sig[i]
                     THEN Raise(k, "TypeMismatch") ELSE out)
  <2>1. CASE Matches(k, 3, a) /\ Matches(k, 2, b) /\ Matches(k, 1, c) /\ Matches(k, 0, d)
    BY <1>1, <1>4, <2>1
  <2>2. CASE ~Matches(k, 3, a)
    <3>1. 1 \in 1..Len(sig) /\ sig[1] # "any" /\ TagAt(k, Len(sig) - 1) # sig[1]
      BY <1>3, <2>2 DEF Matches
    <3> QED
      BY <1>1, <3>1
  <2>3. CASE ~Matches(k, 2, b)
    <3>1. 2 \in 1..Len(sig) /\ sig[2] # "any" /\ TagAt(k, Len(sig) - 2) # sig[2]
      BY <1>3, <2>3 DEF Matches
    <3> QED
      BY <1>1, <3>1
  <2>4. CASE ~Matches(k, 1, c)
    <3>1. 3 \in 1..Len(sig) /\ sig[3] # "any" /\ TagAt(k, Len(sig) - 3) # sig[3]
      BY <1>3, <2>4 DEF Matches
    <3> QED
      BY <1>1, <3>1
  <2>5. CASE ~Matches(k, 0, d)
    <3>1. 4 \in 1..Len(sig) /\ sig[4] # "any" /\ TagAt(k, Len(sig) - 4) # sig[4]
      BY <1>3, <2>5 DEF Matches
    <3> QED
      BY <1>1, <3>1
  <2> QED
    BY <2>1, <2>2, <2>3, <2>4, <2>5
<1>5. Good(k, Typed(k, sig, out))
  BY <1>3, <1>4, GoodNeeds DEF Typed
<1> QED
  BY <1>2, <1>5

\* An operator that looks at its operands' types asks for each by its name.
LEMMA MatchesType ==
    ASSUME NEW k, NEW i, NEW a, Matches(k, i, a), a \in TypeNames
    PROVE  TagAt(k, i) = a
BY DEF Matches, TypeNames, CompositeTags, ArrayTags

-----------------------------------------------------------------------------
(* Bodies that operators make of bodies *)

LEMMA ArrayBody ==
    ASSUME NEW h, NEW b \in Seq(Toks(h)), NEW tag \in ArrayTags
    PROVE  IsBody(h, Kind(tag), b)
BY BodiesAreCells, KindOf DEF Cells

LEMMA StringBody ==
    ASSUME NEW h, NEW b \in Seq(Characters)
    PROVE  IsBody(h, Kind("string"), b)
BY BodiesAreCells, KindOf DEF Cells

LEMMA CellsBody ==
    ASSUME NEW h, NEW tag \in ArrayTags \cup {"string"}, NEW b \in Seq(Cells(h, Kind(tag)))
    PROVE  IsBody(h, Kind(tag), b) /\ tag \in CompositeTags
BY BodiesAreCells, KindOf

LEMMA SplicedIsSeq ==
    ASSUME NEW S, NEW s \in Seq(S), NEW t \in Seq(S), NEW idx \in 0..Len(s), NEW n \in Nat
    PROVE  Spliced(s, idx, n, t) \in Seq(S)
<1>1. Len(s) \in Nat
  BY SeqParts
<1>2. PICK i, j \in Int : i = idx /\ j = idx + n + 1 /\ i <= Len(s) /\ j >= 1
  BY <1>1
<1>3. SubSeq(s, 1, i) \in Seq(S)
  BY <1>2, SeqCut
<1>4. PICK l \in Int : l = Len(s) /\ l <= Len(s)
  BY <1>1
<1>5. SubSeq(s, j, l) \in Seq(S)
  BY <1>2, <1>4, SeqCut
<1>6. PICK a \in Seq(S) : a = SubSeq(s, 1, i)
  BY <1>3
<1>7. PICK b \in Seq(S) : b = SubSeq(s, j, l)
  BY <1>5
<1>8. Spliced(s, idx, n, t) = a \o t \o b
  BY <1>2, <1>4, <1>6, <1>7 DEF Spliced
<1> QED
  BY <1>8

LEMMA CharIsCharacter ==
    ASSUME NEW n \in Int
    PROVE  Char(n) \in Characters
<1>1. CharSize \in Nat \ {0}
  BY CharSizeAssumption
<1>2. n % CharSize \in 0..(CharSize - 1)
  BY <1>1
<1> QED
  BY <1>2 DEF Char, Characters

\* An index that is not below zero after it is resolved is one of the sequence.
LEMMA ResolvedIndex ==
    ASSUME NEW n \in Int, NEW size \in Nat
    PROVE  /\ ResolveIndex(n, size) \in Int
           /\ ResolveIndex(n, size) < 0 \/ ResolveIndex(n, size) + 1 \in 1..size
<1>1. PICK l \in Int : l = IF n < 0 THEN n + size ELSE n
  OBVIOUS
<1>2. ResolveIndex(n, size) = IF l \in 0..(size - 1) THEN l ELSE -1
  BY <1>1 DEF ResolveIndex
<1> QED
  BY <1>1, <1>2

LEMMA IntervalIndex ==
    ASSUME NEW n \in Int, NEW size \in Nat, InRange(n, size)
    PROVE  n \in 0..size /\ n \in Nat /\ n < size
BY DEF InRange

\* The operands by their slots.
LEMMA Operands ==
    ASSUME NEW k, Sound(k)
    PROVE  /\ Load(k) >= 1 => At(k, 0) \in Toks(k.heap)
           /\ Load(k) >= 2 => At(k, 1) \in Toks(k.heap)
           /\ Load(k) >= 3 => At(k, 2) \in Toks(k.heap)
<1>1. ASSUME NEW i \in Int, NEW n \in Int, Load(k) >= n, i < n, 0 <= i PROVE At(k, i) \in Toks(k.heap)
  <2>1. i < Load(k)
    BY <1>1, LoadIsNat
  <2> QED
    BY <1>1, <2>1, OperandIsToken
<1> QED
  BY <1>1

\* A change of the operand stack alone.
LEMMA GoodStack ==
    ASSUME NEW k, Sound(k), NEW s \in Seq(Toks(k.heap))
    PROVE  Good(k, Done([k EXCEPT !.st = s]))
<1>1. Ok(k, WithStack(k, s))
  BY OkStack
<1>2. Good(k, Done(WithStack(k, s)))
  BY <1>1, GoodDone
<1> QED
  BY <1>2 DEF WithStack

-----------------------------------------------------------------------------
(* Counting *)

LEMMA PartOfSegment ==
    ASSUME NEW N \in Nat, NEW S, S \subseteq 1..N
    PROVE  /\ IsFiniteSet(S) /\ Cardinality(S) \in Nat /\ Cardinality(S) <= N
           /\ \A T : T \subseteq S => IsFiniteSet(T) /\ Cardinality(T) \in Nat
<1>1. IsFiniteSet(1..N) /\ Cardinality(1..N) = N
  <2>1. 1 \in Int /\ N \in Int
    OBVIOUS
  <2>2. IsFiniteSet(1..N) /\ Cardinality(1..N) = (IF 1 > N THEN 0 ELSE N - 1 + 1)
    BY <2>1, FS_Interval
  <2> QED
    BY <2>2
<1>2. PICK I : I = 1..N /\ IsFiniteSet(I) /\ Cardinality(I) = N
  BY <1>1
<1>3. S \in SUBSET I
  BY <1>2
<1>4. IsFiniteSet(S) /\ Cardinality(S) <= Cardinality(I)
  BY <1>2, <1>3, FS_Subset
<1>5. Cardinality(S) \in Nat
  BY <1>4, FS_CardinalityType
<1>6. ASSUME NEW T, T \subseteq S PROVE IsFiniteSet(T) /\ Cardinality(T) \in Nat
  <2>1. T \in SUBSET S
    BY <1>6
  <2> QED
    BY <1>4, <2>1, FS_Subset, FS_CardinalityType
<1> QED
  BY <1>2, <1>4, <1>5, <1>6

\* Every place of a set of numbers is somebody's.
LEMMA NthExists ==
    ASSUME NEW N \in Nat, NEW S, S \subseteq 1..N, NEW n \in 1..Cardinality(S)
    PROVE  Nth(S, n) \in S /\ Rank(S, Nth(S, n)) = n
<1>1. Cardinality(S) \in Nat /\ IsFiniteSet(S) /\ n \in Nat /\ n >= 1 /\ n <= Cardinality(S)
  <2>1. Cardinality(S) \in Nat /\ IsFiniteSet(S)
    BY PartOfSegment
  <2>2. PICK c \in Nat : c = Cardinality(S)
    BY <2>1
  <2>3. n \in 1..c
    BY <2>2
  <2> QED
    BY <2>1, <2>2, <2>3
<1>2. \A y \in S : y \in Int /\ 1 <= y /\ y <= N
  OBVIOUS
<1>3. \A x : Rank(S, x) \in Nat
  <2>1. \A x : {y \in S : y <= x} \subseteq S
    OBVIOUS
  <2> QED
    BY <2>1, PartOfSegment DEF Rank
<1>4. Rank(S, N) = Cardinality(S)
  <2>1. {y \in S : y <= N} = S
    BY <1>2
  <2> QED
    BY <2>1 DEF Rank
<1>5. Rank(S, 0) = 0
  <2>1. \A y \in S : ~(y <= 0)
    BY <1>2
  <2>2. {y \in S : y <= 0} = {}
    BY <2>1
  <2> QED
    BY <2>2, FS_EmptySet DEF Rank
<1>6. ASSUME NEW x \in Int, NEW z \in Int, x = z + 1
      PROVE  Rank(S, x) = IF x \in S THEN Rank(S, z) + 1 ELSE Rank(S, z)
  <2>1. PICK A : A = {y \in S : y <= z}
    OBVIOUS
  <2>2. IsFiniteSet(A)
    BY <2>1, PartOfSegment
  <2>3. CASE x \in S
    <3>0. \A y \in S : y <= x <=> y <= z \/ y = x
      BY <1>2, <1>6
    <3>1. {y \in S : y <= x} = A \cup {x}
      BY <2>1, <2>3, <3>0
    <3>2. x \notin A
      BY <1>6, <2>1
    <3>3. Cardinality(A \cup {x}) = Cardinality(A) + 1
      BY <2>2, <3>2, FS_AddElement
    <3> QED
      BY <2>1, <2>3, <3>1, <3>3 DEF Rank
  <2>4. CASE x \notin S
    <3>0. \A y \in S : y <= x <=> y <= z \/ y = x
      BY <1>2, <1>6
    <3>1. {y \in S : y <= x} = A
      BY <2>1, <2>4, <3>0
    <3> QED
      BY <2>1, <2>4, <3>1 DEF Rank
  <2> QED
    BY <2>3, <2>4
<1>7. PICK B : B = {x \in 0..N : Rank(S, x) >= n}
  OBVIOUS
<1>8. PICK x \in B : \A y \in B : x <= y
  <2>1. N \in B
    BY <1>1, <1>4, <1>7
  <2>2. B \subseteq Nat /\ B # {}
    BY <1>7, <2>1
  <2> QED
    BY <2>2, LeastExists
<1>9. x \in Int /\ 0 <= x /\ x <= N /\ Rank(S, x) >= n
  BY <1>7, <1>8
<1>10. x # 0
  BY <1>1, <1>5, <1>9
<1>11. PICK z \in Int : x = z + 1 /\ z >= 0 /\ z <= N
  <2>1. x - 1 \in Int
    BY <1>9
  <2> QED
    BY <1>9, <1>10, <2>1
<1>12. Rank(S, z) < n
  <2>1. z \in 0..N /\ ~(x <= z)
    BY <1>9, <1>11
  <2>2. z \notin B
    BY <1>8, <2>1
  <2> QED
    BY <1>1, <1>3, <1>7, <2>1, <2>2
<1>13. Rank(S, x) = IF x \in S THEN Rank(S, z) + 1 ELSE Rank(S, z)
  BY <1>6, <1>9, <1>11
<1>14. x \in S /\ Rank(S, x) = n
  BY <1>1, <1>3, <1>9, <1>12, <1>13
<1> QED
  BY <1>14 DEF Nth

LEMMA NamesAreFinite == IsFiniteSet(Names)
<1>1. Order \in Seq(Names)
  BY OrderAssumption
<1>2. PICK n \in Nat : n = Len(Order) /\ DOMAIN Order = 1..n
  BY <1>1
<1>3. Order \in Surjection(1..n, Names)
  <2>1. Order \in [1..n -> Names]
    BY <1>1, <1>2
  <2>2. \A t \in Names : \E i \in 1..n : Order[i] = t
    BY <1>2 DEF Names, ToSet
  <2> QED
    BY <2>1, <2>2 DEF Surjection
<1> QED
  BY <1>3, FS_Interval, FS_Surjection

\* The keys of a dictionary are names it has, one by one.
LEMMA KeysParts ==
    ASSUME NEW d, DOMAIN d \subseteq Names
    PROVE  /\ Keys(d) \in Seq(DOMAIN d)
           /\ Keys(d) \in Seq(Names)
<1> DEFINE P == {i \in DOMAIN Order : Order[i] \in DOMAIN d}
<1>1. PICK N \in Nat : N = Len(Order) /\ DOMAIN Order = 1..N
  BY OrderAssumption
<1>2. P \subseteq 1..N
  BY <1>1
<1>3. PICK c \in Nat : c = Cardinality(P)
  <2> HIDE DEF P
  <2> QED
    BY <1>2, PartOfSegment
<1>4. PICK f : f = [n \in 1..c |-> Order[Nth(P, n)]]
  OBVIOUS
<1>5. Keys(d) = f
  BY <1>3, <1>4 DEF Keys
<1>6. \A n \in 1..c : Nth(P, n) \in P
  <2> HIDE DEF P
  <2> QED
    BY <1>2, <1>3, NthExists
<1>7. \A n \in 1..c : f[n] \in DOMAIN d
  BY <1>4, <1>6
<1>8. f = [n \in 1..c |-> f[n]]
  BY <1>4
<1>9. f \in Seq(DOMAIN d)
  BY <1>7, <1>8, SeqBuilt
<1> QED
  BY <1>5, <1>9, SeqMono

\* The size of a payload is a number.
LEMMA SizeIsNat ==
    ASSUME NEW k, Sound(k), NEW i \in Int, 0 <= i, i < Load(k), TagAt(k, i) \in CompositeTags
    PROVE  Size(k, i) \in Nat
<1>1. CASE TagAt(k, i) = "dictionary"
  <2>1. IsBody(k.heap, Kind("dictionary"), Body(k, i))
    BY <1>1, OperandParts
  <2>2. DOMAIN Body(k, i) \in SUBSET Names
    BY <2>1, KindOf, BodiesAreCells
  <2> QED
    BY <2>2, NamesAreFinite, FS_Subset, FS_CardinalityType DEF Size
<1>2. CASE TagAt(k, i) # "dictionary"
  <2>1. TagAt(k, i) \in ArrayTags \cup {"string"}
    BY <1>2 DEF CompositeTags
  <2> QED
    BY <2>1, SequenceOperand
<1> QED
  BY <1>1, <1>2

-----------------------------------------------------------------------------
(* The doubles *)

\* Pow2 is what its definition says.
LEMMA PowersUnfold ==
    /\ Pow2 \in [Nat -> Nat] /\ Pow2[0] = 1
    /\ \A n \in Nat : Pow2[n] >= 1 /\ (n # 0 => Pow2[n] = 2 * Pow2[n - 1])
<1>1. PICK S : S = [p \in Nat \X Nat |-> 2 * p[2]]
  OBVIOUS
<1>2. S \in [Nat \X Nat -> Nat]
  BY <1>1
<1>3. PICK I : I = Nat
  OBVIOUS
<1>4. PICK f \in [I -> Nat] : Unfolds(I, 1, S, f)
  BY <1>2, <1>3, RecursionWorks
<1>5. \A n \in I : n # 0 => n - 1 \in I /\ n \in Nat
  BY <1>3
<1>6. \A n \in I : f[n] = IF n = 0 THEN 1 ELSE 2 * f[n - 1]
  BY <1>1, <1>3, <1>4, <1>5 DEF Unfolds
<1>7. f = [n \in I |-> IF n = 0 THEN 1 ELSE 2 * f[n - 1]]
  BY <1>4, <1>6
<1>8. PICK g : g = Pow2
  OBVIOUS
<1>9. g = [n \in I |-> IF n = 0 THEN 1 ELSE 2 * g[n - 1]]
  BY <1>3, <1>7, <1>8 DEF Pow2
<1>10. \A n \in Nat : g[n] = IF n = 0 THEN 1 ELSE 2 * g[n - 1]
  BY <1>3, <1>9
<1>11. PICK P : P = {n \in Nat : g[n] \in Nat /\ g[n] >= 1}
  OBVIOUS
<1>12. 0 \in P
  BY <1>10, <1>11
<1>13. ASSUME NEW n \in Nat, n \in P PROVE n + 1 \in P
  <2>1. PICK l \in Nat : l = n + 1 /\ l # 0 /\ l - 1 = n
    OBVIOUS
  <2>2. g[l] = 2 * g[n] /\ g[n] \in Nat /\ g[n] >= 1
    BY <1>10, <1>11, <1>13, <2>1
  <2> QED
    BY <1>11, <2>1, <2>2
<1>14. \A n \in Nat : n \in P
  BY <1>12, <1>13, NaturalsByInduction
<1>15. g \in [Nat -> Nat]
  BY <1>3, <1>9, <1>11, <1>14
<1> QED
  BY <1>8, <1>10, <1>11, <1>14, <1>15

LEMMA PowerDoubles ==
    ASSUME NEW n \in Nat
    PROVE  Pow2[n] \in Nat /\ Pow2[n] >= 1 /\ n + 1 \in Nat /\ Pow2[n + 1] = 2 * Pow2[n] /\ Pow2[0] = 1
<1>1. PICK l \in Nat : l = n + 1 /\ l # 0 /\ l - 1 = n
  OBVIOUS
<1>2. Pow2[l] = 2 * Pow2[n] /\ Pow2[n] \in Nat /\ Pow2[n] >= 1 /\ Pow2[0] = 1
  BY <1>1, PowersUnfold
<1> QED
  BY <1>1, <1>2

\* The sum of exponents is the product of the powers.
LEMMA PowerOfSum ==
    ASSUME NEW i \in Nat, NEW j \in Nat
    PROVE  Pow2[i + j] = Pow2[i] * Pow2[j] /\ i + j \in Nat
<1>1. PICK P : P = {n \in Nat : Pow2[i + n] = Pow2[i] * Pow2[n]}
  OBVIOUS
<1>2. 0 \in P
  <2>1. i + 0 = i /\ Pow2[0] = 1 /\ Pow2[i] \in Nat
    BY PowerDoubles
  <2> QED
    BY <1>1, <2>1
<1>3. ASSUME NEW n \in Nat, n \in P PROVE n + 1 \in P
  <2>1. PICK l \in Nat : l = i + n
    OBVIOUS
  <2>2. Pow2[l] \in Nat /\ Pow2[l + 1] = 2 * Pow2[l] /\ Pow2[n + 1] = 2 * Pow2[n] /\ Pow2[n] \in Nat
        /\ Pow2[i] \in Nat
    BY PowerDoubles
  <2>3. Pow2[l] = Pow2[i] * Pow2[n]
    BY <1>1, <1>3, <2>1
  <2>4. Pow2[l + 1] = Pow2[i] * Pow2[n + 1]
    <3>1. PICK a \in Nat, b \in Nat, c \in Nat : a = Pow2[i] /\ b = Pow2[n] /\ c = Pow2[l]
      BY <2>2
    <3>2. c = a * b
      BY <2>3, <3>1
    <3>3. 2 * c = a * (2 * b)
      BY <3>2
    <3> QED
      BY <2>2, <3>1, <3>3
  <2>5. i + (n + 1) = l + 1 /\ n + 1 \in Nat
    BY <2>1
  <2> QED
    BY <1>1, <2>4, <2>5
<1>4. \A n \in Nat : n \in P
  BY <1>2, <1>3, NaturalsByInduction
<1> QED
  BY <1>1, <1>4

LEMMA PowersGrow ==
    ASSUME NEW n \in Nat
    PROVE  n < Pow2[n]
<1>1. PICK P : P = {l \in Nat : l < Pow2[l]}
  OBVIOUS
<1>2. 0 \in P
  BY <1>1, PowersUnfold
<1>3. ASSUME NEW l \in Nat, l \in P PROVE l + 1 \in P
  BY <1>1, <1>3, PowerDoubles
<1>4. \A l \in Nat : l \in P
  BY <1>2, <1>3, NaturalsByInduction
<1> QED
  BY <1>1, <1>4

LEMMA PowersAreOrdered ==
    ASSUME NEW i \in Nat, NEW j \in Nat, i <= j
    PROVE  Pow2[i] <= Pow2[j] /\ (i < j => 2 * Pow2[i] <= Pow2[j])
           /\ \E c \in Nat \ {0} : Pow2[j] = c * Pow2[i]
<1>1. PICK d \in Nat : j = i + d
  <2>1. j - i \in Nat /\ j = i + (j - i)
    OBVIOUS
  <2> QED
    BY <2>1
<1>2. PICK a \in Nat, c \in Nat : a = Pow2[i] /\ c = Pow2[d] /\ a >= 1 /\ c >= 1
  BY PowerDoubles
<1>3. Pow2[j] = a * c
  BY <1>1, <1>2, PowerOfSum
<1>4. a * c >= a /\ a * c = c * a
  BY <1>2
<1>5. ASSUME i < j PROVE 2 * a <= a * c
  <2>1. PICK l \in Nat : d = l + 1
    <3>1. d - 1 \in Nat /\ d = (d - 1) + 1
      BY <1>1, <1>5
    <3> QED
      BY <3>1
  <2>2. Pow2[l] \in Nat /\ Pow2[l] >= 1 /\ Pow2[l + 1] = 2 * Pow2[l]
    BY PowerDoubles
  <2>3. c >= 2
    BY <1>2, <2>1, <2>2
  <2> QED
    BY <1>2, <2>3
<1> QED
  BY <1>2, <1>3, <1>4, <1>5

-----------------------------------------------------------------------------

\* The binade of a number: the exponent of the distance between the doubles there.
Binade(u, k) ==
    /\ u < Pow2[Precision + k]
    /\ k # 0 => Pow2[Precision - 1 + k] <= u

LEMMA BinadeExists ==
    ASSUME NEW u \in Nat
    PROVE  \E k \in Nat : Binade(u, k)
<1>1. PICK p \in Nat : p = Precision - 1 /\ Precision = p + 1
  BY DoublesAssumption
<1>2. SUFFICES ASSUME \A k \in Nat : ~Binade(u, k) PROVE FALSE
  OBVIOUS
<1>3. PICK P : P = {k \in Nat : Pow2[p + k] <= u}
  OBVIOUS
<1>4. \A k \in Nat : p + k \in Nat /\ p + 1 + k = p + (k + 1) /\ p + 1 - 1 + k = p + k
  OBVIOUS
<1>5. \A k \in Nat : Binade(u, k) = (u < Pow2[p + (k + 1)] /\ (k # 0 => Pow2[p + k] <= u))
  BY <1>1, <1>4 DEF Binade
<1>6. \A k \in Nat : Pow2[p + (k + 1)] \in Nat
  BY PowersUnfold
<1>7. 1 \in P
  <2>1. ~Binade(u, 0)
    BY <1>2
  <2>2. ~(u < Pow2[p + (0 + 1)])
    BY <1>5, <2>1
  <2> QED
    BY <1>3, <1>6, <2>2
<1>8. ASSUME NEW k \in Nat, k + 1 \in P PROVE (k + 1) + 1 \in P
  <2>1. PICK l \in Nat : l = k + 1 /\ l # 0 /\ l \in P
    BY <1>8
  <2>2. Pow2[p + l] <= u
    BY <1>3, <2>1
  <2>3. ~(u < Pow2[p + (l + 1)])
    BY <1>2, <1>5, <2>1, <2>2
  <2>4. PICK j \in Nat : j = l + 1
    OBVIOUS
  <2>5. Pow2[p + j] <= u
    BY <1>6, <2>1, <2>3, <2>4
  <2> QED
    BY <1>3, <2>1, <2>4, <2>5
<1>9. PICK Q : Q = {k \in Nat : k + 1 \in P}
  OBVIOUS
<1>10. 0 \in Q /\ \A k \in Nat : k \in Q => k + 1 \in Q
  BY <1>7, <1>8, <1>9
<1>11. \A k \in Nat : k \in Q
  BY <1>10, NaturalsByInduction
<1>12. PICK n \in Nat : n = p + (u + 1)
  OBVIOUS
<1>13. Pow2[n] <= u
  BY <1>3, <1>9, <1>11, <1>12
<1>14. n < Pow2[n] /\ Pow2[n] \in Nat
  BY PowersGrow, PowersUnfold
<1> QED
  BY <1>12, <1>13, <1>14

\* It is the only one, and Ulp finds it.
LEMMA BinadeIsOne ==
    ASSUME NEW u \in Nat, NEW k \in Nat, NEW l \in Nat, Binade(u, k), Binade(u, l)
    PROVE  k = l
<1>1. PICK p \in Nat : p = Precision - 1 /\ Precision = p + 1
  BY DoublesAssumption
<1>2. ASSUME NEW i \in Nat, NEW j \in Nat, i < j, Binade(u, i), Binade(u, j) PROVE FALSE
  <2>1. PICK a \in Nat, b \in Nat : a = p + 1 + i /\ b = p + 1 - 1 + j /\ a <= b
    BY <1>2
  <2>2. u < Pow2[a] /\ Pow2[b] <= u
    BY <1>1, <1>2, <2>1 DEF Binade
  <2>3. Pow2[a] <= Pow2[b] /\ Pow2[a] \in Nat /\ Pow2[b] \in Nat
    BY <2>1, PowersAreOrdered, PowersUnfold
  <2> QED
    BY <2>2, <2>3
<1> QED
  BY <1>2

LEMMA UlpIsOfBinade ==
    ASSUME NEW u \in Int, NEW k \in Nat, Binade(Abs(u), k)
    PROVE  Ulp(u) = Pow2[k]
<1>1. PICK v \in Nat : v = Abs(u) /\ Binade(v, k)
  BY DEF Abs
<1>2. PICK p \in Nat : p = Precision - 1 /\ Precision = p + 1
  BY DoublesAssumption
<1>3. CASE v < Pow2[Precision]
  <2>1. Binade(v, 0)
    BY <1>2, <1>3 DEF Binade
  <2>2. k = 0
    BY <1>1, <2>1, BinadeIsOne
  <2> QED
    BY <1>1, <1>3, <2>2, PowersUnfold DEF Ulp
<1>4. CASE ~(v < Pow2[Precision])
  <2>1. k # 0
    BY <1>1, <1>2, <1>4 DEF Binade
  <2>2. Pow2[Precision - 1 + k] <= v /\ v < Pow2[Precision + k]
    BY <1>1, <2>1 DEF Binade
  <2>3. k \in 1..v
    <3>1. PICK n \in Nat : n = Precision - 1 + k /\ k <= n
      BY <1>2
    <3>2. n < Pow2[n] /\ Pow2[n] \in Nat
      BY PowersGrow, PowersUnfold
    <3> QED
      BY <2>1, <2>2, <3>1, <3>2
  <2>4. PICK l : l = CHOOSE n \in 1..v : Pow2[Precision - 1 + n] <= v /\ v < Pow2[Precision + n]
    OBVIOUS
  <2>5. l \in 1..v /\ Pow2[Precision - 1 + l] <= v /\ v < Pow2[Precision + l]
    BY <2>2, <2>3, <2>4
  <2>6. l \in Nat /\ Binade(v, l)
    BY <2>5 DEF Binade
  <2>7. l = k
    BY <1>1, <2>6, BinadeIsOne
  <2> QED
    BY <1>1, <1>4, <2>4, <2>7 DEF Ulp
<1> QED
  BY <1>3, <1>4
-----------------------------------------------------------------------------

\* A multiple of d, by its remainder.
LEMMA MultipleHasNoRest ==
    ASSUME NEW d \in Nat \ {0}, NEW w \in Int
    PROVE  (w % d = 0) <=> \E c \in Int : w = c * d
<1>1. w = d * (w \div d) + (w % d) /\ w \div d \in Int /\ w % d \in 0..(d - 1)
  OBVIOUS
<1>2. ASSUME w % d = 0 PROVE \E c \in Int : w = c * d
  <2>1. w = (w \div d) * d
    BY <1>1, <1>2
  <2> QED
    BY <1>1, <2>1
<1>3. ASSUME NEW c \in Int, w = c * d PROVE w % d = 0
  <2>1. PICK q \in Int, r \in 0..(d - 1) : q = w \div d /\ r = w % d /\ w = d * q + r
    BY <1>1
  <2>2. (c - q) * d = r
    BY <1>3, <2>1
  <2>3. PICK e \in Int : e = c - q /\ e * d = r
    BY <2>2
  <2>4. e <= 0
    <3>1. SUFFICES ASSUME e >= 1 PROVE FALSE
      BY <2>3
    <3>2. e * d >= d
      BY <3>1
    <3> QED
      BY <2>1, <2>3, <3>2
  <2>5. e >= 0
    <3>1. SUFFICES ASSUME e <= -1 PROVE FALSE
      BY <2>3
    <3>2. e * d <= -d
      BY <3>1
    <3> QED
      BY <2>1, <2>3, <3>2
  <2>6. e = 0
    BY <2>3, <2>4, <2>5
  <2> QED
    BY <2>1, <2>3, <2>6
<1> QED
  BY <1>2, <1>3

LEMMA AbsIsNat ==
    ASSUME NEW u \in Int
    PROVE  /\ Abs(u) \in Nat /\ Abs(-u) = Abs(u) /\ (u >= 0 => Abs(u) = u) /\ (u = 0) = (Abs(u) = 0)
           /\ Sign(u) \in {1, -1} /\ u = Sign(u) * Abs(u) /\ u \in {Abs(u), -Abs(u)}
BY DEF Abs, Sign

\* The finite doubles are the multiples of their binade's distance.
LEMMA FiniteIf ==
    ASSUME NEW u \in Int, Abs(u) <= MaxFinite, NEW k \in Nat, Binade(Abs(u), k),
           NEW c \in Int, Abs(u) = c * Pow2[k]
    PROVE  u \in Finite
<1>1. PICK d \in Nat \ {0} : d = Pow2[k] /\ Ulp(u) = d
  BY UlpIsOfBinade, PowersUnfold
<1>2. PICK b \in Int : b = -c /\ (u = c * d \/ u = b * d)
  <2>1. u \in {c * d, (-c) * d}
    BY <1>1, AbsIsNat
  <2> QED
    BY <2>1
<1>3. u % d = 0
  <2>1. \E e \in Int : u = e * d
    BY <1>2
  <2> QED
    BY <2>1, MultipleHasNoRest
<1>4. u \in (-MaxFinite)..MaxFinite
  BY DoublesAssumption DEF Abs
<1> QED
  BY <1>1, <1>3, <1>4 DEF Finite

LEMMA FiniteOnlyIf ==
    ASSUME NEW u \in Finite
    PROVE  /\ u \in Int /\ Abs(u) \in Nat /\ Abs(u) <= MaxFinite
           /\ \E k \in Nat, c \in Nat : Binade(Abs(u), k) /\ Abs(u) = c * Pow2[k]
<1>1. u \in Int /\ u \in (-MaxFinite)..MaxFinite /\ u % Ulp(u) = 0
  BY DoublesAssumption DEF Finite
<1>2. PICK v \in Nat : v = Abs(u) /\ v <= MaxFinite
  BY <1>1, AbsIsNat, DoublesAssumption DEF Abs
<1>3. PICK k \in Nat : Binade(v, k)
  BY BinadeExists
<1>4. PICK d \in Nat \ {0} : d = Pow2[k] /\ Ulp(u) = d
  BY <1>1, <1>2, <1>3, UlpIsOfBinade, PowersUnfold
<1>5. PICK c \in Int : u = c * d
  BY <1>1, <1>4, MultipleHasNoRest
<1>6. PICK e \in Int : v = e * d
  <2>1. v = u \/ v = -u
    BY <1>1, <1>2 DEF Abs
  <2>2. -u = (-c) * d
    BY <1>5
  <2> QED
    BY <1>5, <2>1, <2>2
<1>7. e >= 0
  <2>1. SUFFICES ASSUME e <= -1 PROVE FALSE
    OBVIOUS
  <2>2. e * d <= -d
    BY <2>1
  <2> QED
    BY <1>6, <2>2
<1> QED
  BY <1>1, <1>2, <1>3, <1>4, <1>6, <1>7

\* The distances grow with the numbers.
LEMMA BinadesAreOrdered ==
    ASSUME NEW u \in Nat, NEW v \in Nat, u <= v, NEW i \in Nat, NEW j \in Nat,
           Binade(u, i), Binade(v, j)
    PROVE  i <= j
<1>1. PICK p \in Nat : p = Precision - 1 /\ Precision = p + 1
  BY DoublesAssumption
<1>2. SUFFICES ASSUME j < i PROVE FALSE
  OBVIOUS
<1>3. PICK a \in Nat, b \in Nat : a = p + 1 + j /\ b = p + 1 - 1 + i /\ a <= b
  BY <1>2
<1>4. v < Pow2[a] /\ Pow2[b] <= u
  BY <1>1, <1>2, <1>3 DEF Binade
<1>5. Pow2[a] <= Pow2[b] /\ Pow2[a] \in Nat /\ Pow2[b] \in Nat
  BY <1>3, PowersAreOrdered, PowersUnfold
<1> QED
  BY <1>4, <1>5

\* The doubles if there were no last one.
Grid == {v \in Nat : \E k \in Nat, c \in Int : Binade(v, k) /\ v = c * Pow2[k]}

LEMMA FiniteIsGrid ==
    ASSUME NEW u \in Int
    PROVE  u \in Finite <=> Abs(u) \in Grid /\ Abs(u) <= MaxFinite
<1>1. ASSUME Abs(u) \in Grid, Abs(u) <= MaxFinite PROVE u \in Finite
  <2>1. PICK k \in Nat, c \in Int : Binade(Abs(u), k) /\ Abs(u) = c * Pow2[k]
    BY <1>1 DEF Grid
  <2> QED
    BY <1>1, <2>1, FiniteIf
<1>2. ASSUME u \in Finite PROVE Abs(u) \in Grid /\ Abs(u) <= MaxFinite
  <2>1. PICK k \in Nat, c \in Nat : Binade(Abs(u), k) /\ Abs(u) = c * Pow2[k]
    BY <1>2, FiniteOnlyIf
  <2> QED
    BY <1>2, <2>1, FiniteOnlyIf DEF Grid
<1> QED
  BY <1>1, <1>2

\* A multiple of 2^k is a double up to 2^(k + Precision).
LEMMA WholeIsGrid ==
    ASSUME NEW w \in Nat, NEW k \in Nat, w <= Pow2[Precision + k], NEW c \in Int, w = c * Pow2[k]
    PROVE  w \in Grid
<1>1. PICK p \in Nat : p = Precision - 1 /\ Precision = p + 1
  BY DoublesAssumption
<1>2. PICK l \in Nat : Binade(w, l)
  BY BinadeExists
<1>3. PICK e \in Int : w = e * Pow2[l]
  <2>1. CASE l <= k
    <3>1. PICK f \in Nat : Pow2[k] = f * Pow2[l]
      BY <2>1, PowersAreOrdered
    <3>2. PICK d \in Nat : d = Pow2[l]
      BY PowersUnfold
    <3>3. c * (f * d) = (c * f) * d
      BY <3>2
    <3>4. w = (c * f) * d
      BY <3>1, <3>2, <3>3
    <3> QED
      BY <3>2, <3>4
  <2>2. CASE k < l
    <3>1. PICK a \in Nat, b \in Nat : a = p + 1 + k /\ b = p + 1 - 1 + l /\ a <= b
      BY <2>2
    <3>2. Pow2[b] <= w /\ w <= Pow2[a]
      BY <1>1, <1>2, <2>2, <3>1 DEF Binade
    <3>3. Pow2[a] \in Nat /\ Pow2[b] \in Nat /\ Pow2[a] >= 1 /\ Pow2[a] <= Pow2[b] /\ (a < b => 2 * Pow2[a] <= Pow2[b])
      BY <3>1, PowersAreOrdered, PowersUnfold
    <3>4. w = Pow2[b]
      BY <3>2, <3>3
    <3>5. b = p + l
      BY <3>1
    <3>6. Pow2[b] = Pow2[p] * Pow2[l]
      BY <3>5, PowerOfSum
    <3> QED
      BY <3>4, <3>6, PowersUnfold
  <2> QED
    BY <2>1, <2>2
<1> QED
  BY <1>2, <1>3 DEF Grid

\* Two doubles are a distance of theirs apart.
LEMMA GridIsApart ==
    ASSUME NEW u \in Grid, NEW v \in Grid, v > u, NEW i \in Nat, Binade(u, i)
    PROVE  v >= u + Pow2[i]
<1>1. u \in Nat /\ v \in Nat
  BY DEF Grid
<1>2. PICK k \in Nat, c \in Int : Binade(u, k) /\ u = c * Pow2[k]
  BY DEF Grid
<1>3. k = i
  BY <1>1, <1>2, BinadeIsOne
<1>4. PICK j \in Nat, e \in Int : Binade(v, j) /\ v = e * Pow2[j]
  BY DEF Grid
<1>5. i <= j
  BY <1>1, <1>4, BinadesAreOrdered
<1>6. PICK f \in Nat : Pow2[j] = f * Pow2[i]
  BY <1>5, PowersAreOrdered
<1>7. PICK d \in Nat : d = Pow2[i]
  BY PowersUnfold
<1>8. PICK g \in Int : g = e * f
  OBVIOUS
<1>9. v = g * d
  <2>1. e * (f * d) = (e * f) * d
    OBVIOUS
  <2> QED
    BY <1>4, <1>6, <1>7, <1>8, <2>1
<1>10. u = c * d
  BY <1>2, <1>3, <1>7
<1>11. g >= c + 1
  <2>1. SUFFICES ASSUME g <= c PROVE FALSE
    OBVIOUS
  <2>2. g * d <= c * d
    BY <2>1
  <2> QED
    BY <1>1, <1>9, <1>10, <2>2
<1>12. g * d >= (c + 1) * d /\ (c + 1) * d = c * d + d
  BY <1>11
<1> QED
  BY <1>1, <1>7, <1>9, <1>10, <1>12
-----------------------------------------------------------------------------
(* Rounding *)

LEMMA ProductsGrow ==
    ASSUME NEW i \in Int, NEW j \in Int, i <= j, NEW d \in Nat
    PROVE  i * d <= j * d /\ (i + 1) * d = i * d + d /\ i * d \in Int
OBVIOUS

\* Cut down to a multiple of d.
LEMMA CutDown ==
    ASSUME NEW a \in Nat, NEW q \in Nat \ {0}, NEW z \in Nat \ {0}
    PROVE  /\ a \div q \in Nat /\ q * z \in Nat \ {0} /\ a \div (q * z) \in Nat
           /\ q * (a \div q) <= a /\ a < q * ((a \div q) + 1)
           /\ (a \div (q * z)) * z <= a \div q /\ a \div q < (a \div (q * z)) * z + z
<1>1. PICK u : u = a \div q
  OBVIOUS
<1>2. u \in Nat /\ q * u <= a /\ a < q * (u + 1)
  <2>1. a = q * (a \div q) + (a % q) /\ a \div q \in Int /\ a % q \in 0..(q - 1)
    OBVIOUS
  <2>2. PICK r \in 0..(q - 1) : a = q * u + r /\ u \in Int
    BY <1>1, <2>1
  <2>3. q * (u + 1) = q * u + q
    BY <2>2
  <2>4. u >= 0
    <3>1. SUFFICES ASSUME u <= -1 PROVE FALSE
      BY <2>2
    <3>2. q * u <= -q
      BY <2>2, <3>1
    <3> QED
      BY <2>2, <3>2
  <2> QED
    BY <2>2, <2>3, <2>4
<1>3. PICK y \in Nat \ {0} : y = q * z
  <2>1. q * z >= 1 /\ q * z \in Int
    OBVIOUS
  <2> QED
    BY <2>1
<1>4. PICK b : b = a \div y
  OBVIOUS
<1>5. b \in Nat /\ y * b <= a /\ a < y * (b + 1)
  <2>1. a = y * (a \div y) + (a % y) /\ a \div y \in Int /\ a % y \in 0..(y - 1)
    OBVIOUS
  <2>2. PICK r \in 0..(y - 1) : a = y * b + r /\ b \in Int
    BY <1>4, <2>1
  <2>3. y * (b + 1) = y * b + y
    BY <2>2
  <2>4. b >= 0
    <3>1. SUFFICES ASSUME b <= -1 PROVE FALSE
      BY <2>2
    <3>2. y * b <= -y
      BY <2>2, <3>1
    <3> QED
      BY <2>2, <3>2
  <2> QED
    BY <2>2, <2>3, <2>4
<1>6. PICK w \in Nat : w = b * z
  BY <1>5
<1>7. y * b = q * w /\ y * (b + 1) = q * (w + z)
  BY <1>3, <1>5, <1>6
<1>8. w <= u
  <2>1. SUFFICES ASSUME w >= u + 1 PROVE FALSE
    BY <1>2
  <2>2. q * w >= q * (u + 1)
    BY <1>2, <2>1
  <2> QED
    BY <1>2, <1>5, <1>7, <2>2
<1>9. u < w + z
  <2>1. SUFFICES ASSUME u >= w + z PROVE FALSE
    BY <1>2
  <2>2. q * u >= q * (w + z)
    BY <1>2, <2>1
  <2> QED
    BY <1>2, <1>5, <1>7, <2>2
<1> QED
  BY <1>1, <1>2, <1>3, <1>4, <1>5, <1>6, <1>8, <1>9

\* What is nearest to a double's place, if it is not beyond the last one.
LEMMA NearestInGrid ==
    ASSUME NEW a \in Nat, NEW q \in Nat \ {0}, NEW u \in Nat, q * u <= a,
           NEW k \in Nat, Binade(u, k), NEW z \in Nat \ {0}, z = Pow2[k],
           NEW c \in Nat, NEW w \in Nat, w = c * z, w <= u, u < w + z,
           2 * a < (2 * MaxFinite + Ulp(MaxFinite)) * q
    PROVE  /\ w \in Finite /\ -w \in Finite
           /\ 2 * (a - w * q) >= z * q => w + z \in Finite /\ -(w + z) \in Finite
<1>7. w \in Nat /\ w + z \in Nat
  OBVIOUS
<1>a. PICK n \in Nat : n = c + 1 /\ n * z = w + z
  <2>1. (c + 1) * z = c * z + z
    BY ProductsGrow
  <2> QED
    BY <2>1
<1>8. PICK M \in Nat : M = MaxFinite
  BY DoublesAssumption
<1>9. PICK i \in Nat : Binade(M, i)
  BY BinadeExists
<1>10. PICK y \in Nat \ {0} : y = Pow2[i] /\ Ulp(M) = y
  BY <1>8, <1>9, UlpIsOfBinade, AbsIsNat, PowersUnfold
<1>11. M \in Grid
  BY <1>8, MaxFiniteAssumption, FiniteIsGrid, AbsIsNat
<1>12. 2 * a < (2 * M + y) * q
  BY <1>8, <1>10
<1>13. PICK p \in Nat : p = Precision - 1 /\ Precision = p + 1
  BY DoublesAssumption
<1>14. w < Pow2[Precision + k] /\ w + z <= Pow2[Precision + k]
  <2>1. u < Pow2[Precision + k]
    BY DEF Binade
  <2>2. Pow2[Precision + k] = Pow2[Precision] * Pow2[k]
    BY <1>13, PowerOfSum
  <2>3. PICK e \in Nat : e = Pow2[Precision] /\ Pow2[Precision + k] = e * z
    BY <1>13, <2>2, PowersUnfold
  <2>4. c < e
    <3>1. SUFFICES ASSUME c >= e PROVE FALSE
      BY <2>3
    <3>2. c * z >= e * z
      BY <2>3, <3>1
    <3> QED
      BY <1>7, <2>1, <2>3, <3>2
  <2>5. n <= e
    BY <1>a, <2>3, <2>4
  <2>6. n * z <= e * z
    BY <2>5, ProductsGrow
  <2> QED
    BY <1>a, <2>3, <2>4, <2>6, ProductsGrow
<1>15. Binade(w, k)
  <2>1. ASSUME k # 0 PROVE Pow2[Precision - 1 + k] <= w
    <3>1. Pow2[Precision - 1 + k] <= u
      BY <2>1 DEF Binade
    <3>2. PICK e \in Nat : e = Pow2[p] /\ Pow2[Precision - 1 + k] = e * z
      <4>1. Precision - 1 + k = p + k
        BY <1>13
      <4>2. Pow2[p + k] = Pow2[p] * Pow2[k]
        BY PowerOfSum
      <4> QED
        BY <4>1, <4>2, PowersUnfold
    <3>3. e <= c
      <4>1. SUFFICES ASSUME e >= c + 1 PROVE FALSE
        BY <3>2
      <4>2. n <= e
        BY <1>a, <3>2, <4>1
      <4>3. n * z <= e * z
        BY <4>2, ProductsGrow
      <4> QED
        BY <1>7, <1>a, <3>1, <3>2, <4>3
    <3>4. e * z <= c * z
      BY <3>2, <3>3
    <3> QED
      BY <3>2, <3>4
  <2> QED
    BY <1>14, <2>1 DEF Binade
<1>16. q * w <= a /\ w * q = q * w
  <2>1. q * w <= q * u
    BY <1>7
  <2> QED
    BY <1>7, <2>1
<1>17. w \in Grid /\ w + z \in Grid
  <2>1. c + 1 \in Int /\ w + z = (c + 1) * z
    OBVIOUS 
  <2>2. w <= Pow2[Precision + k] /\ w + z <= Pow2[Precision + k]
    BY <1>7, <1>13, <1>14, PowersUnfold
  <2> QED
    BY <1>7, <2>1, <2>2, WholeIsGrid
<1>18. \A v \in Grid : v > M => v >= M + y
  BY <1>8, <1>9, <1>10, <1>11, GridIsApart
<1>19. \A v \in Grid : v > w => v >= w + z
  BY <1>15, <1>17, GridIsApart
<1>20. PICK s \in Int : s = w * q
  BY <1>7
<1>21. PICK t \in Int : t = z * q /\ t >= 0
  OBVIOUS 
<1>22. ASSUME w >= M + y PROVE FALSE
  <2>1. w * q >= (M + y) * q
    BY <1>7, <1>8, <1>10, <1>22
  <2>2. 2 * ((M + y) * q) >= (2 * M + y) * q
    BY <1>8, <1>10
  <2> QED
    BY <1>7, <1>8, <1>10, <1>12, <1>16, <1>20, <2>1, <2>2
<1>23. w <= M
  BY <1>7, <1>17, <1>18, <1>22
<1>24. ASSUME 2 * (a - w * q) >= z * q PROVE w + z <= M
  <2>1. SUFFICES ASSUME w + z > M PROVE FALSE
    BY <1>7
  <2>2. ~(M > w)
    BY <1>7, <1>11, <1>19, <2>1
  <2>3. w = M
    BY <1>7, <1>23, <2>2
  <2>4. z = y
    BY <1>8, <1>9, <1>10, <1>15, <2>3, BinadeIsOne
  <2>5. (2 * M + y) * q = 2 * (w * q) + z * q
    BY <1>8, <1>10, <2>3, <2>4
  <2>6. PICK r \in Int : r = (2 * M + y) * q /\ 2 * a < r
    BY <1>8, <1>10, <1>12
  <2>7. r = 2 * s + t
    BY <1>20, <1>21, <2>5, <2>6
  <2>8. 2 * (a - s) >= t
    BY <1>20, <1>21, <1>24
  <2> QED
    BY <2>6, <2>7, <2>8
<1>25. Abs(w) = w /\ Abs(-w) = w /\ Abs(w + z) = w + z /\ Abs(-(w + z)) = w + z
  BY <1>7, AbsIsNat
<1>26. w \in Finite /\ -w \in Finite
  BY <1>7, <1>8, <1>17, <1>23, <1>25, FiniteIsGrid
<1>27. ASSUME 2 * (a - w * q) >= z * q PROVE w + z \in Finite /\ -(w + z) \in Finite
  BY <1>7, <1>8, <1>17, <1>24, <1>25, <1>27, FiniteIsGrid
<1> QED
  BY <1>26, <1>27

\* A quotient, rounded, is a double.
LEMMA RoundedIsDouble ==
    ASSUME NEW n \in Int, NEW q \in Nat \ {0}
    PROVE  Rounded(n, q) \in DoubleValues
<1>1. PICK a \in Nat : a = Abs(n)
  BY AbsIsNat
<1>2. PICK u \in Nat : u = a \div q /\ q * u <= a
  BY CutDown
<1>3. PICK k \in Nat : Binade(u, k)
  BY BinadeExists
<1>4. PICK z \in Nat \ {0} : z = Ulp(u) /\ z = Pow2[k]
  <2>1. Abs(u) = u
    BY AbsIsNat
  <2> QED
    BY <1>3, <2>1, UlpIsOfBinade, PowersUnfold
<1>5. PICK c \in Nat : c = a \div (q * z)
  BY CutDown
<1>6. PICK w \in Nat : w = c * z
  OBVIOUS
<1>7. w <= u /\ u < w + z
  BY <1>2, <1>5, <1>6, CutDown
<1>8. PICK s \in {1, -1} : s = Sign(n)
  BY AbsIsNat
<1>9. PICK lim \in Nat : lim = (2 * MaxFinite + Ulp(MaxFinite)) * q
  <2>1. PICK i \in Nat : Binade(MaxFinite, i)
    BY DoublesAssumption, BinadeExists
  <2>2. Abs(MaxFinite) = MaxFinite /\ MaxFinite \in Nat
    BY DoublesAssumption, AbsIsNat
  <2>3. PICK y \in Nat : y = Ulp(MaxFinite)
    BY <2>1, <2>2, UlpIsOfBinade, PowersUnfold
  <2>4. (2 * MaxFinite + y) * q \in Nat
    BY <2>2
  <2> QED
    BY <2>3, <2>4
<1>b. PICK t \in Nat, v \in Int : t = z * q /\ v = 2 * (a - w * q)
  OBVIOUS
<1>11. Rounded(n, q) =
           IF 2 * a >= lim THEN Inf(s)
           ELSE Fin(s * (IF v < t \/ (v = t /\ (w \div z) % 2 = 0) THEN w ELSE w + z))
  BY <1>1, <1>2, <1>4, <1>5, <1>6, <1>8, <1>9, <1>b DEF Rounded
<1>12. CASE 2 * a >= lim
  BY <1>8, <1>11, <1>12 DEF DoubleValues
<1>13. CASE ~(2 * a >= lim)
  <2>1. 2 * a < (2 * MaxFinite + Ulp(MaxFinite)) * q
    BY <1>9, <1>13
  <2>2. /\ w \in Finite /\ -w \in Finite
        /\ 2 * (a - w * q) >= z * q => w + z \in Finite /\ -(w + z) \in Finite
    BY <1>2, <1>3, <1>4, <1>6, <1>7, <2>1, NearestInGrid
  <2>3. PICK r \in Nat :
            r = IF v < t \/ (v = t /\ (w \div z) % 2 = 0) THEN w ELSE w + z
    OBVIOUS
  <2>4. r \in Finite /\ -r \in Finite
    <3>1. r = w \/ (r = w + z /\ ~(v < t))
      BY <2>3
    <3>2. CASE r = w
      BY <2>2, <3>2
    <3>3. CASE r = w + z /\ ~(v < t)
      <4>1. 2 * (a - w * q) >= z * q
        BY <1>b, <3>3
      <4> QED
        BY <2>2, <3>3, <4>1
    <3> QED
      BY <3>1, <3>2, <3>3
  <2>5. s * r = r \/ s * r = -r
    BY <1>8
  <2>6. Fin(s * r) \in DoubleValues
    BY <2>4, <2>5 DEF DoubleValues
  <2> QED
    BY <1>11, <1>13, <2>3, <2>6
<1> QED
  BY <1>12, <1>13
-----------------------------------------------------------------------------
(* The operations *)

LEMMA DoubleParts ==
    ASSUME NEW x \in DoubleValues
    PROVE  /\ x[2] \in Int
           /\ IsFinite(x) => x[2] \in Finite /\ x = Fin(x[2])
           /\ ~IsFinite(x) => x \in {Inf(1), Inf(-1), NaN} /\ x[2] \in {1, -1, 0}
BY FiniteOnlyIf DEF DoubleValues, IsFinite, Fin, Inf, NaN

LEMMA SpecialsAreDoubles ==
    /\ Inf(1) \in DoubleValues /\ Inf(-1) \in DoubleValues /\ NaN \in DoubleValues
    /\ \A i \in {1, -1}, j \in {1, -1} : Inf(i * j) \in DoubleValues
BY DEF DoubleValues

LEMMA FiniteIsDouble ==
    ASSUME NEW u \in Finite
    PROVE  Fin(u) \in DoubleValues /\ Fin(-u) \in DoubleValues /\ -u \in Finite
<1>1. u \in Int /\ -u \in Int /\ Abs(-u) = Abs(u)
  BY FiniteOnlyIf, AbsIsNat
<1>2. -u \in Finite
  BY <1>1, FiniteIsGrid
<1> QED
  BY <1>2 DEF DoubleValues

LEMMA FromLongIsDouble ==
    ASSUME NEW n \in Int
    PROVE  FromLong(n) \in DoubleValues
<1>1. PICK u \in Int : u = n * Unit
  BY DEF Unit
<1> QED
  BY <1>1, RoundedIsDouble DEF FromLong

LEMMA NegatedIsDouble ==
    ASSUME NEW x \in DoubleValues
    PROVE  Negated(x) \in DoubleValues
<1>1. CASE IsFinite(x)
  <2>1. x[2] \in Finite /\ x[1] = "fin"
    BY <1>1, DoubleParts DEF IsFinite
  <2>2. Negated(x) = Fin(-x[2])
    BY <2>1 DEF Negated, Fin
  <2> QED
    BY <2>1, <2>2, FiniteIsDouble
<1>2. CASE ~IsFinite(x)
  <2>1. x \in {Inf(1), Inf(-1), NaN}
    BY <1>2, DoubleParts
  <2>2. Negated(x) \in {Inf(1), Inf(-1), NaN}
    BY <2>1 DEF Negated, Inf, NaN
  <2> QED
    BY <2>2, SpecialsAreDoubles
<1> QED
  BY <1>1, <1>2

LEMMA SignsMultiply ==
    ASSUME NEW u \in Int, NEW v \in Int
    PROVE  Sign(u) \in {1, -1} /\ Inf(Sign(u) * Sign(v)) \in DoubleValues
BY AbsIsNat, SpecialsAreDoubles

LEMMA PlusIsDouble ==
    ASSUME NEW x \in DoubleValues, NEW y \in DoubleValues
    PROVE  Plus(x, y) \in DoubleValues
<1>1. PICK u \in Int : u = x[2] + y[2]
  BY DoubleParts
<1>2. Rounded(u, 1) \in DoubleValues
  BY RoundedIsDouble
<1>3. Plus(x, y) \in {Rounded(u, 1), NaN, x, y}
  <2>1. CASE IsFinite(x) /\ IsFinite(y)
    BY <1>1, <2>1 DEF Plus, IsFinite, NaN, Negated
  <2>2. CASE ~(IsFinite(x) /\ IsFinite(y))
    BY <2>2 DEF Plus
  <2> QED
    BY <2>1, <2>2
<1> QED
  BY <1>2, <1>3, SpecialsAreDoubles

LEMMA MinusIsDouble ==
    ASSUME NEW x \in DoubleValues, NEW y \in DoubleValues
    PROVE  Minus(x, y) \in DoubleValues
BY NegatedIsDouble, PlusIsDouble DEF Minus

LEMMA TimesIsDouble ==
    ASSUME NEW x \in DoubleValues, NEW y \in DoubleValues
    PROVE  Times(x, y) \in DoubleValues
<1>1. PICK u \in Int : u = x[2] * y[2]
  BY DoubleParts
<1>2. Rounded(u, Unit) \in DoubleValues
  BY RoundedIsDouble DEF Unit
<1>3. PICK z \in DoubleValues : z = Inf(Sign(x[2]) * Sign(y[2]))
  BY DoubleParts, SignsMultiply
<1>4. Times(x, y) \in {Rounded(u, Unit), NaN, z}
  <2>1. CASE IsFinite(x) /\ IsFinite(y)
    <3>1. x # NaN /\ y # NaN
      BY <2>1 DEF IsFinite, NaN
    <3>2. Times(x, y) \in {Rounded(u, Unit), NaN}
      BY <1>1, <2>1, <3>1 DEF Times
    <3> QED
      BY <3>2
  <2>2. CASE ~(IsFinite(x) /\ IsFinite(y))
    BY <1>3, <2>2 DEF Times
  <2> QED
    BY <2>1, <2>2
<1> QED
  BY <1>2, <1>3, <1>4, SpecialsAreDoubles

LEMMA ZeroIsFinite == 0 \in Finite /\ Zero \in DoubleValues
<1>1. PICK p \in Nat : p = Precision
  BY DoublesAssumption
<1>2. 0 <= Pow2[p + 0] /\ 0 = 0 * Pow2[0]
  BY PowersUnfold
<1>3. 0 \in Grid /\ Abs(0) = 0
  BY <1>1, <1>2, WholeIsGrid, AbsIsNat
<1>4. 0 \in Finite
  BY <1>3, FiniteIsGrid, DoublesAssumption
<1> QED
  BY <1>4, FiniteIsDouble DEF Zero

\* A divisor is not zero.
LEMMA OverIsDouble ==
    ASSUME NEW x \in DoubleValues, NEW y \in DoubleValues, y # Zero
    PROVE  Over(x, y) \in DoubleValues
<1>1. PICK u \in Int : u = x[2] * Unit * Sign(y[2])
  <2>1. x[2] \in Int /\ Sign(y[2]) \in Int
    BY DoubleParts, AbsIsNat
  <2> QED
    BY <2>1 DEF Unit
<1>2. ASSUME IsFinite(y) PROVE Rounded(u, Abs(y[2])) \in DoubleValues
  <2>1. y[2] \in Int /\ y = Fin(y[2])
    BY <1>2, DoubleParts
  <2>2. Abs(y[2]) \in Nat \ {0}
    BY <2>1, AbsIsNat DEF Zero
  <2> QED
    BY <2>2, RoundedIsDouble
<1>3. PICK z \in DoubleValues : z = Inf(Sign(x[2]) * Sign(y[2]))
  BY DoubleParts, SignsMultiply
<1>4. Zero \in DoubleValues
  BY ZeroIsFinite
<1>5. CASE IsFinite(x) /\ IsFinite(y)
  <2>1. Over(x, y) \in {Rounded(u, Abs(y[2])), NaN}
    BY <1>1, <1>5 DEF Over
  <2> QED
    BY <1>2, <1>5, <2>1, SpecialsAreDoubles
<1>6. CASE ~(IsFinite(x) /\ IsFinite(y))
  <2>1. Over(x, y) \in {NaN, Zero, z}
    BY <1>3, <1>6 DEF Over
  <2> QED
    BY <1>3, <1>4, <2>1, SpecialsAreDoubles
<1> QED
  BY <1>5, <1>6
-----------------------------------------------------------------------------
(* Whole numbers among the doubles *)

\* Beyond 2^(Precision + 1) every double is a whole number.
LEMMA BigIsWhole ==
    ASSUME NEW u \in Finite, ~(Abs(u) <= Pow2[Precision + 1])
    PROVE  \E c \in Int : Abs(u) = c * 4
<1>1. PICK k \in Nat, c \in Nat : Binade(Abs(u), k) /\ Abs(u) = c * Pow2[k] /\ Abs(u) \in Nat
  BY FiniteOnlyIf
<1>2. PICK p \in Nat : p = Precision
  BY DoublesAssumption
<1>3. k >= 2
  <2>1. SUFFICES ASSUME k <= 1 PROVE FALSE
    OBVIOUS
  <2>2. Abs(u) < Pow2[p + k]
    BY <1>1, <1>2 DEF Binade
  <2>3. PICK i \in Nat, j \in Nat : i = p + k /\ j = p + 1 /\ i <= j
    BY <2>1
  <2>4. Pow2[i] <= Pow2[j] /\ Pow2[i] \in Nat /\ Pow2[j] \in Nat
    BY <2>3, PowersAreOrdered, PowersUnfold
  <2> QED
    BY <1>1, <1>2, <2>2, <2>3, <2>4
<1>4. PICK f \in Nat : Pow2[k] = f * Pow2[2]
  BY <1>3, PowersAreOrdered
<1>5. Pow2[2] = 4
  <2>1. Pow2[1] = 2 * Pow2[1 - 1] /\ Pow2[2] = 2 * Pow2[2 - 1] /\ Pow2[0] = 1
    BY PowersUnfold
  <2> QED
    BY <2>1
<1>6. Abs(u) = (c * f) * 4
  BY <1>1, <1>4, <1>5
<1> QED
  BY <1>6

\* Below it, every whole number is a double, up to the last of them.
LEMMA WholeIsDouble ==
    ASSUME NEW w \in Nat, NEW c \in Int, w = c * 4, w <= MaxFinite,
           w <= Pow2[Precision + 1] \/ w \in Finite
    PROVE  w \in Finite /\ -w \in Finite
<1>1. CASE w <= Pow2[Precision + 1]
  <2>1. PICK p \in Nat : p = Precision
    BY DoublesAssumption
  <2>2. PICK i \in Nat, j \in Nat : i = p + 1 /\ j = p + 2 /\ i <= j
    OBVIOUS
  <2>3. Pow2[i] <= Pow2[j] /\ Pow2[i] \in Nat /\ Pow2[j] \in Nat
    BY <2>2, PowersAreOrdered, PowersUnfold
  <2>4. w <= Pow2[Precision + 2]
    BY <1>1, <2>1, <2>2, <2>3
  <2>5. Pow2[2] = 4
    <3>1. Pow2[1] = 2 * Pow2[1 - 1] /\ Pow2[2] = 2 * Pow2[2 - 1] /\ Pow2[0] = 1
      BY PowersUnfold
    <3> QED
      BY <3>1
  <2>6. w \in Grid
    BY <2>4, <2>5, WholeIsGrid
  <2>7. Abs(w) = w /\ Abs(-w) = w
    BY AbsIsNat
  <2> QED
    BY <2>6, <2>7, FiniteIsGrid
<1>2. CASE w \in Finite
  BY <1>2, FiniteIsDouble
<1> QED
  BY <1>1, <1>2

\* The whole numbers on either side of a double.
LEMMA RoundedToWhole ==
    ASSUME NEW u \in Finite, NEW v \in Nat, v = Abs(u), NEW w \in Nat, NEW c \in Int, w = c * 4,
           v - 4 < w, w < v + 4
    PROVE  w \in Finite /\ -w \in Finite
<1>1. v \in Finite /\ v <= MaxFinite
  <2>1. u \in Int /\ v <= MaxFinite /\ v = Abs(u)
    BY FiniteOnlyIf
  <2> QED
    BY <2>1, AbsIsNat, FiniteIsDouble
<1>2. PICK M \in Nat, e \in Int : M = MaxFinite /\ M = e * 4
  <2>1. MaxFinite \in Nat /\ MaxFinite % 4 = 0
    BY MaxFiniteAssumption, DoublesAssumption DEF Unit
  <2>2. \E e \in Int : MaxFinite = e * 4
    BY <2>1, MultipleHasNoRest
  <2> QED
    BY <2>1, <2>2
<1>3. w <= MaxFinite
  BY <1>1, <1>2
<1>4. CASE ~(v <= Pow2[Precision + 1])
  <2>1. PICK f \in Int : v = f * 4
    BY <1>4, BigIsWhole
  <2>2. w = v
    BY <2>1
  <2> QED
    BY <1>1, <1>3, <2>2, WholeIsDouble
<1>5. CASE v <= Pow2[Precision + 1]
  <2>1. PICK p \in Nat : p = Precision
    BY DoublesAssumption
  <2>2. PICK j \in Nat, i \in Nat : i = p + 1 /\ j = p - 1 /\ i = j + 2
    BY <2>1, DoublesAssumption
  <2>3. Pow2[2] = 4
    <3>1. Pow2[1] = 2 * Pow2[1 - 1] /\ Pow2[2] = 2 * Pow2[2 - 1] /\ Pow2[0] = 1
      BY PowersUnfold
    <3> QED
      BY <3>1
  <2>4. Pow2[j + 2] = Pow2[j] * Pow2[2] /\ Pow2[j] \in Nat
    BY PowerOfSum, PowersUnfold
  <2>5. PICK f \in Nat : Pow2[Precision + 1] = f * 4
    BY <2>1, <2>2, <2>3, <2>4
  <2>6. w <= Pow2[Precision + 1]
    BY <1>5, <2>5
  <2> QED
    BY <1>3, <2>6, WholeIsDouble
<1> QED
  BY <1>4, <1>5

LEMMA FloorIsDouble ==
    ASSUME NEW x \in DoubleValues
    PROVE  Floor(x) \in DoubleValues
<1>1. CASE ~IsFinite(x)
  BY <1>1 DEF Floor
<1>2. CASE IsFinite(x)
  <2>1. PICK u \in Finite : u = x[2] /\ u \in Int
    BY <1>2, DoubleParts
  <2>2. PICK c \in Int : c = u \div 4 /\ c * 4 <= u /\ u < c * 4 + 4
    BY <2>1
  <2>3. Floor(x) = Fin(c * 4)
    BY <1>2, <2>1, <2>2 DEF Floor, Unit
  <2>4. PICK v \in Nat : v = Abs(u)
    BY <2>1, AbsIsNat
  <2>5. PICK w \in Nat, e \in Int : w = e * 4 /\ (c * 4 = w \/ c * 4 = -w) /\ v - 4 < w /\ w < v + 4
    <3>1. CASE c >= 0
      <4>1. PICK w \in Nat : w = c * 4
        BY <3>1
      <4>2. v = u
        BY <2>1, <2>2, <2>4, <3>1 DEF Abs
      <4>3. v - 4 < w /\ w < v + 4
        BY <2>1, <2>2, <4>1, <4>2
      <4> QED
        BY <4>1, <4>3
    <3>2. CASE c < 0
      <4>1. PICK e \in Int : e = -c
        OBVIOUS
      <4>2. PICK w \in Nat : w = e * 4 /\ c * 4 = -w
        BY <3>2, <4>1
      <4>3. v = -u
        BY <2>1, <2>2, <2>4, <3>2 DEF Abs
      <4>4. v - 4 < w /\ w < v + 4
        BY <2>1, <2>2, <4>2, <4>3
      <4> QED
        BY <4>2, <4>4
    <3> QED
      BY <3>1, <3>2
  <2>6. w \in Finite /\ -w \in Finite
    BY <2>1, <2>4, <2>5, RoundedToWhole
  <2> QED
    BY <2>3, <2>5, <2>6 DEF DoubleValues
<1> QED
  BY <1>1, <1>2

LEMMA CeilIsDouble ==
    ASSUME NEW x \in DoubleValues
    PROVE  Ceil(x) \in DoubleValues /\ Truncated(x) \in DoubleValues
BY FloorIsDouble, NegatedIsDouble DEF Ceil, Truncated

LEMMA NearestIsDouble ==
    ASSUME NEW x \in DoubleValues
    PROVE  Nearest(x) \in DoubleValues
<1>1. CASE ~IsFinite(x)
  BY <1>1 DEF Nearest
<1>2. CASE IsFinite(x)
  <2>1. PICK u \in Finite : u = x[2] /\ u \in Int
    BY <1>2, DoubleParts
  <2>2. PICK v \in Nat, s \in {1, -1} : v = Abs(u) /\ s = Sign(u)
    BY <2>1, AbsIsNat
  <2>3. PICK c \in Int : c = (v + 2) \div 4 /\ c * 4 <= v + 2 /\ v + 2 < c * 4 + 4
    BY <2>2
  <2>4. Nearest(x) = Fin(s * c * 4)
    <3>1. Unit \div 2 = 2
      BY DEF Unit
    <3> QED
      BY <1>2, <2>1, <2>2, <2>3, <3>1 DEF Nearest, Unit
  <2>5. PICK w \in Nat : w = c * 4 /\ v - 4 < w /\ w < v + 4
    BY <2>3
  <2>6. w \in Finite /\ -w \in Finite
    BY <2>1, <2>2, <2>5, RoundedToWhole
  <2>7. s * c * 4 = w \/ s * c * 4 = -w
    BY <2>2, <2>5
  <2> QED
    BY <2>4, <2>6, <2>7 DEF DoubleValues
<1> QED
  BY <1>1, <1>2
-----------------------------------------------------------------------------
(* Roots, exponents, bits *)

LEMMA OneIsDouble == One \in DoubleValues
<1>1. PICK p \in Nat, l \in Nat, j \in Nat : p = Precision /\ l = LongBits - 1 /\ j = p + 1 /\ 2 <= j
  BY DoublesAssumption
<1>2. Pow2[1] = 2 * Pow2[1 - 1] /\ Pow2[2] = 2 * Pow2[2 - 1] /\ Pow2[0] = 1
  BY PowersUnfold
<1>3. Pow2[2] <= Pow2[j] /\ Pow2[j] \in Nat /\ Pow2[l] >= 1 /\ Pow2[l] \in Nat
  BY <1>1, PowersAreOrdered, PowersUnfold
<1>4. 4 <= Pow2[Precision + 1] /\ 4 <= MaxFinite /\ 4 = 1 * 4
  BY <1>1, <1>2, <1>3, DoublesAssumption
<1>5. 4 \in Finite
  BY <1>4, WholeIsDouble
<1> QED
  BY <1>5 DEF One, Unit, DoubleValues

LEMMA SquareRootIsDouble ==
    ASSUME NEW x \in DoubleValues
    PROVE  SquareRoot(x) \in DoubleValues
<1>1. CASE x = NaN \/ Smaller(x, Zero) \/ ~IsFinite(x)
  BY <1>1, SpecialsAreDoubles DEF SquareRoot
<1>2. CASE x # NaN /\ ~Smaller(x, Zero) /\ IsFinite(x)
  <2>1. PICK u \in Finite : u = x[2] /\ u \in Int
    BY <1>2, DoubleParts
  <2>2. u >= 0
    BY <1>2, <2>1 DEF Smaller, Zero, Fin, NaN, IsFinite
  <2>3. PICK B : B = {v \in Finite : v >= 0 /\ v * v <= Unit * x[2]}
    OBVIOUS
  <2>4. PICK M \in Nat : M = MaxFinite /\ M \in Finite /\ \A v \in Finite : v \in Int /\ v <= M
    <3>1. \A v \in Finite : v \in Int /\ v <= MaxFinite
      BY DoublesAssumption DEF Finite
    <3> QED
      BY <3>1, MaxFiniteAssumption, DoublesAssumption
  <2>5. 0 \in B
    BY <2>1, <2>2, <2>3, ZeroIsFinite DEF Unit
  <2>6. \A v \in B : v \in 0..M
    BY <2>3, <2>4
  <2>7. PICK below : below = Max(B)
    OBVIOUS
  <2>8. below \in Finite /\ below \in Int
    <3>1. B \subseteq 0..M /\ B # {}
      BY <2>5, <2>6
    <3>2. below \in B
      BY <2>7, <3>1, GreatestExists
    <3> QED
      BY <2>3, <2>4, <3>2
  <2>9. PICK A : A = {v \in Finite : v > below}
    OBVIOUS
  <2>10. PICK above : above = IF below = M THEN below ELSE Min(A)
    OBVIOUS
  <2>11. above \in Finite
    <3>1. CASE below = M
      BY <2>4, <2>10, <3>1
    <3>2. CASE below # M
      <4>1. below >= 0 /\ below <= M
        <5>1. below \in B
          BY <2>5, <2>6, <2>7, GreatestExists
        <5> QED
          BY <2>6, <5>1
      <4>2. M \in A
        BY <2>4, <2>8, <2>9, <3>2, <4>1
      <4>3. A \subseteq Nat
        <5>1. \A v \in A : v \in Nat
          BY <2>4, <2>8, <2>9, <4>1
        <5> QED
          BY <5>1
      <4>4. \E v \in A : \A w \in A : v <= w
        BY <4>2, <4>3, LeastExists
      <4>5. Min(A) \in A
        BY <4>4 DEF Min
      <4> QED
        BY <2>9, <2>10, <3>2, <4>5
    <3> QED
      BY <3>1, <3>2
  <2>12. SquareRoot(x) \in {Fin(below), Fin(above)}
    BY <1>2, <2>3, <2>4, <2>7, <2>9, <2>10 DEF SquareRoot
  <2> QED
    BY <2>8, <2>11, <2>12, FiniteIsDouble
<1> QED
  BY <1>1, <1>2

LEMMA ScaledIsDouble ==
    ASSUME NEW x \in DoubleValues, NEW n \in Int
    PROVE  Scaled(x, n) \in DoubleValues
<1>1. CASE ~IsFinite(x)
  BY <1>1 DEF Scaled
<1>2. CASE IsFinite(x) /\ n >= 0
  <2>1. PICK u \in Int : u = x[2] * Pow2[n]
    BY <1>2, DoubleParts, PowersUnfold
  <2>2. Scaled(x, n) = Rounded(u, 1)
    BY <1>2, <2>1 DEF Scaled
  <2> QED
    BY <2>2, RoundedIsDouble
<1>3. CASE IsFinite(x) /\ ~(n >= 0)
  <2>1. PICK l \in Nat : l = -n
    BY <1>3
  <2>2. Pow2[l] \in Nat \ {0} /\ x[2] \in Int
    BY DoubleParts, PowersUnfold
  <2>3. Scaled(x, n) = Rounded(x[2], Pow2[l])
    BY <1>3, <2>1 DEF Scaled
  <2> QED
    BY <2>2, <2>3, RoundedIsDouble
<1> QED
  BY <1>1, <1>2, <1>3

LEMMA HighestBit ==
    ASSUME NEW v \in Nat \ {0}
    PROVE  \E k \in Nat : Pow2[k] <= v /\ v < Pow2[k + 1]
<1>1. SUFFICES ASSUME \A k \in Nat : ~(Pow2[k] <= v /\ v < Pow2[k + 1]) PROVE FALSE
  OBVIOUS
<1>2. PICK P : P = {k \in Nat : Pow2[k] <= v}
  OBVIOUS
<1>3. 0 \in P
  BY <1>2, PowersUnfold
<1>4. ASSUME NEW k \in Nat, k \in P PROVE k + 1 \in P
  <2>1. PICK l \in Nat : l = k + 1
    OBVIOUS
  <2>2. Pow2[l] \in Nat /\ ~(v < Pow2[l])
    BY <1>1, <1>2, <1>4, <2>1, PowersUnfold
  <2> QED
    BY <1>2, <2>1, <2>2
<1>5. \A k \in Nat : k \in P
  BY <1>3, <1>4, NaturalsByInduction
<1>6. Pow2[v] <= v /\ v < Pow2[v] /\ Pow2[v] \in Nat
  BY <1>2, <1>5, PowersGrow, PowersUnfold
<1> QED
  BY <1>6

LEMMA ExponentIsInt ==
    ASSUME NEW x \in DoubleValues
    PROVE  Exponent(x) \in Int
<1>1. CASE x = Zero \/ ~IsFinite(x)
  BY <1>1 DEF Exponent
<1>2. CASE x # Zero /\ IsFinite(x)
  <2>1. x[2] \in Finite /\ x = Fin(x[2]) /\ x[2] \in Int
    BY <1>2, DoubleParts
  <2>2. PICK v \in Nat \ {0} : v = Abs(x[2]) /\ v <= MaxFinite
    BY <1>2, <2>1, AbsIsNat, FiniteOnlyIf DEF Zero
  <2>3. PICK k \in Nat : Pow2[k] <= v /\ v < Pow2[k + 1]
    BY HighestBit
  <2>4. k <= v
    BY <2>3, PowersGrow, PowersUnfold
  <2>5. PICK e \in Int : e = k - 1 /\ e + 1 = k /\ e + 2 = k + 1 /\ e \in -1..MaxFinite
    BY <2>2, <2>4, DoublesAssumption
  <2>6. PICK l : l = CHOOSE i \in -1..MaxFinite : Pow2[i + 1] <= v /\ v < Pow2[i + 2]
    OBVIOUS
  <2>7. l \in -1..MaxFinite
    BY <2>3, <2>5, <2>6
  <2> QED
    BY <1>2, <2>2, <2>6, <2>7 DEF Exponent
<1> QED
  BY <1>1, <1>2

LEMMA FractionIsDouble ==
    ASSUME NEW x \in DoubleValues
    PROVE  Fraction(x) \in DoubleValues
<1>1. PICK n \in Int : n = -Exponent(x)
  BY ExponentIsInt
<1> QED
  BY <1>1, ScaledIsDouble DEF Fraction

LEMMA QuotientsAreInts ==
    ASSUME NEW n \in Int, NEW d \in Int, d # 0
    PROVE  Quot(n, d) \in Int /\ Rem(n, d) \in Int
<1>1. PICK a \in Nat, b \in Nat \ {0} : a = Abs(n) /\ b = Abs(d)
  BY AbsIsNat
<1>2. PICK q \in Int : q = a \div b
  OBVIOUS
<1>3. PICK i \in {1, -1}, j \in {1, -1} : i = Sign(n) /\ j = Sign(d)
  BY AbsIsNat
<1>4. Quot(n, d) = i * j * q
  BY <1>1, <1>2, <1>3 DEF Quot
<1>5. PICK r \in Int : r = Quot(n, d)
  BY <1>4
<1> QED
  BY <1>5 DEF Rem

LEMMA ToIntIsInt ==
    ASSUME NEW n \in Int
    PROVE  ToInt(n) \in Int
<1>1. PICK i \in Nat, j \in Nat : i = IntBits /\ j = IntBits - 1
  BY DoublesAssumption
<1>2. Pow2[i] \in Nat \ {0} /\ Pow2[j] \in Nat
  BY PowersUnfold
<1> QED
  BY <1>1, <1>2 DEF ToInt

\* What bits make is a number.
LEMMA FromBitsIsInt ==
    ASSUME NEW b, \A i \in 0..(LongBits - 1) : b[i] \in Int
    PROVE  FromBits(b) \in Int
<1>1. PICK N \in Nat : N = LongBits - 1
  BY DoublesAssumption
<1>2. PICK S : S = [p \in Nat \X Int |-> IF p[1] \in 1..N THEN p[2] + b[p[1] - 1] * Pow2[p[1] - 1] ELSE 0]
  OBVIOUS
<1>3. \A n \in 1..N : n - 1 \in Nat /\ n - 1 \in 0..N /\ b[n - 1] \in Int /\ Pow2[n - 1] \in Int
  BY <1>1, PowersUnfold
<1>4. S \in [Nat \X Int -> Int]
  BY <1>2, <1>3
<1>5. PICK I : I = 0..N
  OBVIOUS
<1>6. PICK f \in [I -> Int] : Unfolds(I, 0, S, f)
  <2>1. I = Nat \/ \E M \in Nat : I = 0..M
    BY <1>5
  <2>2. PICK D : D = Int
    OBVIOUS
  <2>3. PICK a \in D : a = 0
    BY <2>2
  <2>4. S \in [Nat \X D -> D]
    BY <1>4, <2>2
  <2>5. \E f \in [I -> D] : Unfolds(I, a, S, f)
    BY <2>1, <2>4, RecursionWorks
  <2> QED
    BY <2>2, <2>3, <2>5
<1>7. \A n \in I : n # 0 => n \in 1..N /\ n - 1 \in I /\ n \in Nat
  BY <1>5
<1>8. \A n \in I : f[n] = IF n = 0 THEN 0 ELSE f[n - 1] + b[n - 1] * Pow2[n - 1]
  BY <1>2, <1>6, <1>7 DEF Unfolds
<1>9. f = [n \in I |-> IF n = 0 THEN 0 ELSE f[n - 1] + b[n - 1] * Pow2[n - 1]]
  BY <1>6, <1>8
<1>10. PICK low : low = CHOOSE g : g = [n \in I |-> IF n = 0 THEN 0 ELSE g[n - 1] + b[n - 1] * Pow2[n - 1]]
  OBVIOUS
<1>11. low = [n \in I |-> IF n = 0 THEN 0 ELSE low[n - 1] + b[n - 1] * Pow2[n - 1]]
  BY <1>9, <1>10
<1>12. PICK P : P = {n \in I : low[n] \in Int}
  OBVIOUS
<1>13. 0 \in P
  BY <1>5, <1>11, <1>12
<1>14. ASSUME NEW n \in Nat, n < N, n \in P PROVE n + 1 \in P
  <2>1. PICK l \in Nat : l = n + 1 /\ l \in I /\ l \in 1..N /\ l # 0 /\ l - 1 = n
    BY <1>5, <1>14
  <2>2. low[l] = low[n] + b[n] * Pow2[n]
    BY <1>11, <2>1
  <2>3. b[n] \in Int /\ Pow2[n] \in Int /\ low[n] \in Int
    BY <1>3, <1>12, <1>14, <2>1
  <2> QED
    BY <1>12, <2>1, <2>2, <2>3
<1>15. \A n \in 0..N : n \in P
  BY <1>13, <1>14, SegmentByInduction
<1>16. low[N] \in Int /\ b[N] \in Int /\ Pow2[N] \in Int
  BY <1>1, <1>12, <1>15, PowersUnfold
<1>17. FromBits(b) = low[N] - b[N] * Pow2[N]
  BY <1>1, <1>5, <1>10 DEF FromBits
<1> QED
  BY <1>16, <1>17

LEMMA BitsAreInts ==
    ASSUME NEW n \in Int, NEW d \in Int
    PROVE  BitAnd(n, d) \in Int /\ BitXor(n, d) \in Int /\ BitOr(n, d) \in Int
<1>1. ASSUME NEW l \in Int, NEW i \in 0..(LongBits - 1) PROVE Bit(l, i) \in Int
  <2>1. PICK w \in Nat \ {0} : w = Pow2[i]
    BY DoublesAssumption, PowersUnfold
  <2>2. l \div w \in Int
    BY <2>1
  <2> QED
    BY <2>1, <2>2 DEF Bit
<1>2. ASSUME NEW l \in Int, NEW e \in Int PROVE BitAnd(l, e) \in Int /\ BitXor(l, e) \in Int
  <2>1. PICK b : b = [i \in 0..(LongBits - 1) |-> Bit(l, i) * Bit(e, i)]
    OBVIOUS
  <2>2. PICK c : c = [i \in 0..(LongBits - 1) |-> (Bit(l, i) + Bit(e, i)) % 2]
    OBVIOUS
  <2>3. ASSUME NEW i \in 0..(LongBits - 1) PROVE b[i] \in Int /\ c[i] \in Int
    <3>1. PICK x \in Int, y \in Int : x = Bit(l, i) /\ y = Bit(e, i)
      BY <1>1
    <3>2. b[i] = x * y /\ c[i] = (x + y) % 2
      BY <2>1, <2>2, <3>1
    <3> QED
      BY <3>2
  <2>4. FromBits(b) \in Int /\ FromBits(c) \in Int
    BY <2>3, FromBitsIsInt
  <2> QED
    BY <2>1, <2>2, <2>4 DEF BitAnd, BitXor
<1>3. BitXor(BitXor(n, d), BitAnd(n, d)) \in Int
  BY <1>2
<1> QED
  BY <1>2, <1>3 DEF BitOr

-----------------------------------------------------------------------------
(* Stack operators *)

LEMMA RotatedIsSeq ==
    ASSUME NEW S, NEW s \in Seq(S), NEW n \in 0..Len(s), NEW mid \in Int
    PROVE  Rotated(s, n, mid) \in Seq(S)
<1>1. PICK base \in Nat : base = Len(s) - n /\ base <= Len(s)
  OBVIOUS
<1>2. PICK f : f = Rotated(s, n, mid)
  OBVIOUS
<1>3. f = [i \in 1..Len(s) |-> IF i <= base THEN s[i] ELSE s[base + 1 + ((i - base - 1 + mid) % n)]]
  BY <1>1, <1>2 DEF Rotated
<1>4. ASSUME NEW i \in 1..Len(s) PROVE f[i] \in S
  <2>1. CASE i <= base
    BY <1>3, <2>1, SeqParts
  <2>2. CASE i > base
    <3>1. n \in Nat /\ n > 0
      BY <1>1, <2>2
    <3>2. PICK l \in Int : l = i - base - 1 + mid
      <4>1. i \in Int
        BY SeqParts
      <4>2. i - base - 1 + mid \in Int
        BY <1>1, <4>1
      <4> QED
        BY <4>2
    <3>3. PICK r \in 0..(n - 1) : r = l % n
      BY <3>1
    <3>4. base + 1 + r \in 1..Len(s)
      BY <1>1, <3>1
    <3>5. f[i] = s[base + 1 + r]
      BY <1>1, <1>3, <2>2, <3>2, <3>3
    <3> QED
      BY <3>4, <3>5, SeqParts
  <2> QED
    BY <1>1, <2>1, <2>2
<1>5. f = [i \in 1..Len(s) |-> f[i]]
  BY <1>3
<1>6. Len(s) \in Int
  BY SeqParts
<1> QED
  BY <1>2, <1>4, <1>5, <1>6, SeqBuilt

LEMMA RollIsSeq ==
    ASSUME NEW S, NEW s \in Seq(S), NEW n \in 0..Len(s), NEW d \in Int
    PROVE  StackRoll(s, n, d) \in Seq(S)
<1>1. CASE n = 0
  BY <1>1 DEF StackRoll
<1>2. CASE n # 0
  <2>1. n \in Nat /\ n > 0 /\ Modulus \in Nat /\ Modulus > 0
    BY <1>2, ModulusAssumption
  <2>2. PICK a \in Int : a = d % n
    BY <2>1
  <2>3. PICK b \in Int : b = (n + d) % Modulus
    BY <2>1
  <2>4. PICK c \in Int : c = b % n
    BY <2>1
  <2>5. n - a \in Int /\ n - c \in Int
    BY <2>1
  <2>6. Rotated(s, n, n - a) \in Seq(S) /\ Rotated(s, n, n - c) \in Seq(S)
    BY <2>5, RotatedIsSeq
  <2> QED
    BY <1>2, <2>2, <2>3, <2>4, <2>6 DEF StackRoll
<1> QED
  BY <1>1, <1>2

LEMMA OkRolled ==
    ASSUME NEW k, Sound(k), NEW n \in 0..Load(k), NEW d \in Int
    PROVE  Ok(k, Rolled(k, n, d))
<1>1. StackRoll(k.st, n, d) \in Seq(Toks(k.heap))
  BY RollIsSeq DEF Sound, Load
<1>2. Ok(k, WithStack(k, StackRoll(k.st, n, d)))
  BY <1>1, OkStack
<1> QED
  BY <1>2 DEF WithStack, Rolled

LEMMA PopGood == ASSUME NEW k, Sound(k) PROVE Good(k, PopFunction(k))
<1>1. ASSUME Load(k) >= 1 PROVE Good(k, Done(Popped(k, 1)))
  BY <1>1, LoadIsNat, OkPopped, GoodDone
<1> QED
  BY <1>1, GoodNeeds DEF PopFunction

LEMMA DupGood == ASSUME NEW k, Sound(k) PROVE Good(k, DupFunction(k))
<1>1. ASSUME Load(k) >= 1 PROVE Good(k, Done(Pushed(k, At(k, 0))))
  BY <1>1, Operands, OkPushed, GoodDone
<1> QED
  BY <1>1, GoodNeeds DEF DupFunction

LEMMA ExchGood == ASSUME NEW k, Sound(k) PROVE Good(k, ExchFunction(k))
<1>1. ASSUME Load(k) >= 2 PROVE Good(k, Done(SlotSet(SlotSet(k, 0, At(k, 1)), 1, At(k, 0))))
  <2>1. At(k, 0) \in Toks(k.heap) /\ At(k, 1) \in Toks(k.heap) /\ 0 \in 0..(Load(k) - 1) /\ 1 \in 0..(Load(k) - 1)
    BY <1>1, LoadIsNat, Operands
  <2>2. PICK g : g = SlotSet(k, 0, At(k, 1))
    OBVIOUS
  <2>3. Ok(k, g) /\ g.heap = k.heap /\ Load(g) = Load(k)
    BY <2>1, <2>2, OkSlotSet
  <2>4. Ok(g, SlotSet(g, 1, At(k, 0)))
    BY <2>1, <2>3, OkSlotSet DEF Ok
  <2> QED
    BY <2>2, <2>3, <2>4, OkTrans, GoodDone
<1> QED
  BY <1>1, GoodNeeds DEF ExchFunction

LEMMA OverGood == ASSUME NEW k, Sound(k) PROVE Good(k, OverFunction(k))
<1>1. ASSUME Load(k) >= 2 PROVE Good(k, Done(Pushed(k, At(k, 1))))
  BY <1>1, Operands, OkPushed, GoodDone
<1> QED
  BY <1>1, GoodNeeds DEF OverFunction

LEMMA NpopGood == ASSUME NEW k, Sound(k), NEW n \in Int PROVE Good(k, NpopFunction(k, n))
<1>1. PICK l \in Int : l = n + 1
  OBVIOUS
<1>2. ASSUME n >= 0, Load(k) >= l PROVE Good(k, Done(Popped(k, l)))
  BY <1>1, <1>2, LoadIsNat, OkPopped, GoodDone
<1>3. ASSUME ~(n < 0) PROVE Good(k, Needs(k, l, Done(Popped(k, l))))
  BY <1>2, <1>3, GoodNeeds
<1>4. Good(k, Unless(k, n < 0, "RangeCheck", Needs(k, l, Done(Popped(k, l)))))
  BY <1>3, GoodUnless, PlainErrors
<1> QED
  BY <1>1, <1>4, GoodNeeds DEF NpopFunction

LEMMA IndexGood == ASSUME NEW k, Sound(k), NEW n \in Int PROVE Good(k, IndexFunction(k, n))
<1>1. PICK l \in Int : l = n + 1
  OBVIOUS
<1>2. PICK t : t = IF Load(k) = l THEN Garbage ELSE At(k, l)
  OBVIOUS
<1>3. ASSUME ~(n < 0), Load(k) >= l PROVE Good(k, Done(SlotSet(k, 0, t)))
  <2>1. 0 \in 0..(Load(k) - 1) /\ l > 0
    BY <1>1, <1>3, LoadIsNat
  <2>2. CASE Load(k) = l
    BY <1>2, <2>1, <2>2, ScalarsAreTokens, OkSlotSet, GoodDone
  <2>3. CASE Load(k) # l
    <3>1. At(k, l) \in Toks(k.heap)
      BY <1>3, <2>1, <2>3, LoadIsNat, OperandIsToken
    <3> QED
      BY <1>2, <2>1, <2>3, <3>1, OkSlotSet, GoodDone
  <2> QED
    BY <2>2, <2>3
<1>4. ASSUME ~(n < 0) PROVE Good(k, Needs(k, l, Done(SlotSet(k, 0, t))))
  BY <1>3, <1>4, GoodNeeds
<1>5. Good(k, Unless(k, n < 0, "RangeCheck", Needs(k, l, Done(SlotSet(k, 0, t)))))
  BY <1>4, GoodUnless, PlainErrors
<1> QED
  BY <1>1, <1>2, <1>5, GoodNeeds DEF IndexFunction

LEMMA CopyGood == ASSUME NEW k, Sound(k), NEW n \in Int PROVE Good(k, CopyFunction(k, n))
<1>1. PICK l \in Int : l = n + 1
  OBVIOUS
<1>2. PICK rest : rest = Drop(k.st, 1)
  OBVIOUS
<1>3. PICK s : s = rest \o SubSeq(rest, Len(rest) - n + 1, Len(rest))
  OBVIOUS
<1>4. ASSUME ~(n < 0), Load(k) >= l PROVE Good(k, Done([k EXCEPT !.st = s]))
  <2>1. Load(k) \in Nat /\ Load(k) >= 1 /\ k.st \in Seq(Toks(k.heap)) /\ Load(k) = Len(k.st)
    BY <1>1, <1>4, LoadIsNat DEF Sound, Load
  <2>2. rest \in Seq(Toks(k.heap)) /\ Len(rest) = Len(k.st) - 1
    BY <1>2, <2>1, SeqDrop
  <2>3. PICK i, j \in Int : i = Len(rest) - n + 1 /\ j = Len(rest) /\ i >= 1 /\ j <= Len(rest)
    BY <1>1, <1>4, <2>1, <2>2
  <2>4. PICK u \in Seq(Toks(k.heap)) : u = SubSeq(rest, i, j)
    BY <2>2, <2>3, SeqCut
  <2>5. s \in Seq(Toks(k.heap))
    BY <1>3, <2>2, <2>3, <2>4
  <2> QED
    BY <2>5, GoodStack
<1>5. ASSUME ~(n < 0) PROVE Good(k, Needs(k, l, Done([k EXCEPT !.st = s])))
  BY <1>4, <1>5, GoodNeeds
<1>6. Good(k, Unless(k, n < 0, "RangeCheck", Needs(k, l, Done([k EXCEPT !.st = s]))))
  BY <1>5, GoodUnless, PlainErrors
<1>7. Good(k, Needs(k, 1, Unless(k, n < 0, "RangeCheck", Needs(k, l, Done([k EXCEPT !.st = s])))))
  BY <1>6, GoodNeeds
<1> QED
  BY <1>1, <1>2, <1>3, <1>7 DEF CopyFunction

LEMMA RollGood == ASSUME NEW k, Sound(k), NEW n \in Int, NEW d \in Int PROVE Good(k, RollFunction(k, n, d))
<1>1. PICK l \in Int : l = n + 2
  OBVIOUS
<1>2. PICK out : out = Done(Rolled(Popped(k, 2), n, d))
  OBVIOUS
<1>3. ASSUME ~(n < 0), Load(k) >= l PROVE Good(k, out)
  <2>1. 2 \in 0..Load(k) /\ n \in 0..(Load(k) - 2)
    BY <1>1, <1>3, LoadIsNat
  <2>2. PICK g : g = Popped(k, 2)
    OBVIOUS
  <2>3. Ok(k, g) /\ Load(g) = Load(k) - 2
    BY <2>1, <2>2, OkPopped
  <2>4. Ok(g, Rolled(g, n, d))
    BY <2>1, <2>3, OkRolled DEF Ok
  <2> QED
    BY <1>2, <2>2, <2>3, <2>4, OkTrans, GoodDone
<1>4. ASSUME ~(n < 0) PROVE Good(k, Needs(k, l, out))
  BY <1>3, <1>4, GoodNeeds
<1>5. Good(k, Unless(k, n < 0, "RangeCheck", Needs(k, l, out)))
  BY <1>4, GoodUnless, PlainErrors
<1> QED
  BY <1>1, <1>2, <1>5, GoodNeeds DEF RollFunction

LEMMA RollsGood ==
    ASSUME NEW k, Sound(k)
    PROVE  Good(k, RolluFunction(k)) /\ Good(k, RolldFunction(k)) /\ Good(k, RotFunction(k))
<1>1. ASSUME Load(k) >= 3, NEW d \in Int PROVE Good(k, Done(Rolled(k, 3, d)))
  BY <1>1, LoadIsNat, OkRolled, GoodDone
<1>2. Good(k, RolluFunction(k))
  BY <1>1, GoodNeeds DEF RolluFunction
<1>3. Good(k, RolldFunction(k))
  BY <1>1, GoodNeeds DEF RolldFunction
<1>4. Good(k, RotFunction(k))
  <2>1. Load(k) \in 0..Load(k)
    BY LoadIsNat
  <2> QED
    BY <2>1, OkRolled, GoodDone DEF RotFunction
<1> QED
  BY <1>2, <1>3, <1>4

LEMMA CountGood == ASSUME NEW k, Sound(k) PROVE Good(k, CountFunction(k))
<1>1. IntTok(Load(k)) \in Toks(k.heap)
  BY LoadIsNat, ScalarsAreTokens
<1> QED
  BY <1>1, OkPushed, GoodDone DEF CountFunction

\* The last mark is one of the slots, and the tokens above it are tokens.
LEMMA AboveMarkParts ==
    ASSUME NEW k, Sound(k)
    PROVE  /\ HasMark(k) => LastMark(k) \in 1..Load(k)
           /\ HasMark(k) => AboveMark(k) \in Seq(Toks(k.heap))
           /\ HasMark(k) => Len(AboveMark(k)) = Load(k) - LastMark(k)
<1> DEFINE I == {i \in 1..Len(k.st) : Tag(k.st[i]) = "mark"}
<1>1. LastMark(k) = IF I # {} THEN Max(I) ELSE 0
  BY DEF LastMark, SelectLastInSeq
<1>2. Load(k) \in Nat /\ Len(k.st) = Load(k) /\ k.st \in Seq(Toks(k.heap))
  BY LoadIsNat DEF Load, Sound
<1>3. I \subseteq 0..Load(k)
  BY <1>2
<1>4. I # {} => Max(I) \in I
  <2> HIDE DEF I
  <2> QED
    BY <1>2, <1>3, GreatestExists
<1>5. HasMark(k) => LastMark(k) \in 1..Load(k)
  BY <1>1, <1>2, <1>4 DEF HasMark
<1>6. ASSUME HasMark(k) PROVE AboveMark(k) \in Seq(Toks(k.heap)) /\ Len(AboveMark(k)) = Load(k) - LastMark(k)
  <2> HIDE DEF I
  <2>1. PICK i, j \in Int : i = LastMark(k) + 1 /\ j = Load(k) /\ i >= 1 /\ j <= Len(k.st) /\ i <= j + 1
    BY <1>2, <1>5, <1>6
  <2>2. SubSeq(k.st, i, j) \in Seq(Toks(k.heap))
        /\ Len(SubSeq(k.st, i, j)) = (IF j >= i THEN 1 + j - i ELSE 0)
    BY <1>2, <2>1, SeqCut
  <2>3. AboveMark(k) = SubSeq(k.st, i, j)
    BY <2>1 DEF AboveMark
  <2>4. (IF j >= i THEN 1 + j - i ELSE 0) = Load(k) - LastMark(k)
    BY <1>2, <1>5, <1>6, <2>1
  <2> QED
    BY <2>2, <2>3, <2>4
<1> QED
  BY <1>5, <1>6

LEMMA CounttomarkGood == ASSUME NEW k, Sound(k) PROVE Good(k, CounttomarkFunction(k))
<1>1. ASSUME HasMark(k) PROVE Good(k, Done(Pushed(k, IntTok(Len(AboveMark(k))))))
  <2>1. Len(AboveMark(k)) \in Int
    BY <1>1, AboveMarkParts, SeqParts
  <2> QED
    BY <2>1, ScalarsAreTokens, OkPushed, GoodDone
<1> QED
  BY <1>1, GoodUnless, PlainErrors DEF CounttomarkFunction

LEMMA ClearGood == ASSUME NEW k, Sound(k) PROVE Good(k, ClearFunction(k))
<1>1. <<>> \in Seq(Toks(k.heap))
  BY SeqUnits
<1> QED
  BY <1>1, GoodStack DEF ClearFunction

LEMMA OperandstackGood == ASSUME NEW k, Sound(k) PROVE Good(k, OperandstackFunction(k))
<1>1. IsBody(k.heap, Kind("array"), k.st)
  BY ArrayBody, KindOf DEF Sound
<1> QED
  BY <1>1, KindOf, OkPushedNew, GoodDone DEF OperandstackFunction

LEMMA RestoreostackGood == ASSUME NEW k, Sound(k) PROVE Good(k, RestoreostackFunction(k))
<1>1. ASSUME Load(k) >= 1, Matches(k, 0, "array") PROVE Good(k, Done([k EXCEPT !.st = Body(k, 0)]))
  <2>1. TagAt(k, 0) = "array"
    BY <1>1 DEF Matches
  <2>2. Body(k, 0) \in Seq(Toks(k.heap))
    BY <1>1, <2>1, LoadIsNat, SequenceOperand, KindOf
  <2> QED
    BY <2>2, GoodStack
<1> QED
  BY <1>1, GoodTyped1 DEF RestoreostackFunction

-----------------------------------------------------------------------------
(* Access states and conversions *)

\* An operator that leaves another token in the top slot.
LEMMA GoodTop ==
    ASSUME NEW k, Sound(k), Load(k) >= 1, NEW t \in Toks(k.heap)
    PROVE  Good(k, Done(SlotSet(k, 0, t)))
BY LoadIsNat, OkSlotSet, GoodDone

LEMMA GoodPush ==
    ASSUME NEW k, Sound(k), NEW t \in Toks(k.heap)
    PROVE  Good(k, Done(Pushed(k, t)))
BY OkPushed, GoodDone

LEMMA GoodTopBool ==
    ASSUME NEW k, Sound(k), Load(k) >= 1, NEW b \in BOOLEAN
    PROVE  Good(k, Done(SlotSet(k, 0, Bool(b))))
<1>1. Bool(b) \in Toks(k.heap)
  BY ScalarsAreTokens, Zenon
<1> QED
  BY <1>1, GoodTop

LEMMA GoodNeeds1 ==
    ASSUME NEW k, Sound(k), NEW out, Load(k) >= 1 => Good(k, out)
    PROVE  Good(k, Needs(k, 1, out))
BY GoodNeeds

LEMMA GoodNeeds2 ==
    ASSUME NEW k, Sound(k), NEW out, Load(k) >= 2 => Good(k, out)
    PROVE  Good(k, Needs(k, 2, out))
BY GoodNeeds

LEMMA RcheckGood == ASSUME NEW k, Sound(k) PROVE Good(k, RcheckFunction(k))
<1>1. (TagAt(k, 0) \in CompositeTags => IsReadable(Payload(k, At(k, 0)))) \in BOOLEAN
  OBVIOUS
<1> QED
  BY <1>1, GoodTopBool, GoodNeeds1, Zenon DEF RcheckFunction

LEMMA WcheckGood == ASSUME NEW k, Sound(k) PROVE Good(k, WcheckFunction(k))
<1>1. (TagAt(k, 0) \in CompositeTags => IsWritable(Payload(k, At(k, 0)))) \in BOOLEAN
  OBVIOUS
<1> QED
  BY <1>1, GoodTopBool, GoodNeeds1, Zenon DEF WcheckFunction

LEMMA XcheckGood == ASSUME NEW k, Sound(k) PROVE Good(k, XcheckFunction(k))
<1>1. (TagAt(k, 0) \in {"procedure", "litprocedure"}) \in BOOLEAN
  OBVIOUS
<1> QED
  BY <1>1, GoodTopBool, GoodNeeds1, Zenon DEF XcheckFunction

LEMMA NarrowGood ==
    ASSUME NEW k, Sound(k), NEW acc \in {Unlimited, ReadOnly, ExecuteOnly, NoAccess}
    PROVE  Good(k, NarrowAccess(k, acc))
<1>1. ASSUME Load(k) >= 1, ~(TagAt(k, 0) \notin CompositeTags)
      PROVE  Good(k, Done(Narrowed(k, DataAt(k, 0), acc)))
  <2>1. DataAt(k, 0) \in Ids /\ k.heap[DataAt(k, 0)].kind # "free"
    BY <1>1, LoadIsNat, OperandParts
  <2> QED
    BY <2>1, OkNarrowed, GoodDone
<1>2. ASSUME Load(k) >= 1
      PROVE  Good(k, Unless(k, TagAt(k, 0) \notin CompositeTags, "ArgumentType",
                            Done(Narrowed(k, DataAt(k, 0), acc))))
  BY <1>1, <1>2, GoodUnless, PlainErrors
<1> QED
  BY <1>2, GoodNeeds DEF NarrowAccess

LEMMA RetaggedGood ==
    ASSUME NEW k, Sound(k), Load(k) >= 1, NEW to,
           \/ TagAt(k, 0) \in ArrayTags /\ to \in ArrayTags
           \/ TagAt(k, 0) \in {"literal", "name"} /\ to \in {"literal", "name"}
    PROVE  Good(k, Done(Retagged(k, to)))
<1>1. CASE TagAt(k, 0) \in ArrayTags /\ to \in ArrayTags
  <2>1. DataAt(k, 0) \in Ids /\ k.heap[DataAt(k, 0)].kind = Kind(to) /\ to \in CompositeTags
    BY <1>1, LoadIsNat, OperandParts, KindOf
  <2>2. <<to, DataAt(k, 0)>> \in Toks(k.heap)
    BY <2>1, RetagIsToken
  <2> QED
    BY <2>2, GoodTop DEF Retagged
<1>2. CASE TagAt(k, 0) \in {"literal", "name"} /\ to \in {"literal", "name"}
  <2>1. DataAt(k, 0) \in Names
    BY <1>2, LoadIsNat, OperandParts
  <2>2. <<to, DataAt(k, 0)>> \in Toks(k.heap)
    BY <1>2, <2>1, ScalarsAreTokens DEF Lit, NameTok
  <2> QED
    BY <2>2, GoodTop DEF Retagged
<1> QED
  BY <1>1, <1>2

LEMMA RecastGood ==
    ASSUME NEW k, Sound(k), NEW from, NEW to,
           \/ from \in ArrayTags /\ to \in ArrayTags
           \/ from \in {"literal", "name"} /\ to \in {"literal", "name"}
    PROVE  Good(k, Recast(k, from, to))
<1>1. from # "any"
  BY DEF ArrayTags
<1>2. ASSUME Load(k) >= 1 /\ Matches(k, 0, from) PROVE Good(k, Done(Retagged(k, to)))
  BY <1>1, <1>2, RetaggedGood DEF Matches
<1> QED
  BY <1>2, GoodTyped1 DEF Recast

LEMMA ConversionsGood ==
    ASSUME NEW k, Sound(k)
    PROVE  /\ Good(k, CvxAFunction(k)) /\ Good(k, CvxLpFunction(k)) /\ Good(k, CvlitPFunction(k))
           /\ Good(k, CvlitNFunction(k)) /\ Good(k, CvnLFunction(k))
<1>1. "array" \in ArrayTags /\ "procedure" \in ArrayTags /\ "litprocedure" \in ArrayTags
  BY KindOf
<1>2. Good(k, CvxAFunction(k))
  BY <1>1, RecastGood DEF CvxAFunction
<1>3. Good(k, CvxLpFunction(k))
  BY <1>1, RecastGood DEF CvxLpFunction
<1>4. Good(k, CvlitPFunction(k))
  BY <1>1, RecastGood DEF CvlitPFunction
<1>5. Good(k, CvlitNFunction(k))
  BY RecastGood DEF CvlitNFunction
<1>6. Good(k, CvnLFunction(k))
  BY RecastGood DEF CvnLFunction
<1> QED
  BY <1>2, <1>3, <1>4, <1>5, <1>6

LEMMA GoodSame == ASSUME NEW k, Sound(k) PROVE Good(k, Done(k)) /\ Good(k, Raise(k, "ArgumentType"))
BY OkSame, GoodDone, GoodRaise, PlainErrors

LEMMA CvxGood == ASSUME NEW k, Sound(k) PROVE Good(k, CvxFunction(k))
<1>1. Good(k, IF TagAt(k, 0) = "array" THEN CvxAFunction(k) ELSE Done(k))
  BY GoodSame, ConversionsGood
<1> QED
  BY <1>1, GoodNeeds1 DEF CvxFunction

LEMMA CvlitGood == ASSUME NEW k, Sound(k) PROVE Good(k, CvlitFunction(k))
<1>1. PICK out : out = (CASE TagAt(k, 0) = "name" -> CvlitNFunction(k)
                          [] TagAt(k, 0) = "procedure" -> CvlitPFunction(k)
                          [] TagAt(k, 0) = "literal" -> Done(k)
                          [] OTHER -> Raise(k, "ArgumentType"))
  OBVIOUS
<1>2. Good(k, out)
  BY <1>1, GoodSame, ConversionsGood
<1> QED
  BY <1>1, <1>2, GoodNeeds1 DEF CvlitFunction

LEMMA CvnGood == ASSUME NEW k, Sound(k) PROVE Good(k, CvnFunction(k))
<1>1. PICK out : out = (CASE TagAt(k, 0) = "literal" -> CvnLFunction(k)
                          [] TagAt(k, 0) = "name" -> Done(k)
                          [] OTHER -> Raise(k, "ArgumentType"))
  OBVIOUS
<1>2. Good(k, out)
  BY <1>1, GoodSame, ConversionsGood
<1> QED
  BY <1>1, <1>2, GoodNeeds1 DEF CvnFunction

\* Garbage has no type; the model stops at it.
LEMMA TypeGood ==
    ASSUME NEW k, Sound(k), Load(k) >= 1 => At(k, 0) # Garbage
    PROVE  Good(k, TypeFunction(k)) /\ Good(k, TypeinfoFunction(k))
<1>1. ASSUME Load(k) >= 1
      PROVE  Good(k, Done(SlotSet(k, 0, Lit(TagAt(k, 0))))) /\ Good(k, Done(Pushed(k, Lit(TagAt(k, 0)))))
  <2>1. TagAt(k, 0) \in Names
    BY <1>1, LoadIsNat, OperandParts, TypeNamesAssumption
  <2>2. Lit(TagAt(k, 0)) \in Toks(k.heap)
    BY <2>1, ScalarsAreTokens
  <2> QED
    BY <1>1, <2>2, GoodTop, GoodPush
<1> QED
  BY <1>1, GoodNeeds1 DEF TypeFunction, TypeinfoFunction

-----------------------------------------------------------------------------
(* Containers: lengths *)

\* The tags that signatures name are types.
LEMMA CompositesAreTypes ==
    /\ CompositeTags \subseteq TypeNames /\ ArrayTags \subseteq CompositeTags
    /\ "integer" \in TypeNames /\ "double" \in TypeNames /\ "bool" \in TypeNames
    /\ "literal" \in TypeNames /\ "array" \in TypeNames /\ "string" \in TypeNames
    /\ "dictionary" \in TypeNames /\ "any" \notin TypeNames
BY DEF CompositeTags, ArrayTags, TypeNames

\* A new payload, or another token, in place of the top operands.
LEMMA GoodNew ==
    ASSUME NEW k, Sound(k), NEW n \in Nat, n <= Load(k), NEW tag \in CompositeTags,
           NEW b, IsBody(k.heap, Kind(tag), b)
    PROVE  Good(k, Done(PushedNew(Popped(k, n), tag, b)))
<1>1. n \in 0..Load(k)
  BY LoadIsNat
<1>2. PICK g : g = Popped(k, n)
  OBVIOUS
<1>3. Ok(k, g) /\ g.heap = k.heap
  BY <1>1, <1>2, OkPopped
<1>4. Ok(g, PushedNew(g, tag, b))
  BY <1>3, OkPushedNew DEF Ok
<1> QED
  BY <1>2, <1>3, <1>4, OkTrans, GoodDone

LEMMA GoodReplaced ==
    ASSUME NEW k, Sound(k), NEW n \in Nat, n <= Load(k), NEW b \in Seq(Toks(k.heap))
    PROVE  Good(k, Replaced(k, n, b))
BY GoodNew, ArrayBody, KindOf DEF Replaced

LEMMA GoodAnother ==
    ASSUME NEW k, Sound(k), NEW n \in Nat, n <= Load(k), NEW t \in Toks(k.heap)
    PROVE  Good(k, Done(Pushed(Popped(k, n), t)))
<1>1. n \in 0..Load(k)
  BY LoadIsNat
<1>2. PICK g : g = Popped(k, n)
  OBVIOUS
<1>3. Ok(k, g) /\ g.heap = k.heap
  BY <1>1, <1>2, OkPopped
<1>4. Ok(g, Pushed(g, t))
  BY <1>3, OkPushed DEF Ok
<1> QED
  BY <1>2, <1>3, <1>4, OkTrans, GoodDone

LEMMA GoodAnotherBool ==
    ASSUME NEW k, Sound(k), NEW n \in Nat, n <= Load(k), NEW b \in BOOLEAN
    PROVE  Good(k, Done(Pushed(Popped(k, n), Bool(b))))
<1>1. Bool(b) \in Toks(k.heap)
  BY ScalarsAreTokens, Zenon
<1> QED
  BY <1>1, GoodAnother

LEMMA GoodFewer ==
    ASSUME NEW k, Sound(k), NEW n \in Nat, n <= Load(k)
    PROVE  Good(k, Done(Popped(k, n)))
BY LoadIsNat, OkPopped, GoodDone

-----------------------------------------------------------------------------
(* Payloads of one's own *)

\* Nobody holds a payload that is not there.
LEMMA ReferredIsLive ==
    ASSUME NEW h, NEW t \in Toks(h), NEW x \in Ids, Refers(t, x)
    PROVE  h[x].kind # "free"
BY TokenData, KindOf DEF Refers

LEMMA ListedIsLive ==
    ASSUME NEW h, NEW s \in Seq(Toks(h)), NEW x \in Ids, Uses(s, x) # {}
    PROVE  h[x].kind # "free"
<1>1. PICK p \in DOMAIN s : Refers(s[p], x)
  BY DEF Uses
<1>2. s[p] \in Toks(h)
  BY <1>1, SeqParts
<1> QED
  BY <1>1, <1>2, ReferredIsLive

LEMMA ContainedIsLive ==
    ASSUME NEW h, NEW o, IsBody(h, o.kind, o.body), NEW x \in Ids, Uses(Contents(o), x) # {}
    PROVE  h[x].kind # "free"
<1>1. CASE o.kind = "array"
  <2>1. o.body \in Seq(Toks(h)) /\ Contents(o) = o.body
    BY <1>1, BodiesAreCells DEF Cells, Contents
  <2> QED
    BY <2>1, ListedIsLive
<1>2. CASE o.kind = "dictionary"
  <2>1. Contents(o) = o.body /\ \A l \in DOMAIN o.body : IsToken(h, o.body[l])
    BY <1>2, BodiesAreCells DEF Contents
  <2>2. PICK l \in DOMAIN o.body : Refers(o.body[l], x)
    BY <2>1 DEF Uses
  <2>3. o.body[l] \in Toks(h)
    BY <2>1 DEF Toks, IsToken
  <2> QED
    BY <2>2, <2>3, ReferredIsLive
<1>3. CASE o.kind \notin {"array", "dictionary"}
  <2>1. Contents(o) \in Seq(Toks(h))
    BY <1>3, SeqUnits DEF Contents
  <2> QED
    BY <2>1, ListedIsLive
<1> QED
  BY <1>1, <1>2, <1>3

LEMMA HeldIsLive ==
    ASSUME NEW k, Sound(k), NEW x \in Ids, Rooted(k, x) \/ Holders(k, x) # {}
    PROVE  k.heap[x].kind # "free"
<1>1. ASSUME NEW y \in Holders(k, x) PROVE k.heap[x].kind # "free"
  <2>1. PICK o : o = k.heap[y] /\ IsBody(k.heap, o.kind, o.body)
    BY PayloadParts DEF Sound, Holders
  <2>2. Uses(Contents(o), x) # {}
    BY <2>1 DEF Holders
  <2> QED
    BY <2>1, <2>2, ContainedIsLive
<1> QED
  BY <1>1, ListedIsLive DEF Rooted, Sound

\* The token on top of g is the only one of a payload that k has not yet.
IsNew(k, g, x) ==
    /\ Load(g) >= 1 /\ x \in Ids /\ k.heap[x].kind = "free"
    /\ g.heap[x].acc = Unlimited /\ g.heap[x].lost = 0
    /\ Uses(g.st, x) = {Load(g)} /\ Uses(g.es, x) = {} /\ Holders(g, x) = {}
Owns(k, g) == IsNew(k, g, DataAt(g, 0))

Makes(k, out) == Good(k, out) /\ (out.err = "none" /\ out.m.room => Owns(k, out.m))

\* Tokens of S and on top of them one of the payload x.
Topped(s, S, x) ==
    \E n \in Nat : /\ DOMAIN s = 1..(n + 1) /\ Len(s) = n + 1
                  /\ (\A p \in 1..n : s[p] \in S) /\ Refers(s[n + 1], x)

\* A token of x on top of what k has no x in.
LEMMA OwnsTop ==
    ASSUME NEW k, Sound(k), NEW x \in Ids, k.heap[x].kind = "free",
           NEW g, Topped(g.st, Toks(k.heap), x), g.es = k.es,
           g.heap[x].acc = Unlimited, g.heap[x].lost = 0,
           \A y \in Ids : Uses(Contents(g.heap[y]), x) = {}
    PROVE  Owns(k, g)
<1>1. PICK n \in Nat : /\ DOMAIN g.st = 1..(n + 1) /\ Len(g.st) = n + 1
                      /\ (\A p \in 1..n : g.st[p] \in Toks(k.heap)) /\ Refers(g.st[n + 1], x)
  BY DEF Topped
<1>2. Load(g) = n + 1 /\ Load(g) >= 1
  BY <1>1 DEF Load
<1>3. DataAt(g, 0) = x
  <2>1. At(g, 0) = g.st[n + 1]
    BY <1>1 DEF At, Pick
  <2> QED
    BY <1>1, <2>1 DEF Refers, DataAt
<1>4. ASSUME NEW p \in 1..n PROVE ~Refers(g.st[p], x)
  BY <1>1, ReferredIsLive
<1>5. Uses(g.st, x) = {n + 1}
  <2>1. ASSUME NEW p \in 1..(n + 1), Refers(g.st[p], x) PROVE p = n + 1
    <3>1. CASE p \in 1..n
      BY <1>4, <2>1, <3>1
    <3> QED
      BY <3>1
  <2>2. n + 1 \in DOMAIN g.st
    BY <1>1
  <2> QED
    BY <1>1, <2>1, <2>2 DEF Uses
<1>6. Uses(g.es, x) = {}
  BY HeldIsLive DEF Rooted
<1>7. Holders(g, x) = {}
  BY DEF Holders
<1>8. IsNew(k, g, x)
  BY <1>2, <1>5, <1>6, <1>7 DEF IsNew
<1> QED
  BY <1>3, <1>8 DEF Owns

\* The token that a stack grows by.
LEMMA OnTopOf ==
    ASSUME NEW S, NEW s \in Seq(S), NEW tag \in CompositeTags, NEW x,
           NEW r, r = Append(s, <<tag, x>>)
    PROVE  Topped(r, S, x)
<1>1. PICK t : t = <<tag, x>>
  OBVIOUS
<1>2. PICK T : T = S \cup {t}
  OBVIOUS
<1>3. PICK n \in Nat : n = Len(s) /\ DOMAIN s = 1..n
  BY SeqParts
<1>4. r = Append(s, t)
  BY <1>1
<1>5. s \in Seq(T) /\ t \in T
  BY <1>2, SeqMono
<1>6. r \in Seq(T) /\ Len(r) = n + 1 /\ r[n + 1] = t /\ \A p \in 1..n : r[p] = s[p]
  BY <1>3, <1>4, <1>5, SeqAppend
<1>7. DOMAIN r = 1..(n + 1)
  BY <1>6, SeqParts
<1>8. \A p \in 1..n : r[p] \in S
  BY <1>3, <1>6, SeqParts
<1>9. Refers(r[n + 1], x)
  BY <1>1, <1>6 DEF Refers, Tag, Data
<1> QED
  BY <1>6, <1>7, <1>8, <1>9 DEF Topped

LEMMA OwnsNew ==
    ASSUME NEW k, Sound(k), NEW g, Sound(g), g.heap = k.heap, g.es = k.es, NEW tag \in CompositeTags,
           NEW b, IsBody(k.heap, Kind(tag), b), PushedNew(g, tag, b).room
    PROVE  Owns(k, PushedNew(g, tag, b))
<1>1. PICK f : f = PushedNew(g, tag, b)
  OBVIOUS
<1>2. FreeIds(g) # {}
  BY OkPushedNew
<1>3. PICK x \in Ids : x = LeastFree(g) /\ g.heap[x].kind = "free"
  BY <1>2, LeastFreeIsFree
<1>4. PICK new : new = Fresh(tag, b)
  OBVIOUS
<1>5. new.kind = Kind(tag) /\ new.body = b /\ new.acc = Unlimited /\ new.lost = 0
  BY <1>4, KindOf DEF Fresh
<1>6. f.st = Append(g.st, <<tag, x>>) /\ f.es = g.es /\ f.heap = [g.heap EXCEPT ![x] = new]
  <2>1. IsBody(g.heap, Kind(tag), b)
    OBVIOUS
  <2>2. f = [g EXCEPT !.heap[x] = new, !.st = Append(@, <<tag, x>>)]
    BY <1>1, <1>2, <1>3, <1>4 DEF PushedNew
  <2> QED
    BY <2>2 DEF Sound, Shape
<1>7. f.heap[x] = new /\ \A y \in Ids : y # x => f.heap[y] = g.heap[y]
  BY <1>6 DEF Sound, WellFormed
<1>8. ASSUME NEW y \in Ids PROVE Uses(Contents(f.heap[y]), x) = {}
  <2>1. CASE y = x
    BY <1>3, <1>5, <1>7, <2>1, ContainedIsLive
  <2>2. CASE y # x
    <3>1. Holders(g, x) = {}
      BY <1>3, HeldIsLive
    <3> QED
      BY <1>7, <2>2, <3>1 DEF Holders
  <2> QED
    BY <2>1, <2>2
<1>9. g.st \in Seq(Toks(k.heap))
  BY DEF Sound
<1>10. k.heap[x].kind = "free" /\ f.es = k.es /\ f.heap[x].acc = Unlimited /\ f.heap[x].lost = 0
  BY <1>3, <1>5, <1>6, <1>7
<1>11. Topped(f.st, Toks(k.heap), x)
  BY <1>6, <1>9, OnTopOf, Zenon
<1>12. Owns(k, f)
  BY <1>8, <1>10, <1>11, OwnsTop
<1> QED
  BY <1>1, <1>12

LEMMA MakesOnTop ==
    ASSUME NEW k, Sound(k), NEW tag \in CompositeTags, NEW b, IsBody(k.heap, Kind(tag), b)
    PROVE  Makes(k, Done(PushedNew(k, tag, b)))
BY OkPushedNew, GoodDone, OwnsNew DEF Makes, Done

LEMMA MakesNew ==
    ASSUME NEW k, Sound(k), NEW n \in Nat, n <= Load(k), NEW tag \in CompositeTags,
           NEW b, IsBody(k.heap, Kind(tag), b)
    PROVE  Makes(k, Done(PushedNew(Popped(k, n), tag, b)))
<1>1. n \in 0..Load(k)
  BY LoadIsNat
<1>2. PICK g : g = Popped(k, n)
  OBVIOUS
<1>3. Sound(g) /\ g.heap = k.heap /\ g.es = k.es
  BY <1>1, <1>2, OkPopped DEF Ok
<1>4. PushedNew(g, tag, b).room => Owns(k, PushedNew(g, tag, b))
  BY <1>3, OwnsNew
<1>5. Good(k, Done(PushedNew(g, tag, b)))
  BY <1>2, GoodNew
<1> QED
  BY <1>2, <1>4, <1>5 DEF Makes, Done

LEMMA MakesReplaced ==
    ASSUME NEW k, Sound(k), NEW n \in Nat, n <= Load(k), NEW b \in Seq(Toks(k.heap))
    PROVE  Makes(k, Replaced(k, n, b))
BY MakesNew, ArrayBody, KindOf DEF Replaced

LEMMA MakesError ==
    ASSUME NEW k, Sound(k), NEW e \in Plain
    PROVE  Makes(k, Raise(k, e))
BY GoodRaise DEF Makes, Raise, Plain, Errors

LEMMA MakesRaise == ASSUME NEW k, Sound(k) PROVE Makes(k, Raise(k, "ArgumentType"))
BY MakesError, PlainErrors

LEMMA MakesUnless ==
    ASSUME NEW k, Sound(k), NEW bad, NEW e \in Plain, NEW out, ~bad => Makes(k, out)
    PROVE  Makes(k, Unless(k, bad, e, out))
<1>1. Makes(k, Raise(k, e))
  BY MakesError
<1> QED
  BY <1>1 DEF Unless

LEMMA MakesReadable ==
    ASSUME NEW k, Sound(k), NEW i, NEW out, Makes(k, out)
    PROVE  Makes(k, Readable(k, i, out))
BY MakesUnless, PlainErrors DEF Readable

LEMMA MakesNeeds ==
    ASSUME NEW k, Sound(k), NEW n, NEW out, Load(k) >= n => Makes(k, out), n \in Int
    PROVE  Makes(k, Needs(k, n, out))
<1>1. Makes(k, Raise(k, "StackUnderflow"))
  BY MakesError, PlainErrors
<1> QED
  BY <1>1, LoadIsNat DEF Needs

LEMMA MakesNeeds2 ==
    ASSUME NEW k, Sound(k), NEW out, Load(k) >= 2 => Makes(k, out)
    PROVE  Makes(k, Needs(k, 2, out))
BY MakesNeeds

LEMMA MakesTyped1 ==
    ASSUME NEW k, Sound(k), NEW a, NEW out,
           Load(k) >= 1 /\ Matches(k, 0, a) => Makes(k, out)
    PROVE  Makes(k, Typed(k, <<a>>, out))
<1>1. Makes(k, Raise(k, "TypeMismatch"))
  BY MakesError, PlainErrors
<1>2. PICK sig : sig = <<a>>
  OBVIOUS
<1>3. Len(sig) = 1 /\ sig[1] = a
  BY <1>2
<1>4. ASSUME Load(k) >= 1
      PROVE  Makes(k, IF \E i \in 1..Len(sig) : sig[i] # "any" /\ TagAt(k, Len(sig) - i) # sig[i]
                     THEN Raise(k, "TypeMismatch") ELSE out)
  <2>1. CASE Matches(k, 0, a)
    BY <1>1, <1>4, <2>1
  <2>2. CASE ~Matches(k, 0, a)
    <3>1. 1 \in 1..Len(sig) /\ sig[1] # "any" /\ TagAt(k, Len(sig) - 1) # sig[1]
      BY <1>3, <2>2 DEF Matches
    <3> QED
      BY <1>1, <3>1
  <2> QED
    BY <2>1, <2>2
<1>5. Makes(k, Typed(k, sig, out))
  BY <1>3, <1>4, MakesNeeds DEF Typed
<1> QED
  BY <1>2, <1>5

LEMMA MakesTyped2 ==
    ASSUME NEW k, Sound(k), NEW a, NEW b, NEW out,
           Load(k) >= 2 /\ Matches(k, 1, a) /\ Matches(k, 0, b) => Makes(k, out)
    PROVE  Makes(k, Typed(k, <<a, b>>, out))
<1>1. Makes(k, Raise(k, "TypeMismatch"))
  BY MakesError, PlainErrors
<1>2. PICK sig : sig = <<a, b>>
  OBVIOUS
<1>3. Len(sig) = 2 /\ sig[1] = a /\ sig[2] = b
  BY <1>2
<1>4. ASSUME Load(k) >= 2
      PROVE  Makes(k, IF \E i \in 1..Len(sig) : sig[i] # "any" /\ TagAt(k, Len(sig) - i) # sig[i]
                     THEN Raise(k, "TypeMismatch") ELSE out)
  <2>1. CASE Matches(k, 1, a) /\ Matches(k, 0, b)
    BY <1>1, <1>4, <2>1
  <2>2. CASE ~Matches(k, 1, a)
    <3>1. 1 \in 1..Len(sig) /\ sig[1] # "any" /\ TagAt(k, Len(sig) - 1) # sig[1]
      BY <1>3, <2>2 DEF Matches
    <3> QED
      BY <1>1, <3>1
  <2>3. CASE ~Matches(k, 0, b)
    <3>1. 2 \in 1..Len(sig) /\ sig[2] # "any" /\ TagAt(k, Len(sig) - 2) # sig[2]
      BY <1>3, <2>3 DEF Matches
    <3> QED
      BY <1>1, <3>1
  <2> QED
    BY <2>1, <2>2, <2>3
<1>5. Makes(k, Typed(k, sig, out))
  BY <1>3, <1>4, MakesNeeds DEF Typed
<1> QED
  BY <1>2, <1>5

LEMMA MakesTyped3 ==
    ASSUME NEW k, Sound(k), NEW a, NEW b, NEW c, NEW out,
           Load(k) >= 3 /\ Matches(k, 2, a) /\ Matches(k, 1, b) /\ Matches(k, 0, c) => Makes(k, out)
    PROVE  Makes(k, Typed(k, <<a, b, c>>, out))
<1>1. Makes(k, Raise(k, "TypeMismatch"))
  BY MakesError, PlainErrors
<1>2. PICK sig : sig = <<a, b, c>>
  OBVIOUS
<1>3. Len(sig) = 3 /\ sig[1] = a /\ sig[2] = b /\ sig[3] = c
  BY <1>2
<1>4. ASSUME Load(k) >= 3
      PROVE  Makes(k, IF \E i \in 1..Len(sig) : sig[i] # "any" /\ TagAt(k, Len(sig) - i) # sig[i]
                     THEN Raise(k, "TypeMismatch") ELSE out)
  <2>1. CASE Matches(k, 2, a) /\ Matches(k, 1, b) /\ Matches(k, 0, c)
    BY <1>1, <1>4, <2>1
  <2>2. CASE ~Matches(k, 2, a)
    <3>1. 1 \in 1..Len(sig) /\ sig[1] # "any" /\ TagAt(k, Len(sig) - 1) # sig[1]
      BY <1>3, <2>2 DEF Matches
    <3> QED
      BY <1>1, <3>1
  <2>3. CASE ~Matches(k, 1, b)
    <3>1. 2 \in 1..Len(sig) /\ sig[2] # "any" /\ TagAt(k, Len(sig) - 2) # sig[2]
      BY <1>3, <2>3 DEF Matches
    <3> QED
      BY <1>1, <3>1
  <2>4. CASE ~Matches(k, 0, c)
    <3>1. 3 \in 1..Len(sig) /\ sig[3] # "any" /\ TagAt(k, Len(sig) - 3) # sig[3]
      BY <1>3, <2>4 DEF Matches
    <3> QED
      BY <1>1, <3>1
  <2> QED
    BY <2>1, <2>2, <2>3, <2>4
<1>5. Makes(k, Typed(k, sig, out))
  BY <1>3, <1>4, MakesNeeds DEF Typed
<1> QED
  BY <1>2, <1>5

LEMMA MakesTyped4 ==
    ASSUME NEW k, Sound(k), NEW a, NEW b, NEW c, NEW d, NEW out,
           Load(k) >= 4 /\ Matches(k, 3, a) /\ Matches(k, 2, b) /\ Matches(k, 1, c) /\ Matches(k, 0, d) => Makes(k, out)
    PROVE  Makes(k, Typed(k, <<a, b, c, d>>, out))
<1>1. Makes(k, Raise(k, "TypeMismatch"))
  BY MakesError, PlainErrors
<1>2. PICK sig : sig = <<a, b, c, d>>
  OBVIOUS
<1>3. Len(sig) = 4 /\ sig[1] = a /\ sig[2] = b /\ sig[3] = c /\ sig[4] = d
  BY <1>2
<1>4. ASSUME Load(k) >= 4
      PROVE  Makes(k, IF \E i \in 1..Len(sig) : sig[i] # "any" /\ TagAt(k, Len(sig) - i) # sig[i]
                     THEN Raise(k, "TypeMismatch") ELSE out)
  <2>1. CASE Matches(k, 3, a) /\ Matches(k, 2, b) /\ Matches(k, 1, c) /\ Matches(k, 0, d)
    BY <1>1, <1>4, <2>1
  <2>2. CASE ~Matches(k, 3, a)
    <3>1. 1 \in 1..Len(sig) /\ sig[1] # "any" /\ TagAt(k, Len(sig) - 1) # sig[1]
      BY <1>3, <2>2 DEF Matches
    <3> QED
      BY <1>1, <3>1
  <2>3. CASE ~Matches(k, 2, b)
    <3>1. 2 \in 1..Len(sig) /\ sig[2] # "any" /\ TagAt(k, Len(sig) - 2) # sig[2]
      BY <1>3, <2>3 DEF Matches
    <3> QED
      BY <1>1, <3>1
  <2>4. CASE ~Matches(k, 1, c)
    <3>1. 3 \in 1..Len(sig) /\ sig[3] # "any" /\ TagAt(k, Len(sig) - 3) # sig[3]
      BY <1>3, <2>4 DEF Matches
    <3> QED
      BY <1>1, <3>1
  <2>5. CASE ~Matches(k, 0, d)
    <3>1. 4 \in 1..Len(sig) /\ sig[4] # "any" /\ TagAt(k, Len(sig) - 4) # sig[4]
      BY <1>3, <2>5 DEF Matches
    <3> QED
      BY <1>1, <3>1
  <2> QED
    BY <2>1, <2>2, <2>3, <2>4, <2>5
<1>5. Makes(k, Typed(k, sig, out))
  BY <1>3, <1>4, MakesNeeds DEF Typed
<1> QED
  BY <1>2, <1>5

\* An operator that looks at its operands' types asks for each by its name.
LEMMA OperandstackMakes == ASSUME NEW k, Sound(k) PROVE Makes(k, OperandstackFunction(k))
<1>1. IsBody(k.heap, Kind("array"), k.st)
  BY ArrayBody, KindOf DEF Sound
<1> QED
  BY <1>1, KindOf, MakesOnTop DEF OperandstackFunction

\* A payload that may be written takes another body and the operands go.
LEMMA GoodWritten ==
    ASSUME NEW k, Sound(k), NEW n \in Nat, n <= Load(k),
           NEW x \in Ids, k.heap[x].acc = Unlimited, k.heap[x].kind # "free",
           NEW b, IsBody(k.heap, k.heap[x].kind, b)
    PROVE  Good(k, Done(Popped(Written(k, x, b), n)))
<1>2. PICK g : g = Written(k, x, b)
  OBVIOUS
<1>3. Ok(k, g) /\ g.st = k.st
  BY <1>2, OkWritten
<1>4. n \in 0..Load(g) /\ Sound(g)
  BY <1>3, LoadIsNat DEF Load, Ok
<1>5. Ok(g, Popped(g, n))
  BY <1>4, OkPopped
<1> QED
  BY <1>2, <1>3, <1>5, OkTrans, GoodDone

LEMMA LengthLeafGood ==
    ASSUME NEW k, Sound(k), NEW tag \in CompositeTags
    PROVE  Good(k, LengthLeaf(k, tag))
<1>1. ASSUME Load(k) >= 1 /\ Matches(k, 0, tag) PROVE Good(k, Done(SlotSet(k, 0, IntTok(Size(k, 0)))))
  <2>1. TagAt(k, 0) = tag
    BY <1>1, CompositesAreTypes DEF Matches
  <2>2. Size(k, 0) \in Int
    BY <1>1, <2>1, LoadIsNat, SizeIsNat
  <2> QED
    BY <1>1, <2>2, ScalarsAreTokens, GoodTop
<1> QED
  BY <1>1, GoodTyped1 DEF LengthLeaf

LEMMA SizeGood ==
    ASSUME NEW k, Sound(k), NEW tag \in CompositeTags
    PROVE  Good(k, Typed(k, <<tag>>, Done(Pushed(k, IntTok(Size(k, 0))))))
<1>1. ASSUME Load(k) >= 1 /\ Matches(k, 0, tag) PROVE Good(k, Done(Pushed(k, IntTok(Size(k, 0)))))
  <2>1. TagAt(k, 0) = tag
    BY <1>1, CompositesAreTypes DEF Matches
  <2>2. Size(k, 0) \in Int
    BY <1>1, <2>1, LoadIsNat, SizeIsNat
  <2> QED
    BY <2>2, ScalarsAreTokens, GoodPush
<1> QED
  BY <1>1, GoodTyped1

LEMMA GoodPushBool ==
    ASSUME NEW k, Sound(k), NEW b \in BOOLEAN
    PROVE  Good(k, Done(Pushed(k, Bool(b))))
<1>1. Bool(b) \in Toks(k.heap)
  BY ScalarsAreTokens, Zenon
<1> QED
  BY <1>1, GoodPush

LEMMA EmptyLeafGood ==
    ASSUME NEW k, Sound(k), NEW tag
    PROVE  Good(k, EmptyLeaf(k, tag))
<1>1. (Size(k, 0) = 0) \in BOOLEAN
  OBVIOUS
<1>2. Good(k, Done(Pushed(k, Bool(Size(k, 0) = 0))))
  BY <1>1, GoodPushBool, Zenon
<1> QED
  BY <1>2, GoodTyped1 DEF EmptyLeaf

LEMMA ReserveLeafGood ==
    ASSUME NEW k, Sound(k), NEW tag
    PROVE  Good(k, ReserveLeaf(k, tag))
<1> DEFINE out == Unless(k, DataAt(k, 0) < 0, "PositiveIntegerExpected", Done(Popped(k, 1)))
<1>1. ASSUME Load(k) >= 2 PROVE Good(k, Writable(k, 1, out))
  <2>1. Good(k, Done(Popped(k, 1)))
    BY <1>1, LoadIsNat, GoodFewer
  <2>2. Good(k, out)
    BY <2>1, GoodUnless, PlainErrors
  <2> HIDE DEF out
  <2> QED
    BY <2>2, GoodWritable
<1> HIDE DEF out
<1>2. Good(k, Typed(k, <<tag, "integer">>, Writable(k, 1, out)))
  BY <1>1, GoodTyped2
<1> QED
  BY <1>2 DEF ReserveLeaf, out

LEMMA LengthGood ==
    ASSUME NEW k, Sound(k)
    PROVE  Good(k, LengthFunction(k))
<1>1. PICK out : out = (CASE TagAt(k, 0) \in ArrayTags -> LengthArrayLike(k, TagAt(k, 0))
                          [] TagAt(k, 0) = "string" -> LengthString(k)
                          [] TagAt(k, 0) = "dictionary" -> LengthDict(k)
                          [] OTHER -> Raise(k, "ArgumentType"))
  OBVIOUS
<1>2. Good(k, LengthString(k)) /\ Good(k, LengthDict(k))
      /\ (TagAt(k, 0) \in ArrayTags => Good(k, LengthArrayLike(k, TagAt(k, 0))))
  BY LengthLeafGood, KindOf DEF LengthString, LengthDict, LengthArrayLike
<1>3. Good(k, out)
  BY <1>1, <1>2, GoodSame, KindOf
<1> QED
  BY <1>1, <1>3, GoodNeeds1 DEF LengthFunction

LEMMA EmptyGood == ASSUME NEW k, Sound(k) PROVE Good(k, EmptyFunction(k))
<1>1. PICK out : out = (CASE TagAt(k, 0) = "array" -> EmptyArrayLike(k)
                          [] TagAt(k, 0) = "dictionary" -> EmptyDict(k)
                          [] TagAt(k, 0) = "string" -> EmptyString(k)
                          [] OTHER -> Raise(k, "ArgumentType"))
  OBVIOUS
<1>2. Good(k, out)
  BY <1>1, EmptyLeafGood, GoodSame DEF EmptyArrayLike, EmptyDict, EmptyString
<1> QED
  BY <1>1, <1>2, GoodNeeds1 DEF EmptyFunction

LEMMA SizesGood == ASSUME NEW k, Sound(k) PROVE Good(k, SizeFunction(k)) /\ Good(k, ReserveFunction(k))
<1>1. PICK out : out = (CASE TagAt(k, 0) = "array" -> SizeArrayLike(k)
                          [] TagAt(k, 0) = "string" -> SizeString(k)
                          [] OTHER -> Raise(k, "ArgumentType"))
  OBVIOUS
<1>2. Good(k, SizeArrayLike(k)) /\ Good(k, SizeString(k))
  BY SizeGood, KindOf DEF SizeArrayLike, SizeString
<1>3. Good(k, out)
  BY <1>1, <1>2, GoodSame
<1>4. PICK res : res = (CASE TagAt(k, 1) = "array" -> ReserveArrayLike(k)
                          [] TagAt(k, 1) = "string" -> ReserveString(k)
                          [] OTHER -> Raise(k, "ArgumentType"))
  OBVIOUS
<1>5. Good(k, res)
  BY <1>4, ReserveLeafGood, GoodSame DEF ReserveArrayLike, ReserveString
<1>6. Good(k, SizeFunction(k))
  BY <1>1, <1>3, GoodNeeds1 DEF SizeFunction
<1>7. Good(k, ReserveFunction(k))
  BY <1>4, <1>5, GoodNeeds2 DEF ReserveFunction
<1> QED
  BY <1>6, <1>7

-----------------------------------------------------------------------------
(* Containers: get and put *)

LEMMA SeqExcept ==
    ASSUME NEW S, NEW s \in Seq(S), NEW q \in 1..Len(s), NEW v \in S
    PROVE  [s EXCEPT ![q] = v] \in Seq(S)
<1>1. PICK n \in Nat : n = Len(s) /\ DOMAIN s = 1..n /\ \A i \in 1..n : s[i] \in S
  BY SeqParts
<1>2. PICK f : f = [s EXCEPT ![q] = v]
  OBVIOUS
<1>3. f = [i \in 1..n |-> f[i]] /\ \A i \in 1..n : f[i] \in S
  BY <1>1, <1>2
<1>4. f \in Seq(S)
  BY <1>1, <1>3, SeqBuilt
<1> QED
  BY <1>2, <1>4

\* An element by its index, of an array or of a string.
LEMMA ElementExists ==
    ASSUME NEW k, Sound(k), NEW i \in Int, 0 <= i, i < Load(k),
           TagAt(k, i) \in ArrayTags \cup {"string"}, NEW n \in Int,
           NEW r, r = ResolveIndex(n, Size(k, i)), ~(r < 0)
    PROVE  Body(k, i)[r + 1] \in Cells(k.heap, Kind(TagAt(k, i))) /\ r + 1 \in 1..Len(Body(k, i))
<1>1. PICK size \in Nat : size = Size(k, i) /\ size = Len(Body(k, i))
  BY SequenceOperand
<1>2. r + 1 \in 1..size
  BY <1>1, ResolvedIndex
<1> QED
  BY <1>1, <1>2, SequenceOperand

LEMMA GetElementGood ==
    ASSUME NEW k, Sound(k), Load(k) >= 2, TagAt(k, 1) \in ArrayTags, TagAt(k, 0) = "integer",
           NEW r, r = ResolveIndex(DataAt(k, 0), Size(k, 1))
    PROVE  Good(k, Unless(k, r < 0, "RangeCheck", Done(Pushed(Popped(k, 2), Body(k, 1)[r + 1]))))
<1>1. ASSUME ~(r < 0) PROVE Good(k, Done(Pushed(Popped(k, 2), Body(k, 1)[r + 1])))
  <2>1. DataAt(k, 0) \in Int
    BY LoadIsNat, OperandParts
  <2>2. Body(k, 1)[r + 1] \in Cells(k.heap, Kind(TagAt(k, 1)))
    BY <1>1, <2>1, LoadIsNat, ElementExists
  <2>3. PICK t : t = Body(k, 1)[r + 1]
    OBVIOUS
  <2>4. t \in Toks(k.heap)
    BY <2>2, <2>3, KindOf DEF Cells
  <2> QED
    BY <2>3, <2>4, LoadIsNat, GoodAnother
<1> QED
  BY <1>1, GoodUnless, PlainErrors

LEMMA GetCharGood ==
    ASSUME NEW k, Sound(k), Load(k) >= 2, TagAt(k, 1) = "string", TagAt(k, 0) = "integer",
           NEW r, r = ResolveIndex(DataAt(k, 0), Size(k, 1))
    PROVE  Good(k, Unless(k, r < 0, "RangeCheck", Done(Pushed(Popped(k, 2), IntTok(Body(k, 1)[r + 1])))))
<1>1. ASSUME ~(r < 0) PROVE Good(k, Done(Pushed(Popped(k, 2), IntTok(Body(k, 1)[r + 1]))))
  <2>1. DataAt(k, 0) \in Int
    BY LoadIsNat, OperandParts
  <2>2. Body(k, 1)[r + 1] \in Cells(k.heap, Kind(TagAt(k, 1)))
    BY <1>1, <2>1, LoadIsNat, ElementExists
  <2>3. PICK c : c = Body(k, 1)[r + 1]
    OBVIOUS
  <2>4. c \in Int
    <3>1. c \in Characters
      BY <2>2, <2>3, KindOf DEF Cells
    <3>2. CharSize \in Int
      BY CharSizeAssumption
    <3> QED
      BY <3>1, <3>2 DEF Characters
  <2>5. IntTok(c) \in Toks(k.heap)
    BY <2>4, ScalarsAreTokens
  <2> QED
    BY <2>3, <2>5, LoadIsNat, GoodAnother
<1> QED
  BY <1>1, GoodUnless, PlainErrors

LEMMA GetArrayLikeGood ==
    ASSUME NEW k, Sound(k), NEW tag \in ArrayTags
    PROVE  Good(k, GetArrayLike(k, tag))
<1>1. PICK r : r = ResolveIndex(DataAt(k, 0), Size(k, 1))
  OBVIOUS
<1>2. PICK out : out = Unless(k, r < 0, "RangeCheck", Done(Pushed(Popped(k, 2), Body(k, 1)[r + 1])))
  OBVIOUS
<1>3. ASSUME Load(k) >= 2 /\ Matches(k, 1, tag) /\ Matches(k, 0, "integer")
      PROVE  Good(k, Readable(k, 1, out))
  <2>1. TagAt(k, 1) = tag /\ TagAt(k, 0) = "integer"
    BY <1>3, CompositesAreTypes, MatchesType
  <2> QED
    BY <1>1, <1>2, <1>3, <2>1, GetElementGood, GoodReadable
<1>4. Good(k, Typed(k, <<tag, "integer">>, Readable(k, 1, out)))
  BY <1>3, GoodTyped2
<1> QED
  BY <1>1, <1>2, <1>4 DEF GetArrayLike

LEMMA GetStringGood == ASSUME NEW k, Sound(k) PROVE Good(k, GetString(k))
<1>1. PICK r : r = ResolveIndex(DataAt(k, 0), Size(k, 1))
  OBVIOUS
<1>2. PICK out : out = Unless(k, r < 0, "RangeCheck", Done(Pushed(Popped(k, 2), IntTok(Body(k, 1)[r + 1]))))
  OBVIOUS
<1>3. ASSUME Load(k) >= 2 /\ Matches(k, 1, "string") /\ Matches(k, 0, "integer")
      PROVE  Good(k, Readable(k, 1, out))
  <2>1. TagAt(k, 1) = "string" /\ TagAt(k, 0) = "integer"
    BY <1>3, CompositesAreTypes, MatchesType
  <2> QED
    BY <1>1, <1>2, <1>3, <2>1, GetCharGood, GoodReadable
<1>4. Good(k, Typed(k, <<"string", "integer">>, Readable(k, 1, out)))
  BY <1>3, GoodTyped2
<1> QED
  BY <1>1, <1>2, <1>4 DEF GetString

\* Elements by an array of indices that are all in range.
LEMMA ElementsExist ==
    ASSUME NEW S, NEW h, NEW arr \in Seq(S), NEW idxs \in Seq(Toks(h)),
           \A i \in DOMAIN idxs :
               Tag(idxs[i]) = "integer" /\ ~(ResolveIndex(Data(idxs[i]), Len(arr)) < 0)
    PROVE  [i \in DOMAIN idxs |-> arr[ResolveIndex(Data(idxs[i]), Len(arr)) + 1]] \in Seq(S)
<1>1. PICK n \in Nat : n = Len(idxs) /\ DOMAIN idxs = 1..n /\ \A i \in 1..n : idxs[i] \in Toks(h)
  BY SeqParts
<1>2. PICK l \in Nat : l = Len(arr) /\ \A i \in 1..l : arr[i] \in S
  BY SeqParts
<1>3. PICK f : f = [i \in DOMAIN idxs |-> arr[ResolveIndex(Data(idxs[i]), Len(arr)) + 1]]
  OBVIOUS
<1>4. \A i \in 1..n : Data(idxs[i]) \in Int
  BY <1>1, TokenData
<1>5. \A i \in 1..n : ResolveIndex(Data(idxs[i]), l) + 1 \in 1..l
  BY <1>1, <1>2, <1>4, ResolvedIndex
<1>6. \A i \in 1..n : f[i] \in S
  BY <1>1, <1>2, <1>3, <1>5
<1>7. f = [i \in 1..n |-> f[i]]
  BY <1>1, <1>3
<1>8. f \in Seq(S)
  BY <1>6, <1>7, SeqBuilt
<1> QED
  BY <1>3, <1>8

LEMMA GetArrayArrayGood == ASSUME NEW k, Sound(k) PROVE Good(k, GetArrayArray(k))
<1>1. PICK arr : arr = Body(k, 1)
  OBVIOUS
<1>2. PICK idxs : idxs = Body(k, 0)
  OBVIOUS
<1> DEFINE at(i) == ResolveIndex(Data(idxs[i]), Len(arr))
           wrong == {i \in DOMAIN idxs : Tag(idxs[i]) # "integer" \/ at(i) < 0}
<1>3. PICK bad : bad = (LET i == CHOOSE i \in wrong : \A j \in wrong : i <= j
                        IN  Raise(k, IF Tag(idxs[i]) # "integer" THEN "ArgumentType" ELSE "RangeCheck"))
  OBVIOUS
<1>4. Good(k, bad)
  BY <1>3, GoodRaise, PlainErrors
<1>5. PICK out : out = (IF wrong = {} THEN Done(PushedNew(Popped(k, 2), "array", [i \in DOMAIN idxs |-> arr[at(i) + 1]]))
                        ELSE bad)
  OBVIOUS
<1>6. ASSUME Load(k) >= 2 /\ Matches(k, 1, "array") /\ Matches(k, 0, "array")
      PROVE  Good(k, Readable(k, 1, Readable(k, 0, out)))
  <2>1. TagAt(k, 1) = "array" /\ TagAt(k, 0) = "array"
    BY <1>6, CompositesAreTypes, MatchesType
  <2>2. arr \in Seq(Toks(k.heap)) /\ idxs \in Seq(Toks(k.heap))
    BY <1>1, <1>2, <1>6, <2>1, LoadIsNat, SequenceOperand, KindOf
  <2>3. ASSUME wrong = {}
        PROVE  Good(k, Done(PushedNew(Popped(k, 2), "array", [i \in DOMAIN idxs |-> arr[at(i) + 1]])))
    <3>1. \A i \in DOMAIN idxs : Tag(idxs[i]) = "integer" /\ ~(at(i) < 0)
      BY <2>3
    <3>2. PICK b : b = [i \in DOMAIN idxs |-> arr[at(i) + 1]]
      OBVIOUS
    <3>3. b \in Seq(Toks(k.heap))
      BY <2>2, <3>1, <3>2, ElementsExist
    <3>4. Good(k, Done(PushedNew(Popped(k, 2), "array", b)))
      BY <1>6, <3>3, LoadIsNat, GoodNew, ArrayBody, KindOf
    <3> QED
      BY <3>2, <3>4
  <2>4. Good(k, out)
    BY <1>4, <1>5, <2>3
  <2> QED
    BY <2>4, GoodReadable
<1>7. Good(k, Typed(k, <<"array", "array">>, Readable(k, 1, Readable(k, 0, out))))
  BY <1>6, GoodTyped2
<1> QED
  BY <1>1, <1>2, <1>3, <1>5, <1>7 DEF GetArrayArray

LEMMA GetDictGood == ASSUME NEW k, Sound(k) PROVE Good(k, GetDict(k))
<1>1. PICK t : t = Body(k, 1)[DataAt(k, 0)]
  OBVIOUS
<1>2. PICK out : out = Unless(k, DataAt(k, 0) \notin DOMAIN Body(k, 1), "UndefinedName",
                              Done(Pushed(Popped(k, 2), t)))
  OBVIOUS
<1>3. ASSUME Load(k) >= 2 /\ Matches(k, 1, "dictionary") /\ Matches(k, 0, "literal")
      PROVE  Good(k, Readable(k, 1, out))
  <2>1. TagAt(k, 1) = "dictionary"
    BY <1>3, CompositesAreTypes, MatchesType
  <2>2. IsBody(k.heap, "dictionary", Body(k, 1))
    BY <1>3, <2>1, LoadIsNat, OperandParts, KindOf
  <2>3. ASSUME ~(DataAt(k, 0) \notin DOMAIN Body(k, 1)) PROVE Good(k, Done(Pushed(Popped(k, 2), t)))
    <3>1. IsToken(k.heap, t)
      BY <1>1, <2>2, <2>3, BodiesAreCells
    <3>2. t \in Toks(k.heap)
      BY <3>1 DEF Toks, IsToken
    <3> QED
      BY <1>3, <3>2, LoadIsNat, GoodAnother
  <2>4. Good(k, out)
    BY <1>2, <2>3, GoodUnless, PlainErrors
  <2> QED
    BY <2>4, GoodReadable
<1>4. Good(k, Typed(k, <<"dictionary", "literal">>, Readable(k, 1, out)))
  BY <1>3, GoodTyped2
<1> QED
  BY <1>1, <1>2, <1>4 DEF GetDict

LEMMA GetGood == ASSUME NEW k, Sound(k) PROVE Good(k, GetFunction(k))
<1>1. PICK out : out = (CASE TagAt(k, 1) \in ArrayTags /\ TagAt(k, 0) = "integer"
                               -> GetArrayLike(k, TagAt(k, 1))
                          [] TagAt(k, 1) = "array" /\ TagAt(k, 0) = "array" -> GetArrayArray(k)
                          [] TagAt(k, 1) = "string" /\ TagAt(k, 0) = "integer" -> GetString(k)
                          [] TagAt(k, 1) = "dictionary" /\ TagAt(k, 0) = "literal" -> GetDict(k)
                          [] OTHER -> Raise(k, "ArgumentType"))
  OBVIOUS
<1>2. TagAt(k, 1) \in ArrayTags => Good(k, GetArrayLike(k, TagAt(k, 1)))
  BY GetArrayLikeGood
<1>3. Good(k, out)
  BY <1>1, <1>2, GetArrayArrayGood, GetStringGood, GetDictGood, GoodSame
<1> QED
  BY <1>1, <1>3, GoodNeeds2 DEF GetFunction

\* One element of an array or a string that may be written takes another value.
LEMMA PutElementGood ==
    ASSUME NEW k, Sound(k), Load(k) >= 3, TagAt(k, 2) \in ArrayTags \cup {"string"},
           TagAt(k, 1) = "integer", NEW v \in Cells(k.heap, Kind(TagAt(k, 2)))
    PROVE  Good(k, PutElement(k, v))
<1>1. PICK r : r = ResolveIndex(DataAt(k, 1), Size(k, 2))
  OBVIOUS
<1>2. PICK x : x = DataAt(k, 2)
  OBVIOUS
<1>3. PICK b : b = [Body(k, 2) EXCEPT ![r + 1] = v]
  OBVIOUS
<1>4. PICK out : out = Unless(k, r < 0, "RangeCheck", Done(Popped(Written(k, x, b), 2)))
  OBVIOUS
<1>5. x \in Ids /\ k.heap[x].kind = Kind(TagAt(k, 2)) /\ k.heap[x].kind # "free"
      /\ Payload(k, At(k, 2)) = k.heap[x] /\ DataAt(k, 1) \in Int /\ TagAt(k, 2) \in CompositeTags
  BY <1>2, LoadIsNat, OperandParts, KindOf
<1>6. ASSUME k.heap[x].acc = Unlimited PROVE Good(k, out)
  <2>1. ASSUME ~(r < 0) PROVE Good(k, Done(Popped(Written(k, x, b), 2)))
    <3>1. r + 1 \in 1..Len(Body(k, 2)) /\ Body(k, 2) \in Seq(Cells(k.heap, Kind(TagAt(k, 2))))
      BY <1>1, <1>5, <2>1, LoadIsNat, ElementExists, SequenceOperand
    <3>2. b \in Seq(Cells(k.heap, Kind(TagAt(k, 2))))
      BY <1>3, <3>1, SeqExcept
    <3>3. IsBody(k.heap, k.heap[x].kind, b)
      BY <1>5, <3>2, CellsBody
    <3> QED
      BY <1>5, <1>6, <3>3, LoadIsNat, GoodWritten
  <2> QED
    BY <1>4, <2>1, GoodUnless, PlainErrors
<1>7. Good(k, Writable(k, 2, out))
  BY <1>5, <1>6, GoodWritable
<1> QED
  BY <1>1, <1>2, <1>3, <1>4, <1>7 DEF PutElement

\* Where a walk down a path of indices may have come to.
Places(h) ==
    [tok : Toks(h), x : Ids \cup {0}, k : Int, err : {"none"} \cup Plain]
Reached(h, w) ==
    w.err = "none" /\ w.x # 0 =>
        /\ h[w.x].kind = "array" /\ w.k + 1 \in 1..Len(h[w.x].body)
Walks(h) == {w \in Places(h) : Reached(h, w)}

LEMMA WalkFails ==
    ASSUME NEW h, NEW w \in Walks(h), NEW e \in Plain
    PROVE  [w EXCEPT !.err = e] \in Walks(h)
<1>1. PICK u : u = [w EXCEPT !.err = e]
  OBVIOUS
<1>2. w = [tok |-> w.tok, x |-> w.x, k |-> w.k, err |-> w.err]
      /\ w.tok \in Toks(h) /\ w.x \in Ids \cup {0} /\ w.k \in Int
  BY DEF Walks, Places
<1>3. u = [tok |-> w.tok, x |-> w.x, k |-> w.k, err |-> e]
  BY <1>1, <1>2
<1>4. e # "none"
  BY DEF Plain, Errors
<1>5. u \in Places(h) /\ u.err # "none"
  BY <1>2, <1>3, <1>4 DEF Places
<1> QED
  BY <1>1, <1>5 DEF Walks, Reached

LEMMA PathStepWalks ==
    ASSUME NEW k, Sound(k), NEW w \in Walks(k.heap), NEW t \in Toks(k.heap)
    PROVE  /\ PathStep(k, w, t) \in Walks(k.heap)
           /\ PathStep(k, w, t).err = "none" => PathStep(k, w, t).x # 0
<1>1. PICK x : x = Data(w.tok)
  OBVIOUS
<1>2. PICK r : r = ResolveIndex(Data(t), Len(k.heap[x].body))
  OBVIOUS
<1>3. PICK next : next = [tok |-> k.heap[x].body[r + 1], x |-> x, k |-> r, err |-> "none"]
  OBVIOUS
<1>4. PICK out : out = PathStep(k, w, t)
  OBVIOUS
<1>5. out = IF w.err # "none" THEN w
            ELSE IF Tag(w.tok) # "array" \/ Tag(t) # "integer" THEN [w EXCEPT !.err = "ArgumentType"]
            ELSE IF ~IsReadable(k.heap[x]) THEN [w EXCEPT !.err = "InvalidAccess"]
            ELSE IF r < 0 THEN [w EXCEPT !.err = "RangeCheck"]
            ELSE next
  BY <1>1, <1>2, <1>3, <1>4 DEF PathStep
<1>6. PICK f1 : f1 = [w EXCEPT !.err = "ArgumentType"]
  OBVIOUS
<1>7. PICK f2 : f2 = [w EXCEPT !.err = "InvalidAccess"]
  OBVIOUS
<1>8. PICK f3 : f3 = [w EXCEPT !.err = "RangeCheck"]
  OBVIOUS
<1>9. f1 \in Walks(k.heap) /\ f2 \in Walks(k.heap) /\ f3 \in Walks(k.heap)
  BY <1>6, <1>7, <1>8, WalkFails, PlainErrors
<1>10. w.tok \in Toks(k.heap) /\ w = [tok |-> w.tok, x |-> w.x, k |-> w.k, err |-> w.err]
  BY DEF Walks, Places
<1>11. f1.err = "ArgumentType" /\ f2.err = "InvalidAccess" /\ f3.err = "RangeCheck"
  BY <1>6, <1>7, <1>8, <1>10
<1>12. ASSUME Tag(w.tok) = "array", Tag(t) = "integer", ~(r < 0)
       PROVE  next \in Walks(k.heap) /\ next.x # 0
  <2>1. x \in Ids /\ k.heap[x].kind = "array" /\ Data(t) \in Int
    BY <1>1, <1>10, <1>12, TokenData, KindOf
  <2>2. IsBody(k.heap, "array", k.heap[x].body)
    BY <2>1, PayloadParts DEF Sound
  <2>3. PICK b : b = k.heap[x].body
    OBVIOUS
  <2>4. b \in Seq(Toks(k.heap))
    BY <2>2, <2>3, BodiesAreCells DEF Cells
  <2>5. PICK n \in Nat : n = Len(b) /\ \A i \in 1..n : b[i] \in Toks(k.heap)
    BY <2>4, SeqParts
  <2>6. r \in Int /\ r + 1 \in 1..n
    BY <1>2, <1>12, <2>1, <2>3, <2>5, ResolvedIndex
  <2>7. b[r + 1] \in Toks(k.heap)
    BY <2>5, <2>6
  <2>8. next \in Places(k.heap)
    BY <1>3, <2>1, <2>3, <2>6, <2>7 DEF Places
  <2>9. Reached(k.heap, next)
    BY <1>3, <2>1, <2>3, <2>5, <2>6 DEF Reached
  <2>10. x # 0
    BY <2>1 DEF Ids
  <2> QED
    BY <1>3, <2>8, <2>9, <2>10 DEF Walks
<1>13. \/ out = w /\ w.err # "none"
       \/ out \in {f1, f2, f3}
       \/ out = next /\ Tag(w.tok) = "array" /\ Tag(t) = "integer" /\ ~(r < 0)
  BY <1>5, <1>6, <1>7, <1>8
<1>14. out \in Walks(k.heap) /\ (out.err = "none" => out.x # 0)
  BY <1>9, <1>11, <1>12, <1>13
<1> QED
  BY <1>4, <1>14

LEMMA PathWalkWalks ==
    ASSUME NEW k, Sound(k), Load(k) >= 3, NEW path \in Seq(Toks(k.heap))
    PROVE  /\ PathWalk(k, path) \in Walks(k.heap)
           /\ Len(path) # 0 /\ PathWalk(k, path).err = "none" => PathWalk(k, path).x # 0
<1>1. PICK N \in Nat : N = Len(path) /\ \A i \in 1..N : path[i] \in Toks(k.heap)
  BY SeqParts
<1>2. PICK a : a = [tok |-> At(k, 2), x |-> 0, k |-> 0, err |-> "none"]
  OBVIOUS
<1>3. PICK D : D = Walks(k.heap)
  OBVIOUS
<1>4. a \in D
  <2>1. At(k, 2) \in Toks(k.heap)
    BY Operands
  <2>2. a \in Places(k.heap)
    BY <1>2, <2>1 DEF Places
  <2> QED
    BY <1>2, <1>3, <2>2 DEF Walks, Reached
<1>5. \A w \in D, n \in 1..N :
          /\ PathStep(k, w, path[n]) \in D
          /\ PathStep(k, w, path[n]).err = "none" => PathStep(k, w, path[n]).x # 0
  BY <1>1, <1>3, PathStepWalks
<1>6. PICK S : S = [p \in Nat \X D |-> IF p[1] \in 1..N THEN PathStep(k, p[2], path[p[1]]) ELSE a]
  OBVIOUS
<1>7. S \in [Nat \X D -> D]
  BY <1>4, <1>5, <1>6
<1>8. PICK I : I = 0..N
  OBVIOUS
<1>9. PICK f \in [I -> D] : Unfolds(I, a, S, f)
  <2>1. I = Nat \/ \E M \in Nat : I = 0..M
    BY <1>8
  <2> QED
    BY <1>4, <1>7, <2>1, RecursionWorks
<1>10. \A n \in I : n # 0 => n \in 1..N /\ n - 1 \in I /\ n \in Nat
  BY <1>8
<1>11. \A n \in I : f[n] = IF n = 0 THEN a ELSE PathStep(k, f[n - 1], path[n])
  BY <1>6, <1>9, <1>10 DEF Unfolds
<1>12. f = [n \in I |-> IF n = 0 THEN a ELSE PathStep(k, f[n - 1], path[n])]
  BY <1>9, <1>11
<1>13. PICK walk : walk = CHOOSE g : g = [n \in I |-> IF n = 0 THEN a ELSE PathStep(k, g[n - 1], path[n])]
  OBVIOUS
<1>14. walk = [n \in I |-> IF n = 0 THEN a ELSE PathStep(k, walk[n - 1], path[n])]
  BY <1>12, <1>13
<1>15. PathWalk(k, path) = walk[N]
  BY <1>1, <1>2, <1>8, <1>13 DEF PathWalk
<1>16. PICK P : P = {n \in I : walk[n] \in D}
  OBVIOUS
<1>17. 0 \in P
  BY <1>4, <1>8, <1>14, <1>16
<1>18. ASSUME NEW n \in Nat, n < N, n \in P PROVE n + 1 \in P
  <2>1. PICK l \in Nat : l = n + 1 /\ l \in I /\ l \in 1..N /\ l # 0 /\ l - 1 = n
    BY <1>8, <1>18
  <2>2. walk[l] = PathStep(k, walk[n], path[l])
    BY <1>14, <2>1
  <2>3. walk[l] \in D
    BY <1>5, <1>16, <1>18, <2>1, <2>2
  <2> QED
    BY <1>16, <2>1, <2>3
<1>19. \A n \in 0..N : n \in P
  BY <1>17, <1>18, SegmentByInduction
<1>20. walk[N] \in D
  BY <1>8, <1>16, <1>19
<1>21. ASSUME N # 0 PROVE walk[N].err = "none" => walk[N].x # 0
  <2>1. PICK l \in Nat : l = N - 1 /\ l \in 0..N /\ N \in 1..N /\ N \in I
    BY <1>8, <1>21
  <2>2. walk[N] = PathStep(k, walk[l], path[N]) /\ walk[l] \in D
    BY <1>14, <1>16, <1>19, <1>21, <2>1
  <2> QED
    BY <1>5, <2>1, <2>2
<1> QED
  BY <1>1, <1>3, <1>15, <1>20, <1>21

LEMMA PutPathGood ==
    ASSUME NEW k, Sound(k), Load(k) >= 3, TagAt(k, 1) = "array"
    PROVE  Good(k, PutPath(k))
<1>1. PICK leaf : leaf = PathWalk(k, Body(k, 1))
  OBVIOUS
<1>2. Body(k, 1) \in Seq(Toks(k.heap)) /\ Size(k, 1) = Len(Body(k, 1)) /\ At(k, 0) \in Toks(k.heap)
  BY LoadIsNat, SequenceOperand, KindOf, Operands
<1>3. leaf \in Walks(k.heap) /\ (Size(k, 1) # 0 /\ leaf.err = "none" => leaf.x # 0)
  BY <1>1, <1>2, PathWalkWalks
<1>4. leaf.err \in {"none"} \cup Plain /\ leaf.x \in Ids \cup {0} /\ Reached(k.heap, leaf)
  BY <1>3 DEF Walks, Places
<1>5. PICK b : b = [k.heap[leaf.x].body EXCEPT ![leaf.k + 1] = At(k, 0)]
  OBVIOUS
<1>6. ASSUME ~(Size(k, 1) = 0), leaf.err = "none", k.heap[leaf.x].acc = Unlimited
      PROVE  Good(k, Done(Popped(Written(k, leaf.x, b), 2)))
  <2>1. leaf.x \in Ids /\ k.heap[leaf.x].kind = "array" /\ leaf.k + 1 \in 1..Len(k.heap[leaf.x].body)
    BY <1>3, <1>4, <1>6 DEF Reached
  <2>2. IsBody(k.heap, "array", k.heap[leaf.x].body)
    <3>1. WellFormed(k.heap)
      BY DEF Sound
    <3>2. PICK x \in Ids : x = leaf.x
      BY <2>1
    <3>3. IsBody(k.heap, k.heap[x].kind, k.heap[x].body)
      BY <3>1, <3>2, PayloadParts
    <3> QED
      BY <2>1, <3>2, <3>3
  <2>3. k.heap[leaf.x].body \in Seq(Toks(k.heap))
    BY <2>2, BodiesAreCells DEF Cells
  <2>4. b \in Seq(Toks(k.heap))
    BY <1>2, <1>5, <2>1, <2>3, SeqExcept
  <2>5. IsBody(k.heap, "array", b)
    BY <2>4, BodiesAreCells DEF Cells
  <2> QED
    BY <1>6, <2>1, <2>5, LoadIsNat, GoodWritten
<1>7. PICK wr : wr = Unless(k, ~IsWritable(k.heap[leaf.x]), "WriteProtected", Done(Popped(Written(k, leaf.x, b), 2)))
  OBVIOUS
<1>8. ASSUME ~(Size(k, 1) = 0), leaf.err = "none" PROVE Good(k, wr)
  <2>1. ASSUME ~(~IsWritable(k.heap[leaf.x])) PROVE Good(k, Done(Popped(Written(k, leaf.x, b), 2)))
    BY <1>6, <1>8, <2>1 DEF IsWritable
  <2> QED
    BY <1>7, <2>1, GoodUnless, PlainErrors
<1>9. PICK er : er = Unless(k, leaf.err # "none", leaf.err, wr)
  OBVIOUS
<1>10. ASSUME ~(Size(k, 1) = 0) PROVE Good(k, er)
  <2>1. CASE leaf.err = "none"
    BY <1>8, <1>9, <1>10, <2>1 DEF Unless
  <2>2. CASE leaf.err # "none"
    <3>1. er = Raise(k, leaf.err) /\ leaf.err \in Plain
      BY <1>4, <1>9, <2>2 DEF Unless
    <3> QED
      BY <3>1, GoodRaise
  <2> QED
    BY <2>1, <2>2
<1>11. PICK out : out = Unless(k, Size(k, 1) = 0, "RangeCheck", er)
  OBVIOUS
<1>12. Good(k, out)
  BY <1>10, <1>11, GoodUnless, PlainErrors
<1>13. Good(k, Readable(k, 1, out))
  BY <1>12, GoodReadable
<1> QED
  BY <1>1, <1>5, <1>7, <1>9, <1>11, <1>13 DEF PutPath

\* A name of a dictionary takes a value.
LEMMA KeyBody ==
    ASSUME NEW h, NEW d, IsBody(h, "dictionary", d), NEW l \in Names, NEW t \in Toks(h)
    PROVE  IsBody(h, "dictionary", WithKey(d, l, t))
<1>1. PICK e : e = WithKey(d, l, t)
  OBVIOUS
<1>2. DOMAIN e = DOMAIN d \cup {l} /\ \A x \in DOMAIN d \cup {l} : e[x] = IF x = l THEN t ELSE d[x]
  BY <1>1 DEF WithKey
<1>3. DOMAIN d \subseteq Names /\ \A x \in DOMAIN d : IsToken(h, d[x])
  BY BodiesAreCells
<1>4. IsToken(h, t)
  BY DEF Toks
<1> QED
  BY <1>1, <1>2, <1>3, <1>4, BodiesAreCells

LEMMA PutDictGood ==
    ASSUME NEW k, Sound(k), Load(k) >= 3, TagAt(k, 2) = "dictionary", TagAt(k, 1) = "literal"
    PROVE  Good(k, PutDict(k))
<1>1. PICK x : x = DataAt(k, 2)
  OBVIOUS
<1>2. x \in Ids /\ k.heap[x].kind = "dictionary" /\ DataAt(k, 1) \in Names
      /\ Payload(k, At(k, 2)) = k.heap[x] /\ IsBody(k.heap, "dictionary", Body(k, 2))
  BY <1>1, LoadIsNat, OperandParts, KindOf
<1>3. PICK b : b = WithKey(Body(k, 2), DataAt(k, 1), At(k, 0))
  OBVIOUS
<1>4. IsBody(k.heap, k.heap[x].kind, b)
  BY <1>2, <1>3, LoadIsNat, Operands, KeyBody
<1>5. ASSUME k.heap[x].acc = Unlimited PROVE Good(k, Done(Popped(Written(k, x, b), 3)))
  BY <1>2, <1>4, <1>5, LoadIsNat, GoodWritten
<1>6. Good(k, Writable(k, 2, Done(Popped(Written(k, x, b), 3))))
  BY <1>2, <1>5, GoodWritable
<1> QED
  BY <1>1, <1>3, <1>6 DEF PutDict

LEMMA PutGood == ASSUME NEW k, Sound(k), NEW char \in Int PROVE Good(k, PutFunction(k, char))
<1>1. PICK out : out = (CASE TagAt(k, 2) \in ArrayTags /\ TagAt(k, 1) = "integer" -> PutElement(k, At(k, 0))
                          [] TagAt(k, 2) = "array" /\ TagAt(k, 1) = "array" -> PutPath(k)
                          [] TagAt(k, 2) = "string" /\ TagAt(k, 1) = "integer" -> PutElement(k, Char(char))
                          [] TagAt(k, 2) = "dictionary" /\ TagAt(k, 1) = "literal" -> PutDict(k)
                          [] OTHER -> Raise(k, "ArgumentType"))
  OBVIOUS
<1>2. ASSUME Load(k) >= 3 PROVE Good(k, out)
  <2>1. At(k, 0) \in Toks(k.heap) /\ Char(char) \in Characters
    BY <1>2, LoadIsNat, Operands, CharIsCharacter
  <2>2. TagAt(k, 2) \in ArrayTags /\ TagAt(k, 1) = "integer" => Good(k, PutElement(k, At(k, 0)))
    BY <1>2, <2>1, KindOf, PutElementGood DEF Cells
  <2>3. TagAt(k, 2) = "string" /\ TagAt(k, 1) = "integer" => Good(k, PutElement(k, Char(char)))
    BY <1>2, <2>1, KindOf, PutElementGood DEF Cells
  <2> QED
    BY <1>1, <1>2, <2>2, <2>3, PutPathGood, PutDictGood, GoodSame
<1> QED
  BY <1>1, <1>2, GoodNeeds DEF PutFunction

-----------------------------------------------------------------------------
(* Strings as numbers; dictionaries *)

LEMMA StringAsGood ==
    ASSUME NEW k, Sound(k), NEW t \in Toks(k.heap)
    PROVE  Good(k, StringAs(k, t)) /\ Good(k, StringIsNoNumber(k))
<1>1. ASSUME Load(k) >= 1 PROVE Good(k, Readable(k, 0, Done(SlotSet(k, 0, t))))
  BY <1>1, GoodTop, GoodReadable
<1>2. Good(k, Readable(k, 0, Raise(k, "ArgumentType")))
  BY GoodSame, GoodReadable
<1>3. Good(k, StringAs(k, t))
  BY <1>1, GoodTyped1 DEF StringAs
<1>4. Good(k, StringIsNoNumber(k))
  BY <1>2, GoodTyped1 DEF StringIsNoNumber
<1> QED
  BY <1>3, <1>4

LEMMA DictionaryAsMakes ==
    ASSUME NEW k, Sound(k), NEW b,
           Load(k) >= 1 /\ TagAt(k, 0) = "dictionary" => b \in Seq(Toks(k.heap))
    PROVE  Makes(k, DictionaryAs(k, b))
<1>1. PICK out : out = Done(PushedNew(Popped(k, 1), "array", b))
  OBVIOUS
<1>2. ASSUME Load(k) >= 1 /\ Matches(k, 0, "dictionary") PROVE Makes(k, Readable(k, 0, out))
  <2>1. TagAt(k, 0) = "dictionary"
    BY <1>2, CompositesAreTypes, MatchesType
  <2>2. Makes(k, out)
    BY <1>1, <1>2, <2>1, LoadIsNat, MakesNew, ArrayBody, KindOf
  <2> QED
    BY <2>2, MakesReadable
<1>3. Makes(k, Typed(k, <<"dictionary">>, Readable(k, 0, out)))
  BY <1>2, MakesTyped1
<1> QED
  BY <1>1, <1>3 DEF DictionaryAs

LEMMA DictionaryAsGood ==
    ASSUME NEW k, Sound(k), NEW b,
           Load(k) >= 1 /\ TagAt(k, 0) = "dictionary" => b \in Seq(Toks(k.heap))
    PROVE  Good(k, DictionaryAs(k, b))
BY DictionaryAsMakes DEF Makes

LEMMA DictionaryOperand ==
    ASSUME NEW k, Sound(k), Load(k) >= 1, TagAt(k, 0) = "dictionary"
    PROVE  /\ Keys(Body(k, 0)) \in Seq(Names)
           /\ Len(Keys(Body(k, 0))) \in Nat /\ DOMAIN Keys(Body(k, 0)) = 1..Len(Keys(Body(k, 0)))
           /\ \A i \in 1..Len(Keys(Body(k, 0))) :
                  /\ Lit(Keys(Body(k, 0))[i]) \in Toks(k.heap)
                  /\ Body(k, 0)[Keys(Body(k, 0))[i]] \in Toks(k.heap)
<1>1. PICK d : d = Body(k, 0)
  OBVIOUS
<1>2. IsBody(k.heap, "dictionary", d)
  BY <1>1, LoadIsNat, OperandParts, KindOf
<1>3. DOMAIN d \subseteq Names /\ \A l \in DOMAIN d : IsToken(k.heap, d[l])
  BY <1>2, BodiesAreCells
<1>4. PICK ks : ks = Keys(d)
  OBVIOUS
<1>5. ks \in Seq(DOMAIN d) /\ ks \in Seq(Names)
  BY <1>3, <1>4, KeysParts
<1>6. Len(ks) \in Nat /\ DOMAIN ks = 1..Len(ks) /\ \A i \in 1..Len(ks) : ks[i] \in DOMAIN d
  BY <1>5, SeqParts
<1>7. \A i \in 1..Len(ks) : Lit(ks[i]) \in Toks(k.heap)
  BY <1>3, <1>6, ScalarsAreTokens
<1>8. \A i \in 1..Len(ks) : d[ks[i]] \in Toks(k.heap)
  BY <1>3, <1>6 DEF Toks, IsToken
<1> QED
  BY <1>1, <1>4, <1>5, <1>6, <1>7, <1>8

LEMMA KeysMakes == ASSUME NEW k, Sound(k) PROVE Makes(k, KeysFunction(k))
<1>1. PICK ks : ks = Keys(Body(k, 0))
  OBVIOUS
<1>2. PICK b : b = [i \in DOMAIN ks |-> Lit(ks[i])]
  OBVIOUS
<1>3. ASSUME Load(k) >= 1 /\ TagAt(k, 0) = "dictionary" PROVE b \in Seq(Toks(k.heap))
  <2>1. PICK n \in Nat : n = Len(ks) /\ DOMAIN ks = 1..n /\ \A i \in 1..n : Lit(ks[i]) \in Toks(k.heap)
    BY <1>1, <1>3, DictionaryOperand
  <2>2. b = [i \in 1..n |-> b[i]] /\ \A i \in 1..n : b[i] \in Toks(k.heap)
    BY <1>2, <2>1
  <2> QED
    BY <2>2, SeqBuilt
<1> QED
  BY <1>1, <1>2, <1>3, DictionaryAsMakes DEF KeysFunction

LEMMA KeysGood == ASSUME NEW k, Sound(k) PROVE Good(k, KeysFunction(k))
BY KeysMakes DEF Makes

LEMMA ValuesMakes == ASSUME NEW k, Sound(k) PROVE Makes(k, ValuesFunction(k))
<1>1. PICK ks : ks = Keys(Body(k, 0))
  OBVIOUS
<1>2. PICK b : b = [i \in DOMAIN ks |-> Body(k, 0)[ks[i]]]
  OBVIOUS
<1>3. ASSUME Load(k) >= 1 /\ TagAt(k, 0) = "dictionary" PROVE b \in Seq(Toks(k.heap))
  <2>1. PICK n \in Nat : n = Len(ks) /\ DOMAIN ks = 1..n /\ \A i \in 1..n : Body(k, 0)[ks[i]] \in Toks(k.heap)
    BY <1>1, <1>3, DictionaryOperand
  <2>2. b = [i \in 1..n |-> b[i]] /\ \A i \in 1..n : b[i] \in Toks(k.heap)
    BY <1>2, <2>1
  <2> QED
    BY <2>2, SeqBuilt
<1> QED
  BY <1>1, <1>2, <1>3, DictionaryAsMakes DEF ValuesFunction

LEMMA ValuesGood == ASSUME NEW k, Sound(k) PROVE Good(k, ValuesFunction(k))
BY ValuesMakes DEF Makes

LEMMA CvaDictGood == ASSUME NEW k, Sound(k) PROVE Good(k, CvaDictFunction(k))
<1>1. PICK ks : ks = Keys(Body(k, 0))
  OBVIOUS
<1> DEFINE pair(l) == <<Lit(l), Body(k, 0)[l]>>
<1>2. PICK b : b = [i \in 1..(2 * Len(ks)) |-> pair(ks[(i + 1) \div 2])[2 - (i % 2)]]
  OBVIOUS
<1>3. ASSUME Load(k) >= 1 /\ TagAt(k, 0) = "dictionary" PROVE b \in Seq(Toks(k.heap))
  <2>1. PICK n \in Nat : n = Len(ks) /\ DOMAIN ks = 1..n
                         /\ \A i \in 1..n : Lit(ks[i]) \in Toks(k.heap) /\ Body(k, 0)[ks[i]] \in Toks(k.heap)
    BY <1>1, <1>3, DictionaryOperand
  <2>2. PICK c \in Nat : c = 2 * n
    BY <2>1
  <2>3. \A i \in 1..c : (i + 1) \div 2 \in 1..n /\ (2 - (i % 2) = 1 \/ 2 - (i % 2) = 2)
    BY <2>1, <2>2
  <2>4. \A j \in 1..n : pair(ks[j])[1] \in Toks(k.heap) /\ pair(ks[j])[2] \in Toks(k.heap)
    BY <2>1
  <2>5. b = [i \in 1..c |-> pair(ks[(i + 1) \div 2])[2 - (i % 2)]]
    BY <1>2, <2>1, <2>2
  <2> HIDE DEF pair
  <2>6. \A i \in 1..c : b[i] \in Toks(k.heap)
    <3>1. TAKE i \in 1..c
    <3>2. PICK j \in 1..n : j = (i + 1) \div 2
      BY <2>3
    <3>3. PICK l : l = 2 - (i % 2) /\ (l = 1 \/ l = 2)
      BY <2>3
    <3>4. b[i] = pair(ks[j])[l]
      BY <2>5, <3>2, <3>3
    <3> QED
      BY <2>4, <3>3, <3>4
  <2>7. b = [i \in 1..c |-> b[i]]
    BY <2>5
  <2> QED
    BY <2>6, <2>7, SeqBuilt
<1> QED
  BY <1>1, <1>2, <1>3, DictionaryAsGood DEF CvaDictFunction

LEMMA CvaGood == ASSUME NEW k, Sound(k) PROVE Good(k, CvaFunction(k))
<1>1. PICK out : out = (CASE TagAt(k, 0) = "dictionary" -> CvaDictFunction(k)
                          [] TagAt(k, 0) \in {"procedure", "litprocedure"} -> Done(Retagged(k, "array"))
                          [] OTHER -> Raise(k, "ArgumentType"))
  OBVIOUS
<1>2. ASSUME Load(k) >= 1, TagAt(k, 0) \in {"procedure", "litprocedure"} PROVE Good(k, Done(Retagged(k, "array")))
  BY <1>2, KindOf, RetaggedGood
<1>3. ASSUME Load(k) >= 1 PROVE Good(k, out)
  BY <1>1, <1>2, <1>3, CvaDictGood, GoodSame
<1> QED
  BY <1>1, <1>3, GoodNeeds1 DEF CvaFunction

LEMMA AboveMarkFits ==
    ASSUME NEW k, Sound(k), HasMark(k), NEW n, n = Len(AboveMark(k)) + 1
    PROVE  AboveMark(k) \in Seq(Toks(k.heap)) /\ n \in Nat /\ n <= Load(k)
<1>1. AboveMark(k) \in Seq(Toks(k.heap)) /\ Len(AboveMark(k)) = Load(k) - LastMark(k)
      /\ LastMark(k) \in 1..Load(k)
  BY AboveMarkParts
<1>2. PICK l \in Int : l = LastMark(k) /\ 1 <= l /\ l <= Load(k)
  BY <1>1, LoadIsNat
<1>3. n = Load(k) - l + 1
  BY <1>1, <1>2
<1> QED
  BY <1>1, <1>2, <1>3, LoadIsNat

LEMMA DictconstructMakes == ASSUME NEW k, Sound(k) PROVE Makes(k, DictconstructFunction(k))
<1>1. PICK s : s = AboveMark(k)
  OBVIOUS
<1> DEFINE ks == {i \in DOMAIN s : i % 2 = 1}
           Lower(l) == CHOOSE i \in ks : Data(s[i]) = l /\ \A j \in ks : Data(s[j]) = l => i <= j
           odd == Len(s) % 2 # 0 \/ \E i \in ks : Tag(s[i]) # "literal"
<1>2. PICK d : d = [l \in {Data(s[i]) : i \in ks} |-> s[Lower(l) + 1]]
  OBVIOUS
<1>3. PICK n : n = Len(s) + 1
  OBVIOUS
<1>4. ASSUME HasMark(k), ~odd PROVE Makes(k, Done(PushedNew(Popped(k, n), "dictionary", d)))
  <2>1. s \in Seq(Toks(k.heap)) /\ n \in Nat /\ n <= Load(k)
    BY <1>1, <1>3, <1>4, AboveMarkFits
  <2>2. PICK c \in Nat : c = Len(s) /\ DOMAIN s = 1..c /\ \A i \in 1..c : s[i] \in Toks(k.heap)
    BY <2>1, SeqParts
  <2>3. c % 2 = 0 /\ \A i \in ks : Tag(s[i]) = "literal"
    BY <1>4, <2>2
  <2>4. \A i \in ks : i \in 1..c /\ i + 1 \in 1..c /\ i \in Nat
    BY <2>2, <2>3
  <2>5. \A i \in ks : Data(s[i]) \in Names
    BY <2>2, <2>3, <2>4, TokenData
  <2>6. ASSUME NEW l \in DOMAIN d PROVE Lower(l) \in ks
    <3>1. PICK B : B = {i \in ks : Data(s[i]) = l}
      OBVIOUS
    <3>2. B # {} /\ B \subseteq Nat
      BY <1>2, <2>4, <2>6, <3>1
    <3>3. PICK i \in B : \A j \in B : i <= j
      BY <3>2, LeastExists
    <3>4. i \in ks /\ Data(s[i]) = l /\ \A j \in ks : Data(s[j]) = l => i <= j
      BY <3>1, <3>3
    <3> HIDE DEF ks
    <3> QED
      BY <3>4
  <2>7. DOMAIN d = {Data(s[i]) : i \in ks} /\ \A l \in DOMAIN d : d[l] = s[Lower(l) + 1]
    BY <1>2
  <2> HIDE DEF ks, Lower
  <2>8. DOMAIN d \subseteq Names /\ \A l \in DOMAIN d : d[l] \in Toks(k.heap)
    BY <2>2, <2>4, <2>5, <2>6, <2>7
  <2>9. IsBody(k.heap, "dictionary", d)
    BY <2>8, BodiesAreCells DEF Toks
  <2> QED
    BY <2>1, <2>9, KindOf, MakesNew
<1>5. PICK out : out = Done(PushedNew(Popped(k, n), "dictionary", d))
  OBVIOUS
<1>6. Makes(k, Unless(k, ~HasMark(k), "SyntaxError", Unless(k, odd, "ArgumentType", out)))
  <2> HIDE DEF odd
  <2>1. ASSUME HasMark(k) PROVE Makes(k, Unless(k, odd, "ArgumentType", out))
    BY <1>4, <1>5, <2>1, MakesUnless, PlainErrors
  <2> QED
    BY <2>1, MakesUnless, PlainErrors
<1> QED
  BY <1>1, <1>2, <1>3, <1>5, <1>6 DEF DictconstructFunction

LEMMA DictconstructGood == ASSUME NEW k, Sound(k) PROVE Good(k, DictconstructFunction(k))
BY DictconstructMakes DEF Makes

LEMMA CleardictGood == ASSUME NEW k, Sound(k) PROVE Good(k, CleardictFunction(k))
<1>1. PICK x : x = DataAt(k, 0)
  OBVIOUS
<1>2. ASSUME Load(k) >= 1 /\ Matches(k, 0, "dictionary")
      PROVE  Good(k, Writable(k, 0, Done(Popped(Written(k, x, <<>>), 1))))
  <2>1. TagAt(k, 0) = "dictionary"
    BY <1>2, CompositesAreTypes, MatchesType
  <2>2. x \in Ids /\ k.heap[x].kind = "dictionary" /\ Payload(k, At(k, 0)) = k.heap[x]
    BY <1>1, <1>2, <2>1, LoadIsNat, OperandParts, KindOf
  <2>3. PICK b : b = <<>> /\ DOMAIN b = {}
    OBVIOUS
  <2>4. IsBody(k.heap, "dictionary", b)
    BY <2>3, BodiesAreCells
  <2>5. ASSUME k.heap[x].acc = Unlimited PROVE Good(k, Done(Popped(Written(k, x, b), 1)))
    BY <1>2, <2>2, <2>4, <2>5, LoadIsNat, GoodWritten
  <2>6. Good(k, Writable(k, 0, Done(Popped(Written(k, x, b), 1))))
    BY <2>2, <2>5, GoodWritable
  <2> QED
    BY <2>3, <2>6
<1>3. Good(k, Typed(k, <<"dictionary">>, Writable(k, 0, Done(Popped(Written(k, x, <<>>), 1)))))
  BY <1>2, GoodTyped1
<1> QED
  BY <1>1, <1>3 DEF CleardictFunction

LEMMA ClonedictMakes == ASSUME NEW k, Sound(k) PROVE Makes(k, ClonedictFunction(k))
<1>1. ASSUME Load(k) >= 1 /\ Matches(k, 0, "dictionary")
      PROVE  Makes(k, Readable(k, 0, Done(PushedNew(k, "dictionary", Body(k, 0)))))
  <2>1. TagAt(k, 0) = "dictionary"
    BY <1>1, CompositesAreTypes, MatchesType
  <2>2. IsBody(k.heap, Kind("dictionary"), Body(k, 0))
    BY <1>1, <2>1, LoadIsNat, OperandParts, KindOf
  <2> QED
    BY <2>2, KindOf, MakesOnTop, MakesReadable
<1> QED
  BY <1>1, MakesTyped1 DEF ClonedictFunction

LEMMA ClonedictGood == ASSUME NEW k, Sound(k) PROVE Good(k, ClonedictFunction(k))
BY ClonedictMakes DEF Makes

LEMMA KnownGood == ASSUME NEW k, Sound(k) PROVE Good(k, KnownFunction(k))
<1>1. (DataAt(k, 0) \in DOMAIN Body(k, 1)) \in BOOLEAN
  OBVIOUS
<1>2. 2 \in Nat
  OBVIOUS
<1>3. PICK out : out = Done(Pushed(Popped(k, 2), Bool(DataAt(k, 0) \in DOMAIN Body(k, 1))))
  OBVIOUS
<1>4. Load(k) >= 2 => Good(k, out)
  BY <1>1, <1>2, <1>3, GoodAnotherBool, Zenon
<1>5. ASSUME Load(k) >= 2 PROVE Good(k, Readable(k, 1, out))
  BY <1>4, <1>5, GoodReadable
<1>6. Good(k, Typed(k, <<"dictionary", "literal">>, Readable(k, 1, out)))
  BY <1>5, GoodTyped2
<1> QED
  BY <1>3, <1>6 DEF KnownFunction

-----------------------------------------------------------------------------
(* Containers: join and search *)

\* Of what was kept, a new payload or another token is one more thing kept.
LEMMA OkNewOn ==
    ASSUME NEW k, NEW g, Ok(k, g), NEW tag \in CompositeTags, NEW b, IsBody(k.heap, Kind(tag), b)
    PROVE  Ok(k, PushedNew(g, tag, b))
<1>1. IsBody(g.heap, Kind(tag), b)
  BY BodyKept, KindOf DEF Ok
<1>2. Ok(g, PushedNew(g, tag, b))
  BY <1>1, OkPushedNew DEF Ok
<1> QED
  BY <1>2, OkTrans

LEMMA OkPushedOn ==
    ASSUME NEW k, NEW g, Ok(k, g), NEW t \in Toks(k.heap)
    PROVE  Ok(k, Pushed(g, t))
<1>1. t \in Toks(g.heap)
  BY ToksKept DEF Ok
<1>2. Ok(g, Pushed(g, t))
  BY <1>1, OkPushed DEF Ok
<1> QED
  BY <1>2, OkTrans

\* A signature's operands that are arrays or strings are sequences of their cells.
LEMMA SequenceBody ==
    ASSUME NEW k, Sound(k), NEW i \in {0, 1, 2, 3}, i < Load(k), NEW tag \in ArrayTags \cup {"string"},
           Matches(k, i, tag)
    PROVE  Body(k, i) \in Seq(Cells(k.heap, Kind(tag))) /\ tag \in CompositeTags
           /\ Size(k, i) = Len(Body(k, i)) /\ Size(k, i) \in Nat /\ TagAt(k, i) = tag
<1>1. TagAt(k, i) = tag
  BY CompositesAreTypes, MatchesType
<1> QED
  BY <1>1, LoadIsNat, SequenceOperand, KindOf

LEMMA JoinLeafMakes ==
    ASSUME NEW k, Sound(k), NEW tag \in ArrayTags \cup {"string"}
    PROVE  Makes(k, JoinLeaf(k, tag))
<1>1. PICK b : b = Body(k, 1) \o Body(k, 0)
  OBVIOUS
<1>2. ASSUME Load(k) >= 2 /\ Matches(k, 1, tag) /\ Matches(k, 0, tag)
      PROVE  Makes(k, Readable(k, 1, Readable(k, 0, Done(PushedNew(Popped(k, 2), tag, b)))))
  <2>1. Body(k, 1) \in Seq(Cells(k.heap, Kind(tag))) /\ Body(k, 0) \in Seq(Cells(k.heap, Kind(tag)))
    BY <1>2, LoadIsNat, SequenceBody
  <2>2. b \in Seq(Cells(k.heap, Kind(tag)))
    BY <1>1, <2>1, SeqConcat
  <2>3. Makes(k, Done(PushedNew(Popped(k, 2), tag, b)))
    BY <1>2, <2>2, LoadIsNat, CellsBody, MakesNew
  <2> QED
    BY <2>3, MakesReadable
<1>3. Makes(k, Typed(k, <<tag, tag>>, Readable(k, 1, Readable(k, 0, Done(PushedNew(Popped(k, 2), tag, b))))))
  BY <1>2, MakesTyped2
<1> QED
  BY <1>1, <1>3 DEF JoinLeaf

LEMMA JoinMakes == ASSUME NEW k, Sound(k) PROVE Makes(k, JoinFunction(k))
<1>1. PICK out : out = (CASE TagAt(k, 1) = "array" -> JoinArray(k)
                          [] TagAt(k, 1) = "string" -> JoinString(k)
                          [] TagAt(k, 1) = "procedure" -> JoinProcedure(k)
                          [] OTHER -> Raise(k, "ArgumentType"))
  OBVIOUS
<1>2. Makes(k, JoinArray(k)) /\ Makes(k, JoinString(k)) /\ Makes(k, JoinProcedure(k))
  BY JoinLeafMakes, KindOf DEF JoinArray, JoinString, JoinProcedure
<1>3. Makes(k, out)
  BY <1>1, <1>2, MakesRaise
<1> QED
  BY <1>1, <1>3, MakesNeeds2 DEF JoinFunction

LEMMA JoinGood == ASSUME NEW k, Sound(k) PROVE Good(k, JoinFunction(k))
BY JoinMakes DEF Makes


\* The first of some positions is one of them.
LEMMA FirstIsOne ==
    ASSUME NEW n \in Int, NEW ps, ps \subseteq 0..n, ps # {}
    PROVE  First(ps) \in ps /\ First(ps) \in Nat
<1>1. ps \subseteq Nat
  OBVIOUS
<1>2. PICK p \in ps : \A q \in ps : p <= q
  BY <1>1, LeastExists
<1>3. First(ps) \in ps
  BY <1>2 DEF First
<1> QED
  BY <1>1, <1>3

\* What search leaves when it has found the needle at p, and when it has not.
LEMMA SearchedGood ==
    ASSUME NEW k, Sound(k), Load(k) >= 2, NEW tag \in CompositeTags, NEW S,
           \A s \in Seq(S) : IsBody(k.heap, Kind(tag), s),
           NEW hay \in Seq(S), NEW needle \in Seq(S), NEW p \in Nat, p + Len(needle) <= Len(hay),
           NEW t \in Toks(k.heap)
    PROVE  LET post == PushedNew(Popped(k, 2), tag, SubSeq(hay, p + Len(needle) + 1, Len(hay)))
           IN  /\ Good(k, Done(Pushed(PushedNew(Pushed(post, t), tag, SubSeq(hay, 1, p)), Bool(TRUE))))
               /\ Good(k, Done(Pushed(PushedNew(PushedNew(post, tag, needle), tag, SubSeq(hay, 1, p)), Bool(TRUE))))
<1>1. PICK h \in Nat : h = Len(hay)
  BY SeqParts
<1>2. PICK n \in Nat : n = Len(needle)
  BY SeqParts
<1>3. PICK i \in Int : i = p + n + 1 /\ i >= 1
  BY <1>2
<1>4. PICK after : after = SubSeq(hay, i, h)
  OBVIOUS
<1>5. PICK pre : pre = SubSeq(hay, 1, p)
  OBVIOUS
<1>6. after \in Seq(S)
  BY <1>1, <1>3, <1>4, SeqCut
<1>7. pre \in Seq(S)
  <2>1. 1 \in Int /\ 1 >= 1 /\ p \in Int /\ p <= Len(hay)
    BY <1>1, <1>2
  <2> QED
    BY <1>5, <2>1, SeqCut
<1>8. PICK rest : rest = Popped(k, 2)
  OBVIOUS
<1>9. Ok(k, rest)
  BY <1>8, LoadIsNat, OkPopped
<1>10. PICK post : post = PushedNew(rest, tag, after)
  OBVIOUS
<1>11. Ok(k, post)
  BY <1>6, <1>9, <1>10, OkNewOn
<1>12. PICK last1 : last1 = Pushed(post, t)
  OBVIOUS
<1>13. PICK last2 : last2 = PushedNew(post, tag, needle)
  OBVIOUS
<1>14. Ok(k, last1) /\ Ok(k, last2)
  BY <1>11, <1>12, <1>13, OkPushedOn, OkNewOn
<1>15. PICK all1 : all1 = PushedNew(last1, tag, pre)
  OBVIOUS
<1>16. PICK all2 : all2 = PushedNew(last2, tag, pre)
  OBVIOUS
<1>17. Ok(k, all1) /\ Ok(k, all2)
  BY <1>7, <1>14, <1>15, <1>16, OkNewOn
<1>18. Bool(TRUE) \in Toks(k.heap)
  BY ScalarsAreTokens
<1>19. Good(k, Done(Pushed(all1, Bool(TRUE)))) /\ Good(k, Done(Pushed(all2, Bool(TRUE))))
  BY <1>17, <1>18, OkPushedOn, GoodDone
<1> QED
  BY <1>1, <1>2, <1>3, <1>4, <1>5, <1>8, <1>10, <1>12, <1>13, <1>15, <1>16, <1>19

LEMMA SearchStringGood == ASSUME NEW k, Sound(k) PROVE Good(k, SearchString(k))
<1>1. PICK hay : hay = Body(k, 1)
  OBVIOUS
<1>2. PICK needle : needle = Body(k, 0)
  OBVIOUS
<1>3. PICK found : found = StringOccurrences(hay, needle)
  OBVIOUS
<1>4. PICK p : p = First(found)
  OBVIOUS
<1>5. PICK post : post = PushedNew(Popped(k, 2), "string", SubSeq(hay, p + Len(needle) + 1, Len(hay)))
  OBVIOUS
<1>6. PICK yes : yes = Done(Pushed(PushedNew(PushedNew(post, "string", needle), "string", SubSeq(hay, 1, p)), Bool(TRUE)))
  OBVIOUS
<1>7. PICK no : no = Done(Pushed(PushedNew(Popped(k, 2), "string", hay), Bool(FALSE)))
  OBVIOUS
<1>8. PICK out : out = IF found = {} THEN no ELSE yes
  OBVIOUS
<1>9. ASSUME Load(k) >= 2 /\ Matches(k, 1, "string") /\ Matches(k, 0, "string")
      PROVE  Good(k, Readable(k, 1, Readable(k, 0, out)))
  <2>1. hay \in Seq(Characters) /\ needle \in Seq(Characters)
    BY <1>1, <1>2, <1>9, LoadIsNat, SequenceBody, KindOf DEF Cells
  <2>2. \A s \in Seq(Characters) : IsBody(k.heap, Kind("string"), s)
    BY StringBody
  <2>3. Good(k, no)
    <3>1. PICK g : g = Popped(k, 2)
      OBVIOUS
    <3>2. Ok(k, g)
      BY <1>9, <3>1, LoadIsNat, OkPopped
    <3>3. PICK f : f = PushedNew(g, "string", hay)
      OBVIOUS
    <3>4. Ok(k, f)
      BY <2>1, <2>2, <3>2, <3>3, OkNewOn, KindOf
    <3>5. Bool(FALSE) \in Toks(k.heap)
      BY ScalarsAreTokens
    <3> QED
      BY <1>7, <3>1, <3>3, <3>4, <3>5, OkPushedOn, GoodDone
  <2>4. ASSUME found # {} PROVE Good(k, yes)
    <3>1. Len(hay) \in Nat /\ Len(needle) \in Nat
      BY <2>1, SeqParts
    <3>2. PICK n \in Int : n = Len(hay) - Len(needle)
      BY <3>1
    <3>3. found \subseteq 0..n
      BY <1>3, <3>2 DEF StringOccurrences
    <3>4. p \in Nat /\ p <= n
      <4>1. p \in found
        BY <1>4, <2>4, <3>3, FirstIsOne
      <4> QED
        BY <3>2, <3>3, <4>1
    <3>5. p + Len(needle) <= Len(hay)
      BY <3>1, <3>2, <3>4
    <3>6. Garbage \in Toks(k.heap) /\ "string" \in CompositeTags
      BY ScalarsAreTokens, KindOf
    <3>7. Load(k) >= 2
      BY <1>9
    <3> QED
      BY <1>5, <1>6, <2>1, <2>2, <3>4, <3>5, <3>6, <3>7, SearchedGood
  <2>5. Good(k, out)
    BY <1>8, <2>3, <2>4
  <2> QED
    BY <2>5, GoodReadable
<1>10. Good(k, Typed(k, <<"string", "string">>, Readable(k, 1, Readable(k, 0, out))))
  BY <1>9, GoodTyped2
<1> QED
  BY <1>1, <1>2, <1>3, <1>4, <1>5, <1>6, <1>7, <1>8, <1>10 DEF SearchString

LEMMA SearchArrayGood == ASSUME NEW k, Sound(k) PROVE Good(k, SearchArray(k))
<1>1. PICK hay : hay = Body(k, 1)
  OBVIOUS
<1>2. PICK needle : needle = Body(k, 0)
  OBVIOUS
<1>3. PICK found : found = {p \in TokenOccurrences(k, hay, needle) : p < Len(hay)}
  OBVIOUS
<1>4. PICK p : p = First(found)
  OBVIOUS
<1>5. PICK post : post = PushedNew(Popped(k, 2), "array", SubSeq(hay, p + Len(needle) + 1, Len(hay)))
  OBVIOUS
<1>6. PICK yes : yes = Done(Pushed(PushedNew(Pushed(post, At(k, 0)), "array", SubSeq(hay, 1, p)), Bool(TRUE)))
  OBVIOUS
<1>7. PICK no : no = Done(SlotSet(k, 0, Bool(FALSE)))
  OBVIOUS
<1>8. PICK out : out = IF found = {} THEN no ELSE yes
  OBVIOUS
<1>9. ASSUME Load(k) >= 2 /\ Matches(k, 1, "array") /\ Matches(k, 0, "array")
      PROVE  Good(k, Readable(k, 1, Readable(k, 0, out)))
  <2>1. hay \in Seq(Toks(k.heap)) /\ needle \in Seq(Toks(k.heap))
    BY <1>1, <1>2, <1>9, LoadIsNat, SequenceBody, KindOf DEF Cells
  <2>2. \A s \in Seq(Toks(k.heap)) : IsBody(k.heap, Kind("array"), s)
    BY ArrayBody, KindOf
  <2>3. Good(k, no)
    <3>1. Load(k) >= 1 /\ FALSE \in BOOLEAN
      BY <1>9, LoadIsNat
    <3> QED
      BY <1>7, <3>1, GoodTopBool, Zenon
  <2>4. ASSUME found # {} PROVE Good(k, yes)
    <3>1. Len(hay) \in Nat /\ Len(needle) \in Nat
      BY <2>1, SeqParts
    <3>2. PICK n \in Int : n = Len(hay) - Len(needle)
      BY <3>1
    <3>3. found \subseteq 0..n
      BY <1>3, <3>2 DEF TokenOccurrences
    <3>4. p \in Nat /\ p <= n
      <4>1. p \in found
        BY <1>4, <2>4, <3>3, FirstIsOne
      <4> QED
        BY <3>2, <3>3, <4>1
    <3>5. p + Len(needle) <= Len(hay)
      BY <3>1, <3>2, <3>4
    <3>6. At(k, 0) \in Toks(k.heap) /\ "array" \in CompositeTags
      BY <1>9, LoadIsNat, Operands, KindOf
    <3>7. Load(k) >= 2
      BY <1>9
    <3> QED
      BY <1>5, <1>6, <2>1, <2>2, <3>4, <3>5, <3>6, <3>7, SearchedGood
  <2>5. Good(k, out)
    BY <1>8, <2>3, <2>4
  <2> QED
    BY <2>5, GoodReadable
<1>10. Good(k, Typed(k, <<"array", "array">>, Readable(k, 1, Readable(k, 0, out))))
  BY <1>9, GoodTyped2
<1> QED
  BY <1>1, <1>2, <1>3, <1>4, <1>5, <1>6, <1>7, <1>8, <1>10 DEF SearchArray

LEMMA SearchGood == ASSUME NEW k, Sound(k) PROVE Good(k, SearchFunction(k))
<1>1. PICK out : out = (CASE TagAt(k, 1) = "array" -> SearchArray(k)
                          [] TagAt(k, 1) = "string" -> SearchString(k)
                          [] OTHER -> Raise(k, "ArgumentType"))
  OBVIOUS
<1>2. Good(k, out)
  BY <1>1, SearchArrayGood, SearchStringGood, GoodSame
<1> QED
  BY <1>1, <1>2, GoodNeeds2 DEF SearchFunction

-----------------------------------------------------------------------------
(* Containers: intervals *)

\* A new sequence of the cells of a type in place of the operands.
LEMMA GoodSequence ==
    ASSUME NEW k, Sound(k), NEW n \in Nat, n <= Load(k), NEW tag \in ArrayTags \cup {"string"},
           NEW b \in Seq(Cells(k.heap, Kind(tag)))
    PROVE  Good(k, Done(PushedNew(Popped(k, n), tag, b)))
BY CellsBody, GoodNew

LEMMA MakesSequence ==
    ASSUME NEW k, Sound(k), NEW n \in Nat, n <= Load(k), NEW tag \in ArrayTags \cup {"string"},
           NEW b \in Seq(Cells(k.heap, Kind(tag)))
    PROVE  Makes(k, Done(PushedNew(Popped(k, n), tag, b)))
BY CellsBody, MakesNew

LEMMA GetintervalLeafMakes ==
    ASSUME NEW k, Sound(k), NEW tag \in ArrayTags \cup {"string"}
    PROVE  Makes(k, GetintervalLeaf(k, tag))
<1>1. PICK count : count = DataAt(k, 0)
  OBVIOUS
<1>2. PICK idx : idx = DataAt(k, 1)
  OBVIOUS
<1>3. PICK b : b = SubSeq(Body(k, 2), idx + 1, idx + count)
  OBVIOUS
<1> DEFINE past == ~InRange(idx, Size(k, 2)) \/ idx + count > Size(k, 2)
           done == Done(PushedNew(Popped(k, 3), tag, b))
           cut == Unless(k, past, "RangeCheck", done)
           out == Unless(k, count < 0, "PositiveIntegerExpected", cut)
<1>4. ASSUME Load(k) >= 3 /\ Matches(k, 2, tag) /\ Matches(k, 1, "integer") /\ Matches(k, 0, "integer")
      PROVE  Makes(k, Readable(k, 2, out))
  <2>1. count \in Int /\ idx \in Int
    <3>1. TagAt(k, 1) = "integer" /\ TagAt(k, 0) = "integer"
      BY <1>4, CompositesAreTypes, MatchesType
    <3> QED
      BY <1>1, <1>2, <1>4, <3>1, LoadIsNat, OperandParts
  <2>2. PICK S : S = Cells(k.heap, Kind(tag)) /\ Body(k, 2) \in Seq(S)
                 /\ Size(k, 2) = Len(Body(k, 2)) /\ Size(k, 2) \in Nat
    BY <1>4, LoadIsNat, SequenceBody
  <2>3. ASSUME ~(count < 0), ~past PROVE Makes(k, done)
    <3>1. idx \in Nat /\ idx + count <= Len(Body(k, 2))
      BY <2>1, <2>2, <2>3, IntervalIndex
    <3>2. PICK i \in Int : i = idx + 1 /\ i >= 1
      BY <3>1
    <3>3. PICK j \in Int : j = idx + count /\ j <= Len(Body(k, 2))
      BY <2>1, <3>1
    <3>4. b \in Seq(S)
      BY <1>3, <2>2, <3>2, <3>3, SeqCut
    <3> QED
      BY <1>4, <2>2, <3>4, MakesSequence
  <2> HIDE DEF past, done
  <2>4. ASSUME ~(count < 0) PROVE Makes(k, cut)
    BY <2>3, <2>4, MakesUnless, PlainErrors
  <2> HIDE DEF cut
  <2>5. Makes(k, out)
    BY <2>4, MakesUnless, PlainErrors
  <2> QED
    BY <2>5, MakesReadable
<1>5. Makes(k, Typed(k, <<tag, "integer", "integer">>, Readable(k, 2, out)))
  <2> HIDE DEF out
  <2> QED
    BY <1>4, MakesTyped3
<1> QED
  BY <1>1, <1>2, <1>3, <1>5 DEF GetintervalLeaf

LEMMA GetintervalMakes == ASSUME NEW k, Sound(k) PROVE Makes(k, GetintervalFunction(k))
<1>1. PICK out : out = (CASE TagAt(k, 2) = "array" -> GetintervalArray(k)
                          [] TagAt(k, 2) = "string" -> GetintervalString(k)
                          [] OTHER -> Raise(k, "ArgumentType"))
  OBVIOUS
<1>2. Makes(k, GetintervalArray(k)) /\ Makes(k, GetintervalString(k))
  BY GetintervalLeafMakes, KindOf DEF GetintervalArray, GetintervalString
<1>3. Makes(k, out)
  BY <1>1, <1>2, MakesRaise
<1> QED
  BY <1>1, <1>3, MakesNeeds DEF GetintervalFunction

LEMMA GetintervalGood == ASSUME NEW k, Sound(k) PROVE Good(k, GetintervalFunction(k))
BY GetintervalMakes DEF Makes


\* An index and, above it, a sequence, of which a part gives way to another.
LEMMA SplicedBody ==
    ASSUME NEW k, Sound(k), NEW i \in {1, 2, 3}, i < Load(k), NEW tag \in ArrayTags \cup {"string"},
           Matches(k, i, tag), NEW j \in {0, 1, 2}, j < i, Matches(k, j, "integer"),
           InRange(DataAt(k, j), Size(k, i)), NEW n \in Nat,
           NEW t \in Seq(Cells(k.heap, Kind(tag)))
    PROVE  Spliced(Body(k, i), DataAt(k, j), n, t) \in Seq(Cells(k.heap, Kind(tag)))
<1>1. PICK S : S = Cells(k.heap, Kind(tag)) /\ Body(k, i) \in Seq(S)
               /\ Size(k, i) = Len(Body(k, i)) /\ Size(k, i) \in Nat
  BY LoadIsNat, SequenceBody
<1>2. DataAt(k, j) \in Int
  <2>1. TagAt(k, j) = "integer"
    BY CompositesAreTypes, MatchesType
  <2> QED
    BY <2>1, LoadIsNat, OperandParts
<1>3. DataAt(k, j) \in 0..Len(Body(k, i))
  BY <1>1, <1>2, IntervalIndex
<1> QED
  BY <1>1, <1>3, SplicedIsSeq

LEMMA InsertLeafMakes ==
    ASSUME NEW k, Sound(k), NEW tag \in ArrayTags \cup {"string"}
    PROVE  Makes(k, InsertLeaf(k, tag))
<1>1. PICK b : b = Spliced(Body(k, 2), DataAt(k, 1), 0, Body(k, 0))
  OBVIOUS
<1> DEFINE past == ~InRange(DataAt(k, 1), Size(k, 2))
           done == Done(PushedNew(Popped(k, 3), tag, b))
           out == Unless(k, past, "RangeCheck", done)
<1>2. ASSUME Load(k) >= 3 /\ Matches(k, 2, tag) /\ Matches(k, 1, "integer") /\ Matches(k, 0, tag)
      PROVE  Makes(k, Readable(k, 2, Readable(k, 0, out)))
  <2>1. Body(k, 0) \in Seq(Cells(k.heap, Kind(tag)))
    BY <1>2, LoadIsNat, SequenceBody
  <2>2. ASSUME ~past PROVE Makes(k, done)
    <3>1. b \in Seq(Cells(k.heap, Kind(tag)))
      BY <1>1, <1>2, <2>1, <2>2, LoadIsNat, SplicedBody
    <3> QED
      BY <1>2, <3>1, MakesSequence
  <2> HIDE DEF past, done
  <2>3. Makes(k, out)
    BY <2>2, MakesUnless, PlainErrors
  <2> HIDE DEF out
  <2> QED
    BY <2>3, MakesReadable
<1>3. Makes(k, Typed(k, <<tag, "integer", tag>>, Readable(k, 2, Readable(k, 0, out))))
  <2> HIDE DEF out
  <2> QED
    BY <1>2, MakesTyped3
<1> QED
  BY <1>1, <1>3 DEF InsertLeaf

LEMMA InsertLeafGood ==
    ASSUME NEW k, Sound(k), NEW tag \in ArrayTags \cup {"string"}
    PROVE  Good(k, InsertLeaf(k, tag))
BY InsertLeafMakes DEF Makes

LEMMA ReplaceLeafMakes ==
    ASSUME NEW k, Sound(k), NEW tag \in ArrayTags \cup {"string"}
    PROVE  Makes(k, ReplaceLeaf(k, tag))
<1>1. PICK b : b = Spliced(Body(k, 3), DataAt(k, 2), DataAt(k, 1), Body(k, 0))
  OBVIOUS
<1> DEFINE past == ~InRange(DataAt(k, 2), Size(k, 3))
           done == Done(PushedNew(Popped(k, 4), tag, b))
           some == Unless(k, DataAt(k, 1) < 0, "PositiveIntegerExpected", done)
           out == Unless(k, past, "RangeCheck", some)
<1>2. ASSUME Load(k) >= 4 /\ Matches(k, 3, tag) /\ Matches(k, 2, "integer") /\ Matches(k, 1, "integer") /\ Matches(k, 0, tag)
      PROVE  Makes(k, Readable(k, 3, Readable(k, 0, out)))
  <2>1. Body(k, 0) \in Seq(Cells(k.heap, Kind(tag)))
    BY <1>2, LoadIsNat, SequenceBody
  <2>2. DataAt(k, 1) \in Int
    <3>1. TagAt(k, 1) = "integer"
      BY <1>2, CompositesAreTypes, MatchesType
    <3> QED
      BY <1>2, <3>1, LoadIsNat, OperandParts
  <2>3. ASSUME ~past, ~(DataAt(k, 1) < 0) PROVE Makes(k, done)
    <3>1. DataAt(k, 1) \in Nat
      BY <2>2, <2>3
    <3>2. b \in Seq(Cells(k.heap, Kind(tag)))
      BY <1>1, <1>2, <2>1, <2>3, <3>1, LoadIsNat, SplicedBody
    <3> QED
      BY <1>2, <3>2, MakesSequence
  <2> HIDE DEF past, done
  <2>4. ASSUME ~past PROVE Makes(k, some)
    BY <2>3, <2>4, MakesUnless, PlainErrors
  <2> HIDE DEF some
  <2>5. Makes(k, out)
    BY <2>4, MakesUnless, PlainErrors
  <2> HIDE DEF out
  <2> QED
    BY <2>5, MakesReadable
<1>3. Makes(k, Typed(k, <<tag, "integer", "integer", tag>>, Readable(k, 3, Readable(k, 0, out))))
  <2> HIDE DEF out
  <2> QED
    BY <1>2, MakesTyped4
<1> QED
  BY <1>1, <1>3 DEF ReplaceLeaf

LEMMA ReplaceLeafGood ==
    ASSUME NEW k, Sound(k), NEW tag \in ArrayTags \cup {"string"}
    PROVE  Good(k, ReplaceLeaf(k, tag))
BY ReplaceLeafMakes DEF Makes

LEMMA EraseLeafMakes ==
    ASSUME NEW k, Sound(k), NEW tag \in ArrayTags \cup {"string"}
    PROVE  Makes(k, EraseLeaf(k, tag))
<1>0. PICK t : t = <<>>
  OBVIOUS
<1>1. PICK b : b = Spliced(Body(k, 2), DataAt(k, 1), DataAt(k, 0), t)
  OBVIOUS
<1> DEFINE past == ~InRange(DataAt(k, 1), Size(k, 2))
           done == Done(PushedNew(Popped(k, 3), tag, b))
           some == Unless(k, DataAt(k, 0) < 0, "PositiveIntegerExpected", done)
           out == Unless(k, past, "RangeCheck", some)
<1>2. ASSUME Load(k) >= 3 /\ Matches(k, 2, tag) /\ Matches(k, 1, "integer") /\ Matches(k, 0, "integer")
      PROVE  Makes(k, Readable(k, 2, out))
  <2>1. t \in Seq(Cells(k.heap, Kind(tag)))
    BY <1>0, SeqUnits
  <2>2. DataAt(k, 0) \in Int
    <3>1. TagAt(k, 0) = "integer"
      BY <1>2, CompositesAreTypes, MatchesType
    <3> QED
      BY <1>2, <3>1, LoadIsNat, OperandParts
  <2>3. ASSUME ~past, ~(DataAt(k, 0) < 0) PROVE Makes(k, done)
    <3>1. DataAt(k, 0) \in Nat
      BY <2>2, <2>3
    <3>2. b \in Seq(Cells(k.heap, Kind(tag)))
      BY <1>1, <1>2, <2>1, <2>3, <3>1, LoadIsNat, SplicedBody
    <3> QED
      BY <1>2, <3>2, MakesSequence
  <2> HIDE DEF past, done
  <2>4. ASSUME ~past PROVE Makes(k, some)
    BY <2>3, <2>4, MakesUnless, PlainErrors
  <2> HIDE DEF some
  <2>5. Makes(k, out)
    BY <2>4, MakesUnless, PlainErrors
  <2> HIDE DEF out
  <2> QED
    BY <2>5, MakesReadable
<1>3. Makes(k, Typed(k, <<tag, "integer", "integer">>, Readable(k, 2, out)))
  <2> HIDE DEF out
  <2> QED
    BY <1>2, MakesTyped3
<1> QED
  BY <1>0, <1>1, <1>3 DEF EraseLeaf

LEMMA EraseLeafGood ==
    ASSUME NEW k, Sound(k), NEW tag \in ArrayTags \cup {"string"}
    PROVE  Good(k, EraseLeaf(k, tag))
BY EraseLeafMakes DEF Makes

LEMMA IntervalLeavesGood ==
    ASSUME NEW k, Sound(k)
    PROVE  /\ Good(k, InsertArray(k)) /\ Good(k, InsertString(k))
           /\ Good(k, ReplaceArray(k)) /\ Good(k, ReplaceString(k))
           /\ Good(k, EraseArrayLike(k, "array")) /\ Good(k, EraseArrayLike(k, "procedure"))
           /\ Good(k, EraseString(k))
<1>1. "array" \in ArrayTags \cup {"string"} /\ "procedure" \in ArrayTags \cup {"string"}
      /\ "string" \in ArrayTags \cup {"string"}
  BY KindOf
<1> QED
  BY <1>1, InsertLeafGood, ReplaceLeafGood, EraseLeafGood
     DEF InsertArray, InsertString, ReplaceArray, ReplaceString, EraseArrayLike, EraseString

LEMMA InsertElementArrayMakes == ASSUME NEW k, Sound(k) PROVE Makes(k, InsertElementArray(k))
<1>0. PICK t : t = <<At(k, 0)>>
  OBVIOUS
<1>1. PICK b : b = Spliced(Body(k, 2), DataAt(k, 1), 0, t)
  OBVIOUS
<1> DEFINE past == ~InRange(DataAt(k, 1), Size(k, 2))
           done == Done(PushedNew(Popped(k, 3), "array", b))
           out == Unless(k, past, "RangeCheck", done)
<1>2. ASSUME Load(k) >= 3 /\ Matches(k, 2, "array") /\ Matches(k, 1, "integer") /\ Matches(k, 0, "any")
      PROVE  Makes(k, Readable(k, 2, out))
  <2>1. t \in Seq(Cells(k.heap, Kind("array")))
    <3>1. At(k, 0) \in Toks(k.heap)
      BY <1>2, LoadIsNat, Operands
    <3>2. t \in Seq(Toks(k.heap))
      BY <1>0, <3>1, SeqUnits
    <3> QED
      BY <3>2, KindOf DEF Cells
  <2>2. ASSUME ~past PROVE Makes(k, done)
    <3>1. b \in Seq(Cells(k.heap, Kind("array")))
      BY <1>1, <1>2, <2>1, <2>2, LoadIsNat, SplicedBody, KindOf
    <3> QED
      BY <1>2, <3>1, MakesSequence, KindOf
  <2> HIDE DEF past, done
  <2>3. Makes(k, out)
    BY <2>2, MakesUnless, PlainErrors
  <2> HIDE DEF out
  <2> QED
    BY <2>3, MakesReadable
<1>3. Makes(k, Typed(k, <<"array", "integer", "any">>, Readable(k, 2, out)))
  <2> HIDE DEF out
  <2> QED
    BY <1>2, MakesTyped3
<1> QED
  BY <1>0, <1>1, <1>3 DEF InsertElementArray

LEMMA InsertElementStringMakes == ASSUME NEW k, Sound(k) PROVE Makes(k, InsertElementString(k))
<1>0. PICK t : t = <<Char(DataAt(k, 0))>>
  OBVIOUS
<1>1. PICK b : b = Spliced(Body(k, 2), DataAt(k, 1), 0, t)
  OBVIOUS
<1> DEFINE past == ~InRange(DataAt(k, 1), Size(k, 2))
           done == Done(PushedNew(Popped(k, 3), "string", b))
           out == Unless(k, past, "RangeCheck", done)
<1>2. ASSUME Load(k) >= 3 /\ Matches(k, 2, "string") /\ Matches(k, 1, "integer") /\ Matches(k, 0, "integer")
      PROVE  Makes(k, Readable(k, 2, out))
  <2>1. DataAt(k, 0) \in Int
    <3>1. TagAt(k, 0) = "integer"
      BY <1>2, CompositesAreTypes, MatchesType
    <3> QED
      BY <1>2, <3>1, LoadIsNat, OperandParts
  <2>2. t \in Seq(Cells(k.heap, Kind("string")))
    <3>1. Char(DataAt(k, 0)) \in Characters
      BY <2>1, CharIsCharacter
    <3>2. t \in Seq(Characters)
      BY <1>0, <3>1, SeqUnits
    <3> QED
      BY <3>2, KindOf DEF Cells
  <2>3. ASSUME ~past PROVE Makes(k, done)
    <3>1. b \in Seq(Cells(k.heap, Kind("string")))
      BY <1>1, <1>2, <2>2, <2>3, LoadIsNat, SplicedBody
    <3> QED
      BY <1>2, <3>1, MakesSequence
  <2> HIDE DEF past, done
  <2>4. Makes(k, out)
    BY <2>3, MakesUnless, PlainErrors
  <2> HIDE DEF out
  <2> QED
    BY <2>4, MakesReadable
<1>3. Makes(k, Typed(k, <<"string", "integer", "integer">>, Readable(k, 2, out)))
  <2> HIDE DEF out
  <2> QED
    BY <1>2, MakesTyped3
<1> QED
  BY <1>0, <1>1, <1>3 DEF InsertElementString

LEMMA InsertelementMakes == ASSUME NEW k, Sound(k) PROVE Makes(k, InsertelementFunction(k))
<1>1. PICK out : out = (CASE TagAt(k, 2) = "array" -> InsertElementArray(k)
                          [] TagAt(k, 2) = "string" -> InsertElementString(k)
                          [] OTHER -> Raise(k, "ArgumentType"))
  OBVIOUS
<1>2. Makes(k, out)
  BY <1>1, InsertElementArrayMakes, InsertElementStringMakes, MakesRaise
<1> QED
  BY <1>1, <1>2, MakesNeeds DEF InsertelementFunction

LEMMA InsertelementGood == ASSUME NEW k, Sound(k) PROVE Good(k, InsertelementFunction(k))
BY InsertelementMakes DEF Makes


-----------------------------------------------------------------------------
(* Containers: append and prepend, eq and neq *)

\* The token below the top of a stack, replaced.
LEMMA SeqSetSecond ==
    ASSUME NEW S, NEW s \in Seq(S), Len(s) >= 2, NEW t \in S
    PROVE  SetPick(s, 1, t) \in Seq(S) /\ Len(SetPick(s, 1, t)) = Len(s)
           /\ SetPick(s, 1, t)[Len(s) - 1] = t
<1>1. Len(s) \in Nat /\ DOMAIN s = 1..Len(s)
  BY SeqParts
<1>2. PICK n \in 1..Len(s) : n = Len(s) - 1
  <2>1. PICK l \in Nat : l = Len(s)
    BY <1>1
  <2>2. l - 1 \in 1..l
    BY <2>1
  <2> QED
    BY <2>1, <2>2
<1>3. PICK r : r = [s EXCEPT ![n] = t]
  OBVIOUS
<1>4. SetPick(s, 1, t) = r
  BY <1>2, <1>3 DEF SetPick
<1>5. r \in Seq(S) /\ Len(r) = Len(s) /\ r[n] = t
  BY <1>3
<1> QED
  BY <1>2, <1>4, <1>5

\* A copy on write leaves the same container, which it may be a copy of, in its
\* slot.
LEMMA OkCowSlot ==
    ASSUME NEW k, Sound(k), Load(k) >= 2, NEW tag \in ArrayTags \cup {"string"}, TagAt(k, 1) = tag,
           k.heap[DataAt(k, 1)].acc = Unlimited,
           NEW own, own = CowSlot(k, 1), NEW x, x = DataAt(own, 1)
    PROVE  /\ Ok(k, own) /\ Load(own) = Load(k) /\ x \in Ids
           /\ own.heap[x].kind = Kind(tag) /\ own.heap[x].acc = Unlimited
           /\ Body(own, 1) = Body(k, 1) /\ own.heap[x].body = Body(k, 1)
<1>1. DataAt(k, 1) \in Ids /\ k.heap[DataAt(k, 1)].kind = Kind(tag)
      /\ k.heap[DataAt(k, 1)].body = Body(k, 1) /\ IsBody(k.heap, Kind(tag), Body(k, 1))
      /\ tag \in CompositeTags
  BY LoadIsNat, OperandParts, KindOf
<1>2. CASE References(k, DataAt(k, 1)) <= 1
  <2>1. own = k
    BY <1>2 DEF CowSlot
  <2> QED
    BY <1>1, <2>1, OkSame
<1>3. CASE ~(References(k, DataAt(k, 1)) <= 1) /\ FreeIds(k) = {}
  <2>1. own = [k EXCEPT !.room = FALSE]
    BY <1>3 DEF CowSlot
  <2>2. own = PushedNew(k, tag, Body(k, 1))
    BY <1>3, <2>1 DEF PushedNew
  <2>3. Ok(k, own) /\ own.heap = k.heap /\ own.st = k.st
    <3>1. PICK b : b = Body(k, 1) /\ IsBody(k.heap, Kind(tag), b)
      BY <1>1
    <3>2. FreeIds(k) = {} /\ own = PushedNew(k, tag, b) /\ tag \in CompositeTags
      BY <1>1, <1>3, <2>2, <3>1
    <3>3. Ok(k, PushedNew(k, tag, b))
      BY <3>1, <3>2, OkPushedNew
    <3>4. PushedNew(k, tag, b).heap = k.heap /\ PushedNew(k, tag, b).st = k.st
      BY <2>1, <2>2, <3>1 DEF Sound, Shape
    <3> QED
      BY <3>2, <3>3, <3>4
  <2> QED
    BY <1>1, <2>3 DEF Load, At, TagAt, DataAt, Body, Payload
<1>4. CASE ~(References(k, DataAt(k, 1)) <= 1) /\ FreeIds(k) # {}
  <2>1. PICK y : y = LeastFree(k)
    OBVIOUS
  <2>2. y \in Ids /\ k.heap[y].kind = "free"
    BY <1>4, <2>1, LeastFreeIsFree
  <2>3. PICK new : new = Fresh(tag, Body(k, 1))
    OBVIOUS
  <2>4. own = [k EXCEPT !.heap[y] = new, !.st = SetPick(@, 1, <<tag, y>>)]
    BY <1>4, <2>1, <2>3 DEF CowSlot
  <2>5. PICK s : s = SetPick(k.st, 1, <<tag, y>>)
    OBVIOUS
  <2>6. PICK h : h = [k.heap EXCEPT ![y] = new]
    OBVIOUS
  <2>7. DOMAIN k.heap = Ids /\ WellFormed(k.heap) /\ Shape(k)
    BY DEF Sound, WellFormed
  <2>8. DOMAIN h = Ids /\ h[y] = new /\ \A z \in Ids : z # y => h[z] = k.heap[z]
    BY <2>2, <2>6, <2>7
  <2>9. WellFormed(h) /\ Kept(k.heap, h)
    BY <1>1, <2>2, <2>3, <2>7, <2>8, HeapGrows
  <2>10. own = [st |-> s, es |-> k.es, heap |-> h, room |-> k.room]
    BY <2>4, <2>5, <2>6, <2>7 DEF Shape
  <2>11. new.kind = Kind(tag) /\ new.acc = Unlimited /\ new.body = Body(k, 1)
    BY <1>1, <2>3, FreshIsPayload
  <2>12. Toks(k.heap) \subseteq Toks(h)
    BY <2>9, ToksKept
  <2>13. <<tag, y>> \in Toks(h)
    BY <1>1, <2>2, <2>8, <2>11, RetagIsToken
  <2>14. k.st \in Seq(Toks(h)) /\ k.es \in Seq(Toks(h))
    BY <2>12, SeqMono DEF Sound
  <2>15. Len(k.st) >= 2 /\ Len(k.st) \in Nat
    BY LoadIsNat DEF Load
  <2>16. s \in Seq(Toks(h)) /\ Len(s) = Len(k.st) /\ s[Len(k.st) - 1] = <<tag, y>>
    <3>1. PICK t : t = <<tag, y>> /\ t \in Toks(h)
      BY <2>13
    <3>2. s = SetPick(k.st, 1, t)
      BY <2>5, <3>1
    <3>3. SetPick(k.st, 1, t) \in Seq(Toks(h)) /\ Len(SetPick(k.st, 1, t)) = Len(k.st)
          /\ SetPick(k.st, 1, t)[Len(k.st) - 1] = t
      <4>1. PICK q : q = k.st
        OBVIOUS
      <4>2. PICK S : S = Toks(h)
        OBVIOUS
      <4>3. q \in Seq(S) /\ Len(q) >= 2 /\ t \in S
        BY <2>14, <2>15, <3>1, <4>1, <4>2
      <4>4. SetPick(q, 1, t) \in Seq(S) /\ Len(SetPick(q, 1, t)) = Len(q)
            /\ SetPick(q, 1, t)[Len(q) - 1] = t
        BY <4>3, SeqSetSecond, Zenon
      <4> QED
        BY <4>1, <4>2, <4>4
    <3> QED
      BY <3>1, <3>2, <3>3
  <2>17. Ok(k, own)
    BY <2>9, <2>10, <2>14, <2>16 DEF Ok, Sound, Shape
  <2>18. At(own, 1) = <<tag, y>> /\ Load(own) = Load(k) /\ own.heap = h
    BY <2>10, <2>16 DEF At, Pick, Load
  <2>19. x = y
    BY <2>18 DEF DataAt, Data
  <2>20. Body(own, 1) = h[y].body
    BY <2>18 DEF Body, Payload, Data
  <2> QED
    BY <2>2, <2>8, <2>11, <2>17, <2>18, <2>19, <2>20
<1> QED
  BY <1>2, <1>3, <1>4

LEMMA ExtendedGood ==
    ASSUME NEW k, Sound(k), Load(k) >= 2, NEW tag \in ArrayTags \cup {"string"}, TagAt(k, 1) = tag,
           k.heap[DataAt(k, 1)].acc = Unlimited,
           NEW own, own = CowSlot(k, 1), NEW b \in Seq(Cells(k.heap, Kind(tag)))
    PROVE  Good(k, Extended(own, b))
<1>1. PICK x : x = DataAt(own, 1)
  OBVIOUS
<1>2. Ok(k, own) /\ Load(own) = Load(k) /\ x \in Ids
      /\ own.heap[x].kind = Kind(tag) /\ own.heap[x].acc = Unlimited
  BY <1>1, OkCowSlot
<1>3. IsBody(k.heap, Kind(tag), b)
  BY CellsBody
<1>4. IsBody(own.heap, Kind(tag), b)
  BY <1>2, <1>3, BodyKept, KindOf, CellsBody DEF Ok
<1>5. Kind(tag) # "free"
  BY KindOf
<1>6. PICK g : g = Popped(Written(own, x, b), 1)
  OBVIOUS
<1>7. Good(own, Done(g))
  <2>1. Sound(own) /\ 1 <= Load(own) /\ own.heap[x].kind # "free" /\ IsBody(own.heap, own.heap[x].kind, b)
    BY <1>2, <1>4, <1>5, LoadIsNat DEF Ok
  <2> QED
    BY <1>2, <1>6, <2>1, GoodWritten
<1>8. Ok(k, g)
  BY <1>2, <1>7, OkTrans DEF Good, Done
<1> QED
  BY <1>1, <1>6, <1>8, GoodDone DEF Extended

\* The two ends of a container and the value that goes there.
LEMMA ExtendingGood ==
    ASSUME NEW k, Sound(k), Load(k) >= 2, NEW tag \in ArrayTags \cup {"string"}, Matches(k, 1, tag),
           NEW v \in Cells(k.heap, Kind(tag)), NEW own, own = CowSlot(k, 1)
    PROVE  /\ Good(k, Writable(k, 1, Extended(own, Append(Body(own, 1), v))))
           /\ Good(k, Writable(k, 1, Extended(own, <<v>> \o Body(own, 1))))
<1>1. TagAt(k, 1) = tag /\ Body(k, 1) \in Seq(Cells(k.heap, Kind(tag))) /\ tag \in CompositeTags
  BY LoadIsNat, SequenceBody
<1>2. Payload(k, At(k, 1)) = k.heap[DataAt(k, 1)]
  BY <1>1, LoadIsNat, OperandParts
<1>3. PICK a : a = Append(Body(own, 1), v)
  OBVIOUS
<1>4. PICK b : b = <<v>> \o Body(own, 1)
  OBVIOUS
<1>5. ASSUME k.heap[DataAt(k, 1)].acc = Unlimited PROVE Good(k, Extended(own, a)) /\ Good(k, Extended(own, b))
  <2>1. Body(own, 1) = Body(k, 1)
    BY <1>1, <1>5, OkCowSlot
  <2>2. a \in Seq(Cells(k.heap, Kind(tag)))
    BY <1>1, <1>3, <2>1, SeqAppend
  <2>3. PICK u : u = <<v>>
    OBVIOUS
  <2>4. u \in Seq(Cells(k.heap, Kind(tag)))
    BY <2>3, SeqUnits
  <2>5. b \in Seq(Cells(k.heap, Kind(tag)))
    BY <1>1, <1>4, <2>1, <2>3, <2>4, SeqConcat
  <2> QED
    BY <1>1, <1>5, <2>2, <2>5, ExtendedGood
<1>6. Good(k, Writable(k, 1, Extended(own, a))) /\ Good(k, Writable(k, 1, Extended(own, b)))
  BY <1>2, <1>5, GoodWritable
<1> QED
  BY <1>3, <1>4, <1>6

LEMMA ExtendArrayLikeGood ==
    ASSUME NEW k, Sound(k), NEW tag \in ArrayTags
    PROVE  Good(k, AppendArrayLike(k, tag)) /\ Good(k, PrependArrayLike(k, tag))
<1>1. PICK own : own = CowSlot(k, 1)
  OBVIOUS
<1>2. PICK a : a = Extended(own, Append(Body(own, 1), At(k, 0)))
  OBVIOUS
<1>3. PICK b : b = Extended(own, <<At(k, 0)>> \o Body(own, 1))
  OBVIOUS
<1>4. ASSUME Load(k) >= 2 /\ Matches(k, 1, tag) /\ Matches(k, 0, "any")
      PROVE  Good(k, Writable(k, 1, a)) /\ Good(k, Writable(k, 1, b))
  <2>1. At(k, 0) \in Cells(k.heap, Kind(tag))
    BY <1>4, LoadIsNat, Operands, KindOf DEF Cells
  <2> QED
    BY <1>1, <1>2, <1>3, <1>4, <2>1, ExtendingGood
<1>5. Good(k, Typed(k, <<tag, "any">>, Writable(k, 1, a))) /\ Good(k, Typed(k, <<tag, "any">>, Writable(k, 1, b)))
  BY <1>4, GoodTyped2
<1> QED
  BY <1>1, <1>2, <1>3, <1>5 DEF AppendArrayLike, PrependArrayLike, CowArraySlot

LEMMA ExtendStringGood == ASSUME NEW k, Sound(k) PROVE Good(k, AppendString(k)) /\ Good(k, PrependString(k))
<1>1. PICK own : own = CowSlot(k, 1)
  OBVIOUS
<1>2. PICK a : a = Extended(own, Append(Body(own, 1), Char(DataAt(k, 0))))
  OBVIOUS
<1>3. PICK b : b = Extended(own, <<Char(DataAt(k, 0))>> \o Body(own, 1))
  OBVIOUS
<1>4. ASSUME Load(k) >= 2 /\ Matches(k, 1, "string") /\ Matches(k, 0, "integer")
      PROVE  Good(k, Writable(k, 1, a)) /\ Good(k, Writable(k, 1, b))
  <2>1. DataAt(k, 0) \in Int
    <3>1. TagAt(k, 0) = "integer"
      BY <1>4, CompositesAreTypes, MatchesType
    <3> QED
      BY <1>4, <3>1, LoadIsNat, OperandParts
  <2>2. Char(DataAt(k, 0)) \in Cells(k.heap, Kind("string"))
    BY <2>1, CharIsCharacter, KindOf DEF Cells
  <2> QED
    BY <1>1, <1>2, <1>3, <1>4, <2>2, ExtendingGood
<1>5. Good(k, Typed(k, <<"string", "integer">>, Writable(k, 1, a)))
      /\ Good(k, Typed(k, <<"string", "integer">>, Writable(k, 1, b)))
  BY <1>4, GoodTyped2
<1> QED
  BY <1>1, <1>2, <1>3, <1>5 DEF AppendString, PrependString, CowStringSlot

LEMMA AppendGood == ASSUME NEW k, Sound(k) PROVE Good(k, AppendFunction(k)) /\ Good(k, PrependFunction(k))
<1>1. PICK a : a = (CASE TagAt(k, 1) \in {"array", "procedure"} -> AppendArrayLike(k, TagAt(k, 1))
                      [] TagAt(k, 1) = "string" -> AppendString(k)
                      [] OTHER -> Raise(k, "ArgumentType"))
  OBVIOUS
<1>2. PICK b : b = (CASE TagAt(k, 1) \in {"array", "procedure"} -> PrependArrayLike(k, TagAt(k, 1))
                      [] TagAt(k, 1) = "string" -> PrependString(k)
                      [] OTHER -> Raise(k, "ArgumentType"))
  OBVIOUS
<1>3. TagAt(k, 1) \in {"array", "procedure"} =>
          Good(k, AppendArrayLike(k, TagAt(k, 1))) /\ Good(k, PrependArrayLike(k, TagAt(k, 1)))
  BY ExtendArrayLikeGood, KindOf
<1>4. Good(k, a) /\ Good(k, b)
  BY <1>1, <1>2, <1>3, ExtendStringGood, GoodSame
<1> QED
  BY <1>1, <1>2, <1>4, GoodNeeds2 DEF AppendFunction, PrependFunction

LEMMA EqGood == ASSUME NEW k, Sound(k) PROVE Good(k, EqFunction(k)) /\ Good(k, NeqFunction(k))
<1>1. TokenEq(k, At(k, 1), At(k, 0)) \in BOOLEAN
  BY DEF TokenEq, Equal
<1>2. (~TokenEq(k, At(k, 1), At(k, 0))) \in BOOLEAN
  BY <1>1
<1>3. 2 \in Nat
  OBVIOUS
<1>4. PICK a : a = Done(Pushed(Popped(k, 2), Bool(TokenEq(k, At(k, 1), At(k, 0)))))
  OBVIOUS
<1>5. PICK b : b = Done(Pushed(Popped(k, 2), Bool(~TokenEq(k, At(k, 1), At(k, 0)))))
  OBVIOUS
<1>6. Load(k) >= 2 => Good(k, a)
  BY <1>1, <1>3, <1>4, GoodAnotherBool, Zenon
<1>7. Load(k) >= 2 => Good(k, b)
  BY <1>2, <1>3, <1>5, GoodAnotherBool, Zenon
<1>8. ASSUME Load(k) >= 2
      PROVE  Good(k, ReadableString(k, 1, ReadableString(k, 0, a)))
             /\ Good(k, ReadableString(k, 1, ReadableString(k, 0, b)))
  <2>1. Good(k, ReadableString(k, 0, a)) /\ Good(k, ReadableString(k, 0, b))
    BY <1>6, <1>7, <1>8, GoodReadable DEF ReadableString
  <2> QED
    BY <2>1, GoodReadable DEF ReadableString
<1> QED
  BY <1>4, <1>5, <1>8, GoodNeeds2 DEF EqFunction, NeqFunction

-----------------------------------------------------------------------------
(* Arrays *)

LEMMA ArrayMakes ==
    ASSUME NEW k, Sound(k)
    PROVE  Makes(k, ArrayFunction(k))
<1>1. PICK n : n = DataAt(k, 0)
  OBVIOUS
<1>2. PICK b : b = [i \in 1..n |-> IntTok(0)]
  OBVIOUS
<1> DEFINE done == Replaced(k, 1, b)
           out == Unless(k, n < 0, "C++Exception", done)
<1>3. ASSUME Load(k) >= 1 /\ Matches(k, 0, "integer") PROVE Makes(k, out)
  <2>1. n \in Int
    BY <1>1, <1>3, LoadIsNat, OperandParts, CompositesAreTypes, MatchesType
  <2>2. IntTok(0) \in Toks(k.heap)
    BY ScalarsAreTokens
  <2>3. b \in Seq(Toks(k.heap))
    BY <1>2, <2>1, <2>2, SeqBuilt
  <2>4. Makes(k, done)
    BY <1>3, <2>3, MakesReplaced
  <2> HIDE DEF done
  <2> QED
    BY <2>4, MakesUnless, PlainErrors
<1> HIDE DEF out
<1>4. Makes(k, Typed(k, <<"integer">>, out))
  BY <1>3, MakesTyped1
<1> QED
  BY <1>1, <1>2, <1>4 DEF ArrayFunction, out

LEMMA ArrayGood ==
    ASSUME NEW k, Sound(k)
    PROVE  Good(k, ArrayFunction(k))
BY ArrayMakes DEF Makes

LEMMA NonEmptyGood ==
    ASSUME NEW k, Sound(k), NEW out,
           Load(k) >= 1 /\ TagAt(k, 0) \in ArrayTags /\ Size(k, 0) # 0 => Good(k, out)
    PROVE  Good(k, NonEmptyArrayLike(k, out))
<1> DEFINE cut == Unless(k, Size(k, 0) = 0, "RangeCheck", out)
           typed == Unless(k, TagAt(k, 0) \notin ArrayTags, "ArgumentType", cut)
<1>1. ASSUME Load(k) >= 1, ~(TagAt(k, 0) \notin ArrayTags) PROVE Good(k, cut)
  <2>1. ~(Size(k, 0) = 0) => Good(k, out)
    BY <1>1
  <2> QED
    BY <2>1, GoodUnless, PlainErrors
<1> HIDE DEF cut
<1>2. ASSUME Load(k) >= 1 PROVE Good(k, typed)
  BY <1>1, <1>2, GoodUnless, PlainErrors
<1> HIDE DEF typed
<1>3. Good(k, Needs(k, 1, typed))
  BY <1>2, GoodNeeds
<1> QED
  BY <1>3 DEF NonEmptyArrayLike, typed, cut

LEMMA NonEmptyMakes ==
    ASSUME NEW k, Sound(k), NEW out,
           Load(k) >= 1 /\ TagAt(k, 0) \in ArrayTags /\ Size(k, 0) # 0 => Makes(k, out)
    PROVE  Makes(k, NonEmptyArrayLike(k, out))
<1> DEFINE cut == Unless(k, Size(k, 0) = 0, "RangeCheck", out)
           typed == Unless(k, TagAt(k, 0) \notin ArrayTags, "ArgumentType", cut)
<1>1. ASSUME Load(k) >= 1, ~(TagAt(k, 0) \notin ArrayTags) PROVE Makes(k, cut)
  <2>1. ~(Size(k, 0) = 0) => Makes(k, out)
    BY <1>1
  <2> QED
    BY <2>1, MakesUnless, PlainErrors
<1> HIDE DEF cut
<1>2. ASSUME Load(k) >= 1 PROVE Makes(k, typed)
  BY <1>1, <1>2, MakesUnless, PlainErrors
<1> HIDE DEF typed
<1>3. Makes(k, Needs(k, 1, typed))
  BY <1>2, MakesNeeds
<1> QED
  BY <1>3 DEF NonEmptyArrayLike, typed, cut

LEMMA ArrayOperand ==
    ASSUME NEW k, Sound(k), NEW i \in {0, 1, 2}, i < Load(k), TagAt(k, i) \in ArrayTags
    PROVE  /\ Body(k, i) \in Seq(Toks(k.heap)) /\ Size(k, i) = Len(Body(k, i)) /\ Size(k, i) \in Nat
           /\ DOMAIN Body(k, i) = 1..Len(Body(k, i))
           /\ \A n \in 1..Len(Body(k, i)) : Body(k, i)[n] \in Toks(k.heap)
<1>1. Body(k, i) \in Seq(Toks(k.heap)) /\ Size(k, i) = Len(Body(k, i)) /\ Size(k, i) \in Nat
  BY LoadIsNat, SequenceOperand
<1> QED
  BY <1>1, SeqParts

LEMMA FirstGood ==
    ASSUME NEW k, Sound(k)
    PROVE  Good(k, FirstFunction(k))
<1>1. PICK t : t = Body(k, 0)[1]
  OBVIOUS
<1>2. ASSUME Load(k) >= 1 /\ TagAt(k, 0) \in ArrayTags /\ Size(k, 0) # 0
      PROVE  Good(k, Done(SlotSet(k, 0, t)))
  <2>1. 1 \in 1..Len(Body(k, 0)) /\ \A n \in 1..Len(Body(k, 0)) : Body(k, 0)[n] \in Toks(k.heap)
    BY <1>2, LoadIsNat, ArrayOperand
  <2>2. t \in Toks(k.heap)
    BY <1>1, <2>1
  <2> QED
    BY <1>2, <2>2, GoodTop
<1> QED
  BY <1>1, <1>2, NonEmptyGood DEF FirstFunction

LEMMA RestMakes ==
    ASSUME NEW k, Sound(k)
    PROVE  Makes(k, RestFunction(k))
<1>1. PICK b : b = Tail(Body(k, 0))
  OBVIOUS
<1>2. PICK tag : tag = TagAt(k, 0)
  OBVIOUS
<1>3. ASSUME Load(k) >= 1 /\ TagAt(k, 0) \in ArrayTags /\ Size(k, 0) # 0
      PROVE  Makes(k, Done(PushedNew(Popped(k, 1), tag, b)))
  <2>1. Body(k, 0) \in Seq(Toks(k.heap)) /\ Size(k, 0) = Len(Body(k, 0))
    BY <1>3, LoadIsNat, ArrayOperand
  <2>2. b \in Seq(Toks(k.heap))
    <3>1. PICK s : s = Body(k, 0) /\ s \in Seq(Toks(k.heap)) /\ Len(s) # 0
      BY <1>3, <2>1
    <3>2. PICK S : S = Toks(k.heap)
      OBVIOUS
    <3>3. s # <<>> /\ s \in Seq(S)
      BY <3>1, <3>2, SeqParts
    <3>4. Tail(s) \in Seq(S)
      BY <3>3
    <3> QED
      BY <1>1, <3>1, <3>2, <3>4
  <2>3. IsBody(k.heap, Kind(tag), b)
    BY <1>2, <1>3, <2>2, ArrayBody
  <2> QED
    BY <1>2, <1>3, <2>3, LoadIsNat, CompositesAreTypes, MakesNew
<1>4. Makes(k, NonEmptyArrayLike(k, Done(PushedNew(Popped(k, 1), tag, b))))
  BY <1>3, NonEmptyMakes
<1> QED
  BY <1>1, <1>2, <1>4 DEF RestFunction

LEMMA RestGood ==
    ASSUME NEW k, Sound(k)
    PROVE  Good(k, RestFunction(k))
BY RestMakes DEF Makes

LEMMA ReversedIsSeq ==
    ASSUME NEW S, NEW s \in Seq(S)
    PROVE  Reverse(s) \in Seq(S)
<1>1. PICK f : f = Reverse(s)
  OBVIOUS
<1>2. PICK n \in Nat : n = Len(s)
  BY SeqParts
<1>3. f = [i \in 1..n |-> s[(n - i) + 1]]
  BY <1>1, <1>2 DEF Reverse
<1>4. ASSUME NEW i \in 1..n PROVE f[i] \in S
  <2>1. (n - i) + 1 \in 1..n
    OBVIOUS
  <2> QED
    BY <1>2, <1>3, <2>1, SeqParts
<1>5. f = [i \in 1..n |-> f[i]]
  BY <1>3
<1> QED
  BY <1>1, <1>4, <1>5, SeqBuilt

LEMMA ReverseMakes ==
    ASSUME NEW k, Sound(k)
    PROVE  Makes(k, ReverseFunction(k))
<1>1. PICK b : b = Reverse(Body(k, 0))
  OBVIOUS
<1> DEFINE out == Replaced(k, 1, b)
<1>2. ASSUME Load(k) >= 1 /\ Matches(k, 0, "array") PROVE Makes(k, out)
  <2>1. TagAt(k, 0) \in ArrayTags
    BY <1>2, CompositesAreTypes, MatchesType, KindOf
  <2>2. Body(k, 0) \in Seq(Toks(k.heap))
    BY <1>2, <2>1, LoadIsNat, ArrayOperand
  <2>3. b \in Seq(Toks(k.heap))
    BY <1>1, <2>2, ReversedIsSeq
  <2> QED
    BY <1>2, <2>3, MakesReplaced
<1> HIDE DEF out
<1>3. Makes(k, Typed(k, <<"array">>, out))
  BY <1>2, MakesTyped1
<1> QED
  BY <1>1, <1>3 DEF ReverseFunction, out

LEMMA ReverseGood ==
    ASSUME NEW k, Sound(k)
    PROVE  Good(k, ReverseFunction(k))
BY ReverseMakes DEF Makes

LEMMA RotateMakes ==
    ASSUME NEW k, Sound(k)
    PROVE  Makes(k, RotateFunction(k))
<1>1. PICK s : s = Body(k, 1)
  OBVIOUS
<1>2. PICK d : d = DataAt(k, 0) % Len(s)
  OBVIOUS
<1>3. PICK b : b = IF s = <<>> THEN s ELSE SubSeq(s, Len(s) - d + 1, Len(s)) \o SubSeq(s, 1, Len(s) - d)
  OBVIOUS
<1> DEFINE out == Replaced(k, 2, b)
<1>4. ASSUME Load(k) >= 2 /\ Matches(k, 1, "array") /\ Matches(k, 0, "integer") PROVE Makes(k, out)
  <2>1. TagAt(k, 1) \in ArrayTags /\ TagAt(k, 0) = "integer"
    BY <1>4, CompositesAreTypes, MatchesType, KindOf
  <2>2. s \in Seq(Toks(k.heap)) /\ DataAt(k, 0) \in Int
    BY <1>1, <1>4, <2>1, LoadIsNat, ArrayOperand, OperandParts
  <2>3. PICK S : S = Toks(k.heap) /\ s \in Seq(S)
    BY <2>2
  <2>4. b \in Seq(S)
    <3>1. CASE s = <<>>
      BY <1>3, <2>3, <3>1
    <3>2. CASE s # <<>>
      <4>1. PICK n \in Nat : n = Len(s) /\ n # 0
        BY <2>3, <3>2, SeqParts
      <4>2. PICK e \in 0..(n - 1) : e = d
        BY <1>2, <2>2, <4>1
      <4>3. PICK j \in Int : j = n - e /\ j <= n /\ j >= 0
        BY <4>2
      <4>a. PICK i \in Int : i = n - e + 1 /\ i >= 1
        BY <4>3
      <4>4. SubSeq(s, i, n) \in Seq(S) /\ SubSeq(s, 1, j) \in Seq(S)
        BY <2>3, <4>1, <4>3, <4>a, SeqCut
      <4>5. SubSeq(s, i, n) \o SubSeq(s, 1, j) \in Seq(S)
        BY <4>4, SeqConcat
      <4> QED
        BY <1>3, <3>2, <4>1, <4>2, <4>3, <4>a, <4>5
    <3> QED
      BY <3>1, <3>2
  <2> QED
    BY <1>4, <2>3, <2>4, MakesReplaced
<1> HIDE DEF out
<1>5. Makes(k, Typed(k, <<"array", "integer">>, out))
  BY <1>4, MakesTyped2
<1> QED
  BY <1>1, <1>2, <1>3, <1>5 DEF RotateFunction, out

LEMMA RotateGood ==
    ASSUME NEW k, Sound(k)
    PROVE  Good(k, RotateFunction(k))
BY RotateMakes DEF Makes

LEMMA ArrayloadGood ==
    ASSUME NEW k, Sound(k)
    PROVE  Good(k, ArrayloadFunction(k))
<1>1. PICK s : s = Drop(k.st, 1) \o Body(k, 0) \o <<IntTok(Size(k, 0))>>
  OBVIOUS
<1>2. PICK g : g = [k EXCEPT !.st = s]
  OBVIOUS
<1>3. ASSUME Load(k) >= 1 /\ Matches(k, 0, "array") PROVE Good(k, Done(g))
  <2>1. TagAt(k, 0) \in ArrayTags
    BY <1>3, CompositesAreTypes, MatchesType, KindOf
  <2>2. PICK S : S = Toks(k.heap)
    OBVIOUS
  <2>3. Body(k, 0) \in Seq(S) /\ Size(k, 0) \in Nat
    BY <1>3, <2>1, <2>2, LoadIsNat, ArrayOperand
  <2>4. IntTok(Size(k, 0)) \in S
    BY <2>2, <2>3, ScalarsAreTokens
  <2>5. Drop(k.st, 1) \in Seq(S)
    <3>1. k.st \in Seq(S) /\ 1 \in 0..Len(k.st)
      BY <1>3, <2>2, LoadIsNat DEF Sound, Load
    <3> QED
      BY <3>1, SeqDrop
  <2>6. PICK t : t = <<IntTok(Size(k, 0))>> /\ t \in Seq(S)
    BY <2>4, SeqUnits
  <2>7. Drop(k.st, 1) \o Body(k, 0) \in Seq(S)
    BY <2>3, <2>5, SeqConcat
  <2>8. (Drop(k.st, 1) \o Body(k, 0)) \o t \in Seq(S)
    BY <2>6, <2>7, SeqConcat
  <2>9. s \in Seq(S)
    BY <1>1, <2>6, <2>8
  <2> QED
    BY <1>2, <2>2, <2>9, GoodStack
<1>4. g = [k EXCEPT !.st = Drop(@, 1) \o Body(k, 0) \o <<IntTok(Size(k, 0))>>]
  BY <1>1, <1>2 DEF Sound, Shape
<1>5. Good(k, Typed(k, <<"array">>, Done(g)))
  BY <1>3, GoodTyped1
<1> QED
  BY <1>4, <1>5 DEF ArrayloadFunction

LEMMA ArraystoreMakes ==
    ASSUME NEW k, Sound(k)
    PROVE  Makes(k, ArraystoreFunction(k))
<1>1. PICK n : n = DataAt(k, 0)
  OBVIOUS
<1>2. PICK b : b = SubSeq(k.st, Load(k) - n, Load(k) - 1)
  OBVIOUS
<1>3. PICK l : l = n + 1
  OBVIOUS
<1> DEFINE done == Replaced(k, l, b)
           cut == Unless(k, Load(k) < l, "StackUnderflow", done)
           out == Unless(k, n < 0, "RangeCheck", cut)
<1>4. ASSUME Load(k) >= 1 /\ Matches(k, 0, "integer") PROVE Makes(k, out)
  <2>1. n \in Int /\ l \in Int /\ Load(k) \in Nat
    BY <1>1, <1>3, <1>4, LoadIsNat, OperandParts, CompositesAreTypes, MatchesType
  <2>2. ASSUME ~(n < 0), ~(Load(k) < l) PROVE Makes(k, done)
    <3>1. l \in Nat /\ l <= Load(k)
      BY <1>3, <2>1, <2>2
    <3>2. PICK i \in Int, j \in Int : i = Load(k) - n /\ j = Load(k) - 1 /\ i >= 1 /\ j <= Load(k)
      BY <1>3, <2>1, <2>2
    <3>3. k.st \in Seq(Toks(k.heap)) /\ j <= Len(k.st)
      BY <3>2 DEF Sound, Load
    <3>4. SubSeq(k.st, i, j) \in Seq(Toks(k.heap))
      BY <3>2, <3>3, SeqCut
    <3> QED
      BY <1>2, <3>1, <3>2, <3>4, MakesReplaced
  <2> HIDE DEF done
  <2>3. ASSUME ~(n < 0) PROVE Makes(k, cut)
    BY <2>2, <2>3, MakesUnless, PlainErrors
  <2> HIDE DEF cut
  <2> QED
    BY <2>3, MakesUnless, PlainErrors
<1> HIDE DEF out
<1>5. Makes(k, Typed(k, <<"integer">>, out))
  BY <1>4, MakesTyped1
<1> QED
  BY <1>1, <1>2, <1>3, <1>5 DEF ArraystoreFunction, out, cut, done

LEMMA ArraystoreGood ==
    ASSUME NEW k, Sound(k)
    PROVE  Good(k, ArraystoreFunction(k))
BY ArraystoreMakes DEF Makes

LEMMA ArraycreateMakes ==
    ASSUME NEW k, Sound(k)
    PROVE  Makes(k, ArraycreateFunction(k))
<1>1. PICK n : n = Len(AboveMark(k)) + 1
  OBVIOUS
<1> DEFINE done == Done(PushedNew(Popped(k, n), "array", AboveMark(k)))
<1>2. ASSUME HasMark(k) PROVE Makes(k, done)
  <2>1. AboveMark(k) \in Seq(Toks(k.heap)) /\ n \in Nat /\ n <= Load(k)
    BY <1>1, <1>2, AboveMarkFits
  <2>2. Makes(k, Replaced(k, n, AboveMark(k)))
    BY <2>1, MakesReplaced
  <2> QED
    BY <2>2 DEF Replaced
<1> HIDE DEF done
<1>3. Makes(k, Unless(k, ~HasMark(k), "SyntaxError", done))
  BY <1>2, MakesUnless, PlainErrors
<1> QED
  BY <1>1, <1>3 DEF ArraycreateFunction, done

LEMMA ArraycreateGood ==
    ASSUME NEW k, Sound(k)
    PROVE  Good(k, ArraycreateFunction(k))
BY ArraycreateMakes DEF Makes

LEMMA ValidGood ==
    ASSUME NEW k, Sound(k)
    PROVE  Good(k, ValidFunction(k))
<1>1. Load(k) >= 1 => Good(k, Done(SlotSet(k, 0, Bool(TRUE))))
  BY ScalarsAreTokens, GoodTop
<1> QED
  BY <1>1, GoodTyped1 DEF ValidFunction

\* The elements of a range are numbers.
LEMMA RangeOfIsSeq ==
    ASSUME NEW h, NEW start \in Int, NEW stop \in Int, NEW di \in Int
    PROVE  RangeOf(start, stop, di) \in Seq(Toks(h))
<1>1. CASE ~((di > 0 /\ stop >= start) \/ (di < 0 /\ stop <= start))
  BY <1>1, SeqUnits DEF RangeOf
<1>2. CASE (di > 0 /\ stop >= start) \/ (di < 0 /\ stop <= start)
  <2>1. PICK l \in Int : l = stop - start
    OBVIOUS
  <2>2. di # 0
    BY <1>2
  <2>3. PICK q \in Int : q = Quot(l, di)
    BY <2>2, QuotientsAreInts
  <2>4. PICK n \in Int : n = 1 + q
    OBVIOUS
  <2>5. PICK f : f = [j \in 1..n |-> IntTok(start + (j - 1) * di)]
    OBVIOUS
  <2>6. ASSUME NEW j \in 1..n PROVE f[j] \in Toks(h)
    <3>1. PICK e \in Int : e = start + (j - 1) * di
      OBVIOUS
    <3>2. f[j] = IntTok(e)
      BY <2>5, <3>1
    <3> QED
      BY <3>2, ScalarsAreTokens
  <2>7. f = [j \in 1..n |-> f[j]]
    BY <2>5
  <2>8. f \in Seq(Toks(h))
    BY <2>6, <2>7, SeqBuilt
  <2> QED
    BY <1>2, <2>1, <2>3, <2>4, <2>5, <2>8 DEF RangeOf
<1> QED
  BY <1>1, <1>2

LEMMA RangeOfDoublesIsSeq ==
    ASSUME NEW h, NEW start \in DoubleValues, NEW stop \in DoubleValues, NEW di \in DoubleValues
    PROVE  RangeOfDoubles(start, stop, di) \in Seq(Toks(h))
<1> DEFINE on == \/ Smaller(Zero, di) /\ ~Smaller(stop, start)
                 \/ Smaller(di, Zero) /\ ~Smaller(start, stop)
<1>1. CASE ~on
  BY <1>1, SeqUnits DEF RangeOfDoubles
<1>2. CASE on
  <2>1. di # Zero
    <3>1. ~Smaller(Zero, Zero)
      BY DEF Smaller, Zero, Fin, IsFinite
    <3> QED
      BY <1>2, <3>1
  <2>2. PICK x \in DoubleValues : x = Over(Minus(stop, start), di)
    BY <2>1, MinusIsDouble, OverIsDouble
  <2>3. PICK q \in Int : q = Truncated(x)[2]
    BY CeilIsDouble, DoubleParts
  <2>4. PICK n \in Int : n = 1 + q \div Unit
    BY DEF Unit
  <2>5. PICK f : f = [j \in 1..n |-> <<"double", Plus(start, Times(FromLong(j - 1), di))>>]
    OBVIOUS
  <2>6. ASSUME NEW j \in 1..n PROVE f[j] \in Toks(h)
    <3>1. PICK e \in Int : e = j - 1
      OBVIOUS
    <3>2. PICK y \in DoubleValues : y = Plus(start, Times(FromLong(e), di))
      BY FromLongIsDouble, TimesIsDouble, PlusIsDouble
    <3>3. f[j] = Dbl(y)
      BY <2>5, <3>1, <3>2 DEF Dbl
    <3> QED
      BY <3>3, ScalarsAreTokens
  <2>7. f = [j \in 1..n |-> f[j]]
    BY <2>5
  <2>8. f \in Seq(Toks(h))
    BY <2>6, <2>7, SeqBuilt
  <2>9. RangeOfDoubles(start, stop, di) = f
    BY <1>2, <2>2, <2>3, <2>4, <2>5 DEF RangeOfDoubles
  <2> QED
    BY <2>8, <2>9
<1> QED
  BY <1>1, <1>2

LEMMA NumberIsDouble ==
    ASSUME NEW h, NEW t \in Toks(h), Tag(t) \in NumberTags
    PROVE  AsDouble(t) \in DoubleValues
BY TokenData, FromLongIsDouble DEF AsDouble, NumberTags

\* Range behind its checks.
Ranged(k, n, bad, zero, b) ==
    Unless(k, n \notin 1..3, "RangeCheck",
    Unless(k, bad, "ArgumentType",
    Unless(k, zero, "DivisionByZero", Replaced(k, 1, b))))

LEMMA RangedMakes ==
    ASSUME NEW k, Sound(k), Load(k) >= 1, NEW n, NEW bad, NEW zero, NEW b,
           n \in 1..3 /\ ~bad => b \in Seq(Toks(k.heap))
    PROVE  Makes(k, Ranged(k, n, bad, zero, b))
<1> DEFINE done == Replaced(k, 1, b)
           cut == Unless(k, zero, "DivisionByZero", done)
           typed == Unless(k, bad, "ArgumentType", cut)
<1>1. ASSUME n \in 1..3, ~bad PROVE Makes(k, cut)
  <2>1. Makes(k, done)
    BY <1>1, MakesReplaced
  <2> HIDE DEF done
  <2> QED
    BY <2>1, MakesUnless, PlainErrors
<1> HIDE DEF cut
<1>2. ASSUME n \in 1..3 PROVE Makes(k, typed)
  BY <1>1, <1>2, MakesUnless, PlainErrors
<1> HIDE DEF typed
<1>3. ASSUME ~(n \notin 1..3) PROVE Makes(k, typed)
  BY <1>2, <1>3
<1>4. Makes(k, Unless(k, n \notin 1..3, "RangeCheck", typed))
  BY <1>3, MakesUnless, PlainErrors
<1> QED
  BY <1>4 DEF Ranged, typed, cut

LEMMA RangeMakes ==
    ASSUME NEW k, Sound(k)
    PROVE  Makes(k, RangeFunction(k))
<1>1. PICK args : args = Body(k, 0)
  OBVIOUS
<1>2. PICK n : n = Len(args)
  OBVIOUS
<1> DEFINE bad == \E i \in 1..n : Tag(args[i]) \notin NumberTags
<1>3. ASSUME Load(k) >= 1, Matches(k, 0, "array")
      PROVE  \A i \in 1..n : args[i] \in Toks(k.heap)
  <2>1. TagAt(k, 0) \in ArrayTags
    BY <1>3, CompositesAreTypes, MatchesType, KindOf
  <2> QED
    BY <1>1, <1>2, <1>3, <2>1, LoadIsNat, ArrayOperand
<1>4. CASE AllTagged(args, "integer")
  <2>1. PICK b : b = IF n = 1 THEN RangeOf(1, Data(args[1]), 1)
                     ELSE IF n = 2 THEN RangeOf(Data(args[1]), Data(args[2]), 1)
                     ELSE RangeOf(Data(args[1]), Data(args[2]), Data(args[3]))
    OBVIOUS
  <2> DEFINE out == Ranged(k, n, bad, n = 3 /\ Data(args[3]) = 0, b)
  <2>2. ASSUME Load(k) >= 1 /\ Matches(k, 0, "array") PROVE Makes(k, out)
    <3>1. ASSUME n \in 1..3 PROVE b \in Seq(Toks(k.heap))
      <4>1. \A i \in 1..n : Data(args[i]) \in Int
        <5>1. ASSUME NEW i \in 1..n PROVE Data(args[i]) \in Int
          <6>1. args[i] \in Toks(k.heap)
            BY <1>3, <2>2
          <6>2. Tag(args[i]) = "integer"
            <7>1. TagAt(k, 0) \in ArrayTags
              BY <2>2, CompositesAreTypes, MatchesType, KindOf
            <7>2. DOMAIN args = 1..n
              BY <1>1, <1>2, <2>2, <7>1, LoadIsNat, ArrayOperand
            <7> QED
              BY <1>4, <7>2 DEF AllTagged
          <6> QED
            BY <6>1, <6>2, TokenData
        <5> QED
          BY <5>1
      <4>2. CASE n = 1
        <5>1. Data(args[1]) \in Int
          BY <4>1, <4>2
        <5> QED
          BY <2>1, <4>2, <5>1, RangeOfIsSeq
      <4>3. CASE n = 2
        <5>1. Data(args[1]) \in Int /\ Data(args[2]) \in Int
          BY <4>1, <4>3
        <5> QED
          BY <2>1, <4>3, <5>1, RangeOfIsSeq
      <4>4. CASE n = 3
        <5>1. Data(args[1]) \in Int /\ Data(args[2]) \in Int /\ Data(args[3]) \in Int
          BY <4>1, <4>4
        <5> QED
          BY <2>1, <4>4, <5>1, RangeOfIsSeq
      <4> QED
        BY <3>1, <4>2, <4>3, <4>4
    <3> HIDE DEF bad
    <3> QED
      BY <2>2, <3>1, RangedMakes
  <2> HIDE DEF out
  <2>3. Makes(k, Typed(k, <<"array">>, out))
    BY <2>2, MakesTyped1
  <2>4. PICK sig : sig = <<"array">>
    OBVIOUS
  <2>5. RangeFunction(k) = Typed(k, sig, out)
    BY <1>1, <1>2, <1>4, <2>1, <2>4 DEF RangeFunction, out, Ranged
  <2> QED
    BY <2>3, <2>4, <2>5
<1>5. CASE ~AllTagged(args, "integer")
  <2>1. PICK b : b = IF n = 1 THEN RangeOfDoubles(One, Floor(AsDouble(args[1])), One)
                     ELSE IF n = 2 THEN RangeOfDoubles(AsDouble(args[1]), AsDouble(args[2]), One)
                     ELSE RangeOfDoubles(AsDouble(args[1]), AsDouble(args[2]), AsDouble(args[3]))
    OBVIOUS
  <2> DEFINE out == Ranged(k, n, bad, n = 3 /\ AsDouble(args[3]) = Zero, b)
  <2>2. ASSUME Load(k) >= 1 /\ Matches(k, 0, "array") PROVE Makes(k, out)
    <3>1. ASSUME n \in 1..3, ~bad PROVE b \in Seq(Toks(k.heap))
      <4>1. \A i \in 1..n : AsDouble(args[i]) \in DoubleValues
        BY <1>3, <2>2, <3>1, NumberIsDouble
      <4>2. CASE n = 1
        <5>1. Floor(AsDouble(args[1])) \in DoubleValues
          BY <4>1, <4>2, FloorIsDouble
        <5> QED
          BY <2>1, <4>2, <5>1, RangeOfDoublesIsSeq, OneIsDouble
      <4>3. CASE n = 2
        <5>1. AsDouble(args[1]) \in DoubleValues /\ AsDouble(args[2]) \in DoubleValues
          BY <4>1, <4>3
        <5> QED
          BY <2>1, <4>3, <5>1, RangeOfDoublesIsSeq, OneIsDouble
      <4>4. CASE n = 3
        <5>1. /\ AsDouble(args[1]) \in DoubleValues /\ AsDouble(args[2]) \in DoubleValues
              /\ AsDouble(args[3]) \in DoubleValues
          BY <4>1, <4>4
        <5> QED
          BY <2>1, <4>4, <5>1, RangeOfDoublesIsSeq
      <4> QED
        BY <3>1, <4>2, <4>3, <4>4
    <3> HIDE DEF bad
    <3> QED
      BY <2>2, <3>1, RangedMakes
  <2> HIDE DEF out
  <2>3. Makes(k, Typed(k, <<"array">>, out))
    BY <2>2, MakesTyped1
  <2>4. PICK sig : sig = <<"array">>
    OBVIOUS
  <2>5. RangeFunction(k) = Typed(k, sig, out)
    BY <1>1, <1>2, <1>5, <2>1, <2>4 DEF RangeFunction, out, Ranged
  <2> QED
    BY <2>3, <2>4, <2>5
<1> QED
  BY <1>4, <1>5

LEMMA RangeGood ==
    ASSUME NEW k, Sound(k)
    PROVE  Good(k, RangeFunction(k))
BY RangeMakes DEF Makes

LEMMA PartIsSeq ==
    ASSUME NEW k, Sound(k), NEW t \in Toks(k.heap)
    PROVE  (IF Tag(t) = "array" THEN Payload(k, t).body ELSE <<t>>) \in Seq(Toks(k.heap))
<1>1. PICK x : x = Data(t)
  OBVIOUS
<1>2. ASSUME Tag(t) = "array" PROVE k.heap[x].body \in Seq(Toks(k.heap))
  <2>1. x \in Ids /\ k.heap[x].kind = "array"
    BY <1>1, <1>2, TokenData, KindOf
  <2>2. IsBody(k.heap, "array", k.heap[x].body)
    BY <2>1, PayloadParts DEF Sound
  <2> QED
    BY <2>2, BodiesAreCells, TokensAreToks DEF Cells
<1>3. <<t>> \in Seq(Toks(k.heap))
  BY SeqUnits
<1> QED
  BY <1>1, <1>2, <1>3 DEF Payload

LEMMA FlattenMakes ==
    ASSUME NEW k, Sound(k)
    PROVE  Makes(k, FlattenFunction(k))
<1>1. PICK s : s = Body(k, 0)
  OBVIOUS
<1>2. PICK M : M = Len(s)
  OBVIOUS
<1>3. PICK I : I = 0..M
  OBVIOUS
<1>4. PICK flat : flat = CHOOSE g : g = [n \in I |-> IF n = 0 THEN <<>> ELSE g[n - 1] \o (IF Tag(s[n]) = "array" THEN Payload(k, s[n]).body ELSE <<s[n]>>)]
  OBVIOUS
<1>5. PICK b : b = flat[M]
  OBVIOUS
<1> DEFINE out == Replaced(k, 1, b)
<1>6. ASSUME Load(k) >= 1 /\ Matches(k, 0, "array") PROVE Makes(k, out)
  <2>1. TagAt(k, 0) \in ArrayTags
    BY <1>6, CompositesAreTypes, MatchesType, KindOf
  <2>2. s \in Seq(Toks(k.heap)) /\ M \in Nat /\ \A n \in 1..M : s[n] \in Toks(k.heap)
    BY <1>1, <1>2, <1>6, <2>1, LoadIsNat, ArrayOperand
  <2>3. PICK D : D = Seq(Toks(k.heap))
    OBVIOUS
  <2>4. PICK a : a = <<>>
    OBVIOUS
  <2>5. a \in D
    BY <2>3, <2>4, SeqUnits
  <2>6. PICK p : p = [n \in 1..M |-> IF Tag(s[n]) = "array" THEN Payload(k, s[n]).body ELSE <<s[n]>>]
    OBVIOUS
  <2>7. \A n \in 1..M : p[n] \in D
    BY <2>2, <2>3, <2>6, PartIsSeq
  <2>8. \A f \in D, g \in D : f \o g \in D
    BY <2>3, SeqConcat
  <2>9. PICK S : S = [q \in Nat \X D |-> IF q[1] \in 1..M THEN q[2] \o p[q[1]] ELSE a]
    OBVIOUS
  <2>10. S \in [Nat \X D -> D]
    BY <2>5, <2>7, <2>8, <2>9
  <2>11. PICK f \in [I -> D] : Unfolds(I, a, S, f)
    <3>1. I = Nat \/ \E N \in Nat : I = 0..N
      BY <1>3, <2>2
    <3> QED
      BY <2>5, <2>10, <3>1, RecursionWorks
  <2>12. \A n \in I : n # 0 => n \in 1..M /\ n - 1 \in I /\ n \in Nat
    BY <1>3, <2>2
  <2>13. \A n \in I : f[n] = IF n = 0 THEN a ELSE f[n - 1] \o p[n]
    BY <2>9, <2>11, <2>12 DEF Unfolds
  <2>14. \A n \in I : f[n] = IF n = 0 THEN <<>> ELSE f[n - 1] \o (IF Tag(s[n]) = "array" THEN Payload(k, s[n]).body ELSE <<s[n]>>)
    BY <2>4, <2>6, <2>12, <2>13
  <2>15. f = [n \in I |-> IF n = 0 THEN <<>> ELSE f[n - 1] \o (IF Tag(s[n]) = "array" THEN Payload(k, s[n]).body ELSE <<s[n]>>)]
    BY <2>11, <2>14
  <2>16. flat = [n \in I |-> IF n = 0 THEN <<>> ELSE flat[n - 1] \o (IF Tag(s[n]) = "array" THEN Payload(k, s[n]).body ELSE <<s[n]>>)]
    BY <1>4, <2>15
  <2>17. \A n \in I : flat[n] = IF n = 0 THEN a ELSE flat[n - 1] \o p[n]
    BY <2>4, <2>6, <2>12, <2>16
  <2>18. PICK P : P = {n \in I : flat[n] \in D}
    OBVIOUS
  <2>19. 0 \in P
    BY <1>3, <2>2, <2>5, <2>17, <2>18
  <2>20. ASSUME NEW n \in Nat, n < M, n \in P PROVE n + 1 \in P
    <3>1. PICK l \in Nat : l = n + 1 /\ l \in I /\ l \in 1..M /\ l # 0 /\ l - 1 = n
      BY <1>3, <2>2, <2>20
    <3>2. flat[l] = flat[n] \o p[l]
      BY <2>17, <3>1
    <3> QED
      BY <2>7, <2>8, <2>18, <2>20, <3>1, <3>2
  <2>21. \A n \in 0..M : n \in P
    BY <2>2, <2>19, <2>20, SegmentByInduction
  <2>22. b \in Seq(Toks(k.heap))
    BY <1>3, <1>5, <2>2, <2>3, <2>18, <2>21
  <2> QED
    BY <1>6, <2>22, MakesReplaced
<1> HIDE DEF out
<1>7. Makes(k, Typed(k, <<"array">>, out))
  BY <1>6, MakesTyped1
<1> QED
  BY <1>1, <1>2, <1>3, <1>4, <1>5, <1>7 DEF FlattenFunction, out

LEMMA FlattenGood ==
    ASSUME NEW k, Sound(k)
    PROVE  Good(k, FlattenFunction(k))
BY FlattenMakes DEF Makes

LEMMA SortedIsSeq ==
    ASSUME NEW k, NEW S, NEW s \in Seq(S), NEW sorted \in Sorted(k, s)
    PROVE  sorted \in Seq(S)
<1>1. PICK n \in Nat : n = Len(s) /\ DOMAIN s = 1..n /\ \A i \in 1..n : s[i] \in S
  BY SeqParts
<1>2. PICK q \in Bijection(1..n, 1..n) : sorted = [i \in 1..n |-> s[q[i]]]
  BY <1>1 DEF Sorted
<1>3. \A i \in 1..n : q[i] \in 1..n
  BY <1>2 DEF Bijection, Injection
<1>4. \A i \in 1..n : sorted[i] \in S
  BY <1>1, <1>2, <1>3
<1>5. sorted = [i \in 1..n |-> sorted[i]]
  BY <1>2
<1> QED
  BY <1>4, <1>5, SeqBuilt

LEMMA SortGood ==
    ASSUME NEW k, Sound(k), NEW sorted,
           Load(k) >= 1 /\ TagAt(k, 0) = "array" /\ Body(k, 0) # <<>> /\ Sortable(Body(k, 0))
               => sorted \in Sorted(k, Body(k, 0))
    PROVE  Good(k, SortFunction(k, sorted))
<1> DEFINE done == Replaced(k, 1, sorted)
           cut == Unless(k, ~Sortable(Body(k, 0)), "ArgumentType", done)
           out == IF Body(k, 0) = <<>> THEN Done(k) ELSE cut
<1>1. ASSUME Load(k) >= 1 /\ Matches(k, 0, "array") PROVE Good(k, out)
  <2>1. TagAt(k, 0) \in ArrayTags /\ TagAt(k, 0) = "array"
    BY <1>1, CompositesAreTypes, MatchesType, KindOf
  <2>2. Body(k, 0) \in Seq(Toks(k.heap))
    BY <1>1, <2>1, LoadIsNat, ArrayOperand
  <2>3. ASSUME Body(k, 0) # <<>>, ~~Sortable(Body(k, 0)) PROVE Good(k, done)
    <3>1. sorted \in Seq(Toks(k.heap))
      BY <1>1, <2>1, <2>2, <2>3, SortedIsSeq
    <3> QED
      BY <1>1, <3>1, GoodReplaced
  <2> HIDE DEF done
  <2>4. ASSUME Body(k, 0) # <<>> PROVE Good(k, cut)
    BY <2>3, <2>4, GoodUnless, PlainErrors
  <2> QED
    BY <2>4, GoodSame
<1> HIDE DEF out
<1>2. Good(k, Typed(k, <<"array">>, out))
  BY <1>1, GoodTyped1
<1> QED
  BY <1>2 DEF SortFunction, out, cut, done

\* All but the empty array, which is left as it is, are sorted into another one.
LEMMA SortMakes ==
    ASSUME NEW k, Sound(k), NEW sorted, Body(k, 0) # <<>>,
           Load(k) >= 1 /\ TagAt(k, 0) = "array" /\ Sortable(Body(k, 0))
               => sorted \in Sorted(k, Body(k, 0))
    PROVE  Makes(k, SortFunction(k, sorted))
<1> DEFINE done == Replaced(k, 1, sorted)
           out == Unless(k, ~Sortable(Body(k, 0)), "ArgumentType", done)
<1>1. ASSUME Load(k) >= 1 /\ Matches(k, 0, "array") PROVE Makes(k, out)
  <2>1. TagAt(k, 0) \in ArrayTags /\ TagAt(k, 0) = "array"
    BY <1>1, CompositesAreTypes, MatchesType, KindOf
  <2>2. Body(k, 0) \in Seq(Toks(k.heap))
    BY <1>1, <2>1, LoadIsNat, ArrayOperand
  <2>3. ASSUME ~~Sortable(Body(k, 0)) PROVE Makes(k, done)
    <3>1. sorted \in Seq(Toks(k.heap))
      BY <1>1, <2>1, <2>2, <2>3, SortedIsSeq
    <3> QED
      BY <1>1, <3>1, MakesReplaced
  <2> HIDE DEF done
  <2> QED
    BY <2>3, MakesUnless, PlainErrors
<1> HIDE DEF out
<1>2. Makes(k, Typed(k, <<"array">>, out))
  BY <1>1, MakesTyped1
<1> QED
  BY <1>2 DEF SortFunction, out, done

LEMMA MinMaxGood ==
    ASSUME NEW k, Sound(k), NEW max \in BOOLEAN
    PROVE  Good(k, MinMaxFunction(k, max))
<1>1. PICK s : s = Body(k, 0)
  OBVIOUS
<1>2. PICK M : M = Len(s)
  OBVIOUS
<1>3. PICK I : I = 0..M
  OBVIOUS
<1>4. PICK best : best = CHOOSE g : g = [n \in I |-> IF n = 0 THEN s[1] ELSE (IF IF max THEN Less(k, g[n - 1], s[n]) ELSE Less(k, s[n], g[n - 1]) THEN s[n] ELSE g[n - 1])]
  OBVIOUS
<1>5. PICK t : t = best[M]
  OBVIOUS
<1> DEFINE done == Done(SlotSet(k, 0, t))
           typed == Unless(k, Tag(s[1]) \notin NumberTags \/ ~AllTagged(s, Tag(s[1])), "ArgumentType", done)
           out == Unless(k, s = <<>>, "RangeCheck", typed)
<1>6. ASSUME Load(k) >= 1 /\ Matches(k, 0, "array") PROVE Good(k, out)
  <2>1. TagAt(k, 0) \in ArrayTags
    BY <1>6, CompositesAreTypes, MatchesType, KindOf
  <2>2. s \in Seq(Toks(k.heap)) /\ M \in Nat /\ \A n \in 1..M : s[n] \in Toks(k.heap)
    BY <1>1, <1>2, <1>6, <2>1, LoadIsNat, ArrayOperand
  <2>3. ASSUME s # <<>> PROVE t \in Toks(k.heap)
    <3>1. PICK D : D = Toks(k.heap)
      OBVIOUS
    <3>2. PICK a \in D : a = s[1]
      BY <1>2, <2>2, <2>3, <3>1, SeqParts
    <3>4. PICK S : S = [p \in Nat \X D |-> IF p[1] \in 1..M THEN (IF IF max THEN Less(k, p[2], s[p[1]]) ELSE Less(k, s[p[1]], p[2]) THEN s[p[1]] ELSE p[2]) ELSE a]
      OBVIOUS
    <3>5. S \in [Nat \X D -> D]
      BY <2>2, <3>1, <3>2, <3>4
    <3>6. PICK f \in [I -> D] : Unfolds(I, a, S, f)
      <4>1. I = Nat \/ \E N \in Nat : I = 0..N
        BY <1>3, <2>2
      <4> QED
        BY <3>2, <3>5, <4>1, RecursionWorks
    <3>7. \A n \in I : n # 0 => n \in 1..M /\ n - 1 \in I /\ n \in Nat
      BY <1>3, <2>2
    <3>8. \A n \in I : f[n] = IF n = 0 THEN s[1] ELSE (IF IF max THEN Less(k, f[n - 1], s[n]) ELSE Less(k, s[n], f[n - 1]) THEN s[n] ELSE f[n - 1])
      BY <3>2, <3>4, <3>6, <3>7 DEF Unfolds
    <3>9. f = [n \in I |-> IF n = 0 THEN s[1] ELSE (IF IF max THEN Less(k, f[n - 1], s[n]) ELSE Less(k, s[n], f[n - 1]) THEN s[n] ELSE f[n - 1])]
      BY <3>6, <3>8
    <3>10. best = [n \in I |-> IF n = 0 THEN s[1] ELSE (IF IF max THEN Less(k, best[n - 1], s[n]) ELSE Less(k, s[n], best[n - 1]) THEN s[n] ELSE best[n - 1])]
      BY <1>4, <3>9
    <3>11. \A n \in I : best[n] = IF n = 0 THEN s[1] ELSE (IF IF max THEN Less(k, best[n - 1], s[n]) ELSE Less(k, s[n], best[n - 1]) THEN s[n] ELSE best[n - 1])
      BY <3>10
    <3>12. \A n \in I : best[n] \in {s[1]} \/ (n # 0 /\ best[n] \in {s[n], best[n - 1]})
      BY <3>11
    <3>13. PICK P : P = {n \in I : best[n] \in D}
      OBVIOUS
    <3>14. 0 \in P
      BY <1>3, <2>2, <3>2, <3>12, <3>13
    <3>15. ASSUME NEW n \in Nat, n < M, n \in P PROVE n + 1 \in P
      <4>1. PICK l \in Nat : l = n + 1 /\ l \in I /\ l \in 1..M /\ l # 0 /\ l - 1 = n
        BY <1>3, <2>2, <3>15
      <4>2. best[l] \in {s[1], s[l], best[n]}
        BY <3>12, <4>1
      <4> QED
        BY <2>2, <3>1, <3>2, <3>13, <3>15, <4>1, <4>2
    <3>16. \A n \in 0..M : n \in P
      BY <2>2, <3>14, <3>15, SegmentByInduction
    <3> QED
      BY <1>3, <1>5, <2>2, <3>1, <3>13, <3>16
  <2>4. ASSUME ~(s = <<>>) PROVE Good(k, done)
    BY <1>6, <2>3, <2>4, GoodTop
  <2> HIDE DEF done
  <2>5. ASSUME ~(s = <<>>) PROVE Good(k, typed)
    BY <2>4, <2>5, GoodUnless, PlainErrors
  <2> HIDE DEF typed
  <2> QED
    BY <2>5, GoodUnless, PlainErrors
<1> HIDE DEF out
<1>7. Good(k, Typed(k, <<"array">>, out))
  BY <1>6, GoodTyped1
<1> QED
  BY <1>1, <1>2, <1>3, <1>4, <1>5, <1>7 DEF MinMaxFunction, out, typed, done

\* The heap h with new arrays, whose tokens are in rows, and one of those.
ListsRows(free, N, rows) == rows = [i \in 1..N |-> <<"array", Nth(free, i)>>]
Fills(h, free, bodies, N, rows, g) ==
    /\ DOMAIN g = Ids
    /\ \A x \in Ids : g[x] = IF x \notin free \/ Rank(free, x) > N + 1 THEN h[x]
                                 ELSE IF Rank(free, x) <= N THEN Fresh("array", bodies[Rank(free, x)])
                                 ELSE Fresh("array", rows)

\* New arrays, and one more that holds them, take payloads that were free.
LEMMA HeapNests ==
    ASSUME NEW h, WellFormed(h), NEW free, free = {x \in Ids : h[x].kind = "free"},
           NEW bodies \in Seq(Seq(Toks(h))), NEW N \in Nat, N = Len(bodies), N < Cardinality(free),
           NEW rows, ListsRows(free, N, rows), NEW g, Fills(h, free, bodies, N, rows, g)
    PROVE  WellFormed(g) /\ Kept(h, g) /\ <<"array", Nth(free, N + 1)>> \in Toks(g)
<1>1. PICK M \in Nat : M = MaxObjects /\ Ids = 1..M
  BY MaxObjectsAssumption DEF Ids
<1>2. Kept(h, g)
  <2>1. Kept(h, h)
    BY KeptSame
  <2>2. \A x \in Ids : g[x] = h[x] \/ h[x].kind = "free"
    BY DEF Fills
  <2> QED
    BY <2>1, <2>2 DEF Kept, StaysNarrowed
<1>3. free \subseteq 1..M /\ Cardinality(free) \in Nat
  <2>1. free \subseteq 1..M
    BY <1>1
  <2> QED
    BY <1>1, <2>1, PartOfSegment
<1>4. \A n \in 1..(N + 1) : Nth(free, n) \in free /\ Rank(free, Nth(free, n)) = n
  <2>1. \A n \in 1..(N + 1) : n \in 1..Cardinality(free)
    BY <1>3
  <2> QED
    BY <1>1, <1>3, <2>1, NthExists
<1>5. \A i \in 1..N : bodies[i] \in Seq(Toks(h))
  <2>1. PICK S : S = Seq(Toks(h))
    OBVIOUS
  <2> QED
    BY <2>1, SeqParts
<1>6. Fresh("array", rows).kind = "array" /\ \A i \in 1..N : Fresh("array", bodies[i]).kind = "array"
  BY KindOf DEF Fresh
<1>7. \A n \in 1..(N + 1) : <<"array", Nth(free, n)>> \in Toks(g)
  <2> TAKE n \in 1..(N + 1)
  <2>1. PICK x \in Ids : x = Nth(free, n) /\ x \in free /\ Rank(free, x) = n
    BY <1>1, <1>3, <1>4
  <2>2. g[x].kind = "array"
    <3>1. CASE n \in 1..N
      <4>1. n <= N /\ ~(n > N + 1)
        BY <3>1
      <4>2. g[x] = Fresh("array", bodies[n])
        BY <2>1, <4>1 DEF Fills
      <4> QED
        BY <1>6, <3>1, <4>2
    <3>2. CASE n = N + 1
      <4>1. ~(n <= N) /\ ~(n > N + 1)
        BY <3>2
      <4>2. g[x] = Fresh("array", rows)
        BY <2>1, <4>1 DEF Fills
      <4> QED
        BY <1>6, <4>2
    <3> QED
      BY <3>1, <3>2
  <2> QED
    BY <2>1, <2>2, RetagIsToken, KindOf
<1>8. rows \in Seq(Toks(g))
  <2>1. \A i \in 1..N : rows[i] = <<"array", Nth(free, i)>> /\ i \in 1..(N + 1)
    BY DEF ListsRows
  <2>2. \A i \in 1..N : rows[i] \in Toks(g)
    BY <1>7, <2>1
  <2>3. rows = [i \in 1..N |-> rows[i]]
    BY DEF ListsRows
  <2> QED
    BY <2>2, <2>3, SeqBuilt
<1>9. IsPayload(g, Fresh("array", rows))
  BY <1>8, ArrayBody, FreshIsPayload, KindOf
<1>10. \A i \in 1..N : IsPayload(g, Fresh("array", bodies[i]))
  <2> TAKE i \in 1..N
  <2>1. bodies[i] \in Seq(Toks(g))
    BY <1>2, <1>5, ToksKept, SeqMono
  <2> QED
    BY <2>1, ArrayBody, FreshIsPayload, KindOf
<1>11. \A x \in Ids : g[x] = h[x] \/ IsPayload(g, g[x])
  <2> TAKE x \in Ids
  <2>1. PICK r : r = Rank(free, x)
    OBVIOUS
  <2>2. CASE x \in free /\ ~(r > N + 1) /\ r <= N
    <3>1. r \in 1..N
      <4>1. PICK T : T = {y \in free : y <= x}
        OBVIOUS
      <4>2. T \subseteq 1..M /\ x \in T /\ x \in Int
        BY <1>1, <1>3, <2>2, <4>1
      <4>3. r = Cardinality(T) /\ r \in Nat /\ IsFiniteSet(T)
        BY <1>1, <2>1, <4>1, <4>2, PartOfSegment DEF Rank
      <4>4. r # 0
        BY <4>2, <4>3, FS_EmptySet
      <4> QED
        BY <2>2, <4>3, <4>4
    <3>2. g[x] = Fresh("array", bodies[r])
      BY <2>1, <2>2 DEF Fills
    <3> QED
      BY <1>10, <3>1, <3>2
  <2>3. CASE x \in free /\ ~(r > N + 1) /\ ~(r <= N)
    <3>1. g[x] = Fresh("array", rows)
      BY <2>1, <2>3 DEF Fills
    <3> QED
      BY <1>9, <3>1
  <2>4. CASE x \notin free \/ r > N + 1
    BY <2>1, <2>4 DEF Fills
  <2> QED
    BY <2>2, <2>3, <2>4
<1>12. WellFormed(g)
  <2>1. DOMAIN g = Ids
    BY DEF Fills
  <2> QED
    BY <1>2, <1>11, <2>1, HeapUpdate
<1> QED
  <2>1. PICK n \in 1..(N + 1) : n = N + 1
    OBVIOUS
  <2> QED
    BY <1>2, <1>7, <1>12, <2>1

\* A payload that was free, and that nobody holds yet.
Spare(h, g, x) ==
    /\ x \in Ids /\ h[x].kind = "free" /\ g[x].acc = Unlimited /\ g[x].lost = 0
    /\ \A y \in Ids : Uses(Contents(g[y]), x) = {}

\* The array of the new arrays is one.
LEMMA NestedIsNew ==
    ASSUME NEW h, WellFormed(h), NEW free, free = {x \in Ids : h[x].kind = "free"},
           NEW bodies \in Seq(Seq(Toks(h))), NEW N \in Nat, N = Len(bodies), N < Cardinality(free),
           NEW rows, ListsRows(free, N, rows), NEW g, Fills(h, free, bodies, N, rows, g)
    PROVE  Spare(h, g, Nth(free, N + 1))
<1>1. PICK M \in Nat : M = MaxObjects /\ Ids = 1..M
  BY MaxObjectsAssumption DEF Ids
<1>2. free \subseteq 1..M /\ Cardinality(free) \in Nat
  <2>1. free \subseteq 1..M
    BY <1>1
  <2> QED
    BY <1>1, <2>1, PartOfSegment
<1>3. \A n \in 1..(N + 1) : Nth(free, n) \in free /\ Rank(free, Nth(free, n)) = n
  <2>1. \A n \in 1..(N + 1) : n \in 1..Cardinality(free)
    BY <1>2
  <2> QED
    BY <1>1, <1>2, <2>1, NthExists
<1>4. PICK x : x = Nth(free, N + 1)
  OBVIOUS
<1>5. x \in free /\ Rank(free, x) = N + 1 /\ x \in Ids /\ h[x].kind = "free"
  <2>1. N + 1 \in 1..(N + 1)
    OBVIOUS
  <2> QED
    BY <1>3, <1>4, <2>1
<1>6. PICK new : new = Fresh("array", rows)
  OBVIOUS
<1>7. new.acc = Unlimited /\ new.lost = 0 /\ new.kind = "array" /\ new.body = rows
  BY <1>6, KindOf DEF Fresh
<1>8. g[x] = new
  <2>1. ~(N + 1 <= N) /\ ~(N + 1 > N + 1)
    OBVIOUS
  <2> QED
    BY <1>5, <1>6, <2>1 DEF Fills
<1>9. ASSUME NEW y \in Ids, Uses(Contents(g[y]), x) # {} PROVE FALSE
  <2>1. CASE g[y] = h[y]
    <3>1. IsBody(h, h[y].kind, h[y].body)
      BY PayloadParts
    <3> QED
      BY <1>5, <1>9, <2>1, <3>1, ContainedIsLive
  <2>2. CASE g[y] = new
    <3>1. Contents(new) = rows
      BY <1>7 DEF Contents
    <3>2. PICK i \in 1..N : Refers(rows[i], x)
      BY <1>9, <2>2, <3>1 DEF Uses, ListsRows
    <3>3. rows[i] = <<"array", Nth(free, i)>>
      BY DEF ListsRows
    <3>4. Nth(free, i) = x
      BY <3>2, <3>3 DEF Refers, Data
    <3>5. i \in 1..(N + 1) /\ i # N + 1
      OBVIOUS
    <3> QED
      BY <1>3, <1>5, <3>4, <3>5
  <2>3. CASE y \in free /\ Rank(free, y) <= N
    <3>1. Rank(free, y) \in 1..N
      <4>1. {z \in free : z <= y} \subseteq free /\ y \in {z \in free : z <= y}
        BY <1>1, <1>2, <2>3
      <4>2. IsFiniteSet({z \in free : z <= y}) /\ Cardinality({z \in free : z <= y}) \in Nat
        BY <1>1, <1>2, <4>1, PartOfSegment
      <4>3. Cardinality({z \in free : z <= y}) # 0
        BY <4>1, <4>2, FS_EmptySet
      <4> QED
        BY <2>3, <4>2, <4>3 DEF Rank
    <3>2. PICK i \in 1..N : i = Rank(free, y)
      BY <3>1
    <3>3. PICK o : o = Fresh("array", bodies[i])
      OBVIOUS
    <3>4. g[y] = o
      <4>1. i <= N /\ ~(i > N + 1)
        OBVIOUS
      <4> QED
        BY <2>3, <3>2, <3>3, <4>1 DEF Fills
    <3>5. PICK S : S = Seq(Toks(h))
      OBVIOUS
    <3>6. bodies[i] \in S
      BY <3>5, SeqParts
    <3>7. Contents(o) = bodies[i]
      BY <3>3, KindOf DEF Fresh, Contents
    <3> QED
      BY <1>5, <1>9, <3>4, <3>5, <3>6, <3>7, ListedIsLive
  <2>4. g[y] = h[y] \/ g[y] = new \/ (y \in free /\ Rank(free, y) <= N)
    BY <1>6 DEF Fills
  <2> QED
    BY <2>1, <2>2, <2>3, <2>4
<1> QED
  BY <1>5, <1>7, <1>8, <1>9, <1>4 DEF Spare

LEMMA NestedMakes ==
    ASSUME NEW k, Sound(k), NEW n \in Nat, n <= Load(k), NEW bodies \in Seq(Seq(Toks(k.heap)))
    PROVE  Makes(k, Nested(k, n, bodies))
<1>1. k = [st |-> k.st, es |-> k.es, heap |-> k.heap, room |-> k.room] /\ DOMAIN k.heap = Ids
      /\ WellFormed(k.heap) /\ k.st \in Seq(Toks(k.heap)) /\ k.es \in Seq(Toks(k.heap))
  BY DEF Sound, Shape, WellFormed
<1>2. PICK N \in Nat : N = Len(bodies) /\ DOMAIN bodies = 1..N
  BY SeqParts
<1>3. PICK free : free = FreeIds(k)
  OBVIOUS
<1>4. Cardinality(free) \in Nat
  <2>1. free \subseteq 1..MaxObjects /\ MaxObjects \in Nat
    BY <1>3, MaxObjectsAssumption DEF FreeIds, Ids
  <2> QED
    BY <2>1, PartOfSegment
<1>5. PICK rows : rows = [i \in 1..N |-> <<"array", Nth(free, i)>>]
  OBVIOUS
<1>6. PICK h : h = [x \in Ids |-> IF x \notin free \/ Rank(free, x) > N + 1 THEN k.heap[x]
                                  ELSE IF Rank(free, x) <= N THEN Fresh("array", bodies[Rank(free, x)])
                                  ELSE Fresh("array", rows)]
  OBVIOUS
<1>7. PICK l : l = [k EXCEPT !.room = FALSE]
  OBVIOUS
<1>8. PICK s : s = Append(Drop(k.st, n), <<"array", Nth(free, N + 1)>>)
  OBVIOUS
<1>9. PICK f : f = [k EXCEPT !.heap = h, !.st = s]
  OBVIOUS
<1>10. Makes(k, Done(l))
  <2>1. l.st = k.st /\ l.es = k.es /\ l.heap = k.heap /\ Shape(l)
    BY <1>1, <1>7 DEF Shape
  <2>2. Ok(k, l)
    BY <1>1, <2>1, KeptSame DEF Ok, Sound
  <2>3. ~l.room
    BY <1>1, <1>7
  <2> QED
    BY <2>2, <2>3, GoodDone DEF Makes, Done
<1>11. ASSUME ~(N >= Cardinality(free)) PROVE Makes(k, Done(f))
  <2>1. Fills(k.heap, free, bodies, N, rows, h) /\ ListsRows(free, N, rows)
    BY <1>5, <1>6 DEF Fills, ListsRows
  <2>2. free = {x \in Ids : k.heap[x].kind = "free"} /\ N < Cardinality(free)
    BY <1>3, <1>4, <1>11 DEF FreeIds
  <2>3. WellFormed(h) /\ Kept(k.heap, h) /\ <<"array", Nth(free, N + 1)>> \in Toks(h)
    BY <1>1, <1>2, <2>1, <2>2, HeapNests
  <2>4. k.st \in Seq(Toks(h)) /\ k.es \in Seq(Toks(h))
    BY <1>1, <2>3, ToksKept, SeqMono
  <2>5. Drop(k.st, n) \in Seq(Toks(h))
    <3>1. n \in 0..Len(k.st)
      BY <1>1, SeqParts DEF Load
    <3> QED
      BY <2>4, <3>1, SeqDrop
  <2>6. s \in Seq(Toks(h))
    BY <1>8, <2>3, <2>5, SeqAppend
  <2>7. f.st = s /\ f.es = k.es /\ f.heap = h /\ Shape(f)
    BY <1>1, <1>9 DEF Shape
  <2>8. Ok(k, f)
    BY <2>3, <2>4, <2>6, <2>7 DEF Ok, Sound
  <2>9. PICK x : x = Nth(free, N + 1)
    OBVIOUS
  <2>10. x \in Ids /\ k.heap[x].kind = "free" /\ h[x].acc = Unlimited /\ h[x].lost = 0
         /\ \A y \in Ids : Uses(Contents(h[y]), x) = {}
    <3>1. Spare(k.heap, h, Nth(free, N + 1))
      BY <1>1, <1>2, <2>1, <2>2, NestedIsNew
    <3> QED
      BY <2>9, <3>1 DEF Spare
  <2>11. Topped(s, Toks(k.heap), x)
    <3>1. n \in 0..Len(k.st)
      BY <1>1, SeqParts DEF Load
    <3>2. Drop(k.st, n) \in Seq(Toks(k.heap))
      BY <1>1, <3>1, SeqDrop
    <3>3. PICK r : r = Drop(k.st, n) /\ r \in Seq(Toks(k.heap))
      BY <3>2
    <3>4. s = Append(r, <<"array", x>>) /\ "array" \in CompositeTags
      BY <1>8, <2>9, <3>3, KindOf
    <3> QED
      BY <3>3, <3>4, OnTopOf, Zenon
  <2>12. Owns(k, f)
    BY <2>7, <2>10, <2>11, OwnsTop
  <2> QED
    BY <2>8, <2>12, GoodDone DEF Makes, Done
<1>12. Nested(k, n, bodies) = IF N >= Cardinality(free) THEN Done(l) ELSE Done(f)
  BY <1>1, <1>2, <1>3, <1>5, <1>6, <1>7, <1>8, <1>9 DEF Nested
<1> QED
  BY <1>10, <1>11, <1>12

LEMMA TransposeMakes ==
    ASSUME NEW k, Sound(k)
    PROVE  Makes(k, TransposeFunction(k))
<1>1. PICK s : s = Body(k, 0)
  OBVIOUS
<1>2. PICK rows : rows = [i \in DOMAIN s |-> Payload(k, s[i]).body]
  OBVIOUS
<1>3. PICK first : first = Payload(k, s[1]).body
  OBVIOUS
<1>4. PICK bodies : bodies = [j \in DOMAIN first |-> [i \in DOMAIN s |-> Payload(k, s[i]).body[j]]]
  OBVIOUS
<1> DEFINE none == Replaced(k, 1, <<>>)
           done == Nested(k, 1, bodies)
           cut == Unless(k, \E i \in DOMAIN s : Len(Payload(k, s[i]).body) # Len(first), "RangeCheck", done)
           typed == Unless(k, ~AllTagged(s, "array"), "ArgumentType", cut)
           out == IF s = <<>> THEN none ELSE typed
<1>5. ASSUME Load(k) >= 1 /\ Matches(k, 0, "array") PROVE Makes(k, out)
  <2>1. TagAt(k, 0) \in ArrayTags
    BY <1>5, CompositesAreTypes, MatchesType, KindOf
  <2>2. PICK M \in Nat : s \in Seq(Toks(k.heap)) /\ M = Len(s) /\ DOMAIN s = 1..M /\ \A n \in 1..M : s[n] \in Toks(k.heap)
    BY <1>1, <1>5, <2>1, LoadIsNat, ArrayOperand, SeqParts
  <2>3. Makes(k, none)
    BY <1>5, SeqUnits, MakesReplaced
  <2>4. ASSUME s # <<>>, ~~AllTagged(s, "array"), ~(\E i \in DOMAIN s : Len(Payload(k, s[i]).body) # Len(first))
        PROVE  Makes(k, done)
    <3>1. \A i \in 1..M : rows[i] = Payload(k, s[i]).body /\ rows[i] \in Seq(Toks(k.heap))
      <4> TAKE i \in 1..M
      <4>1. Tag(s[i]) = "array"
        BY <2>2, <2>4 DEF AllTagged
      <4>2. rows[i] = Payload(k, s[i]).body
        BY <1>2, <2>2
      <4> QED
        BY <2>2, <4>1, <4>2, PartIsSeq
    <3>2. M # 0 /\ 1 \in 1..M
      BY <2>2, <2>4, SeqParts
    <3>3. PICK L \in Nat : L = Len(first) /\ DOMAIN first = 1..L
      <4>1. first \in Seq(Toks(k.heap))
        BY <1>3, <3>1, <3>2
      <4> QED
        BY <4>1, SeqParts
    <3>4. \A i \in 1..M : Len(rows[i]) = L
      BY <2>2, <2>4, <3>1, <3>3
    <3>5. \A i \in 1..M : \A j \in 1..L : rows[i][j] \in Toks(k.heap)
      BY <3>1, <3>4, SeqParts
    <3>6. \A j \in 1..L : bodies[j] \in Seq(Toks(k.heap))
      <4> TAKE j \in 1..L
      <4>1. PICK b : b = bodies[j]
        OBVIOUS
      <4>2. b = [i \in 1..M |-> Payload(k, s[i]).body[j]]
        BY <1>4, <2>2, <3>3, <4>1
      <4>3. \A i \in 1..M : b[i] = rows[i][j]
        BY <3>1, <4>2
      <4>4. \A i \in 1..M : b[i] \in Toks(k.heap)
        BY <3>5, <4>3
      <4>5. b = [i \in 1..M |-> b[i]]
        BY <4>2
      <4> QED
        BY <4>1, <4>4, <4>5, SeqBuilt
    <3>7. bodies = [j \in 1..L |-> bodies[j]]
      BY <1>4, <3>3
    <3>8. bodies \in Seq(Seq(Toks(k.heap)))
      <4>1. PICK S : S = Seq(Toks(k.heap))
        OBVIOUS
      <4> QED
        BY <3>6, <3>7, <4>1, SeqBuilt
    <3> QED
      BY <1>5, <3>8, NestedMakes
  <2> HIDE DEF none, done
  <2>5. ASSUME s # <<>>, ~~AllTagged(s, "array") PROVE Makes(k, cut)
    BY <2>4, <2>5, MakesUnless, PlainErrors
  <2> HIDE DEF cut
  <2>6. ASSUME s # <<>> PROVE Makes(k, typed)
    BY <2>5, <2>6, MakesUnless, PlainErrors
  <2> HIDE DEF typed
  <2> QED
    BY <2>3, <2>6
<1> HIDE DEF out
<1>6. Makes(k, Typed(k, <<"array">>, out))
  BY <1>5, MakesTyped1
<1> QED
  BY <1>1, <1>3, <1>4, <1>6 DEF TransposeFunction, out, typed, cut, done, none

LEMMA TransposeGood ==
    ASSUME NEW k, Sound(k)
    PROVE  Good(k, TransposeFunction(k))
BY TransposeMakes DEF Makes

LEMMA WindowFits ==
    ASSUME NEW size \in Nat, NEW n \in Int, NEW d \in Int, n > 0, d > 0,
           NEW windows, windows = IF size >= n THEN (size - n) \div d + 1 ELSE 0
    PROVE  windows \in Nat /\ \A w \in 1..windows :
               (w - 1) * d + 1 \in Int /\ (w - 1) * d + n \in Int
               /\ (w - 1) * d + 1 >= 1 /\ (w - 1) * d + n <= size
<1>1. CASE size >= n
  <2>1. PICK r \in Nat : r = size - n
    BY <1>1
  <2>2. PICK q \in Int : q = r \div d
    OBVIOUS
  <2>3. q >= 0 /\ d * q <= r
    BY <2>2
  <2>4. windows = q + 1
    BY <1>1, <2>1, <2>2
  <2>5. ASSUME NEW w \in 1..windows
        PROVE  (w - 1) * d + 1 \in Int /\ (w - 1) * d + n \in Int
               /\ (w - 1) * d + 1 >= 1 /\ (w - 1) * d + n <= size
    <3>1. PICK v \in Nat : v = w - 1 /\ v <= q
      BY <2>3, <2>4
    <3>2. PICK a \in Int : a = v * d
      OBVIOUS
    <3>3. PICK c \in Int : c = d * q
      BY <2>2
    <3>4. 0 <= a /\ a <= c
      BY <2>2, <3>1, <3>2, <3>3
    <3> QED
      BY <2>1, <2>3, <3>1, <3>2, <3>3, <3>4
  <2> QED
    BY <2>3, <2>4, <2>5
<1>2. CASE ~(size >= n)
  BY <1>2
<1> QED
  BY <1>1, <1>2

LEMMA PartitionMakes ==
    ASSUME NEW k, Sound(k)
    PROVE  Makes(k, PartitionFunction(k))
<1>1. PICK s : s = Body(k, 2)
  OBVIOUS
<1>2. PICK n : n = DataAt(k, 1)
  OBVIOUS
<1>3. PICK d : d = DataAt(k, 0)
  OBVIOUS
<1>4. PICK windows : windows = IF Len(s) >= n THEN (Len(s) - n) \div d + 1 ELSE 0
  OBVIOUS
<1>5. PICK bodies : bodies = [w \in 1..windows |-> SubSeq(s, (w - 1) * d + 1, (w - 1) * d + n)]
  OBVIOUS
<1> DEFINE done == Nested(k, 3, bodies)
           out == Unless(k, n <= 0 \/ d <= 0, "RangeCheck", done)
<1>6. ASSUME Load(k) >= 3 /\ Matches(k, 2, "array") /\ Matches(k, 1, "integer") /\ Matches(k, 0, "integer")
      PROVE  Makes(k, out)
  <2>1. TagAt(k, 2) \in ArrayTags
    BY <1>6, CompositesAreTypes, MatchesType, KindOf
  <2>2. PICK M \in Nat : s \in Seq(Toks(k.heap)) /\ M = Len(s)
    BY <1>1, <1>6, <2>1, LoadIsNat, ArrayOperand, SeqParts
  <2>3. n \in Int /\ d \in Int
    BY <1>2, <1>3, <1>6, LoadIsNat, OperandParts, CompositesAreTypes, MatchesType
  <2>4. ASSUME ~(n <= 0 \/ d <= 0) PROVE Makes(k, done)
    <3>1. n > 0 /\ d > 0
      BY <2>3, <2>4
    <3>2. windows \in Nat /\ \A w \in 1..windows :
               (w - 1) * d + 1 \in Int /\ (w - 1) * d + n \in Int
               /\ (w - 1) * d + 1 >= 1 /\ (w - 1) * d + n <= M
      BY <1>4, <2>2, <2>3, <3>1, WindowFits
    <3>3. ASSUME NEW w \in 1..windows PROVE bodies[w] \in Seq(Toks(k.heap))
      <4>1. PICK i \in Int : i = (w - 1) * d + 1 /\ i >= 1
        BY <3>2
      <4>2. PICK j \in Int : j = (w - 1) * d + n /\ j <= M
        BY <3>2
      <4>3. bodies[w] = SubSeq(s, i, j)
        BY <1>5, <4>1, <4>2
      <4>4. SubSeq(s, i, j) \in Seq(Toks(k.heap))
        BY <2>2, <4>1, <4>2, SeqCut
      <4> QED
        BY <4>3, <4>4
    <3>4. bodies = [w \in 1..windows |-> bodies[w]]
      BY <1>5
    <3>5. bodies \in Seq(Seq(Toks(k.heap)))
      <4>1. PICK S : S = Seq(Toks(k.heap))
        OBVIOUS
      <4>2. windows \in Int
        BY <3>2
      <4> QED
        BY <3>3, <3>4, <4>1, <4>2, SeqBuilt
    <3> QED
      BY <1>6, <3>5, NestedMakes
  <2> HIDE DEF done
  <2> QED
    BY <2>4, MakesUnless, PlainErrors
<1> HIDE DEF out
<1>7. PICK sig : sig = <<"array", "integer", "integer">>
  OBVIOUS
<1>8. Makes(k, Typed(k, sig, out))
  BY <1>6, <1>7, MakesTyped3
<1> QED
  BY <1>1, <1>2, <1>3, <1>4, <1>5, <1>7, <1>8 DEF PartitionFunction, out, done

LEMMA PartitionGood ==
    ASSUME NEW k, Sound(k)
    PROVE  Good(k, PartitionFunction(k))
BY PartitionMakes DEF Makes
===============================================================================
