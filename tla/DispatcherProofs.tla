---------------------------- MODULE DispatcherProofs ---------------------------
(***************************************************************************)
(* The frames of the execution stack, for any programs: nothing that the   *)
(* dispatcher or a control operator does leaves a part of a frame, or a    *)
(* mark that belongs to none.                                              *)
(***************************************************************************)
EXTENDS Dispatcher, Numbers, TLAPS

-----------------------------------------------------------------------------
(* Stacks *)

IsStack(s) == \E S : s \in Seq(S)

LEMMA StackLength ==
    ASSUME NEW s, IsStack(s)
    PROVE  Len(s) \in Nat /\ DOMAIN s = 1..Len(s) /\ (s = <<>> <=> Len(s) = 0)
BY DEF IsStack

LEMMA StackAppend ==
    ASSUME NEW s, NEW x, IsStack(s)
    PROVE  /\ IsStack(Append(s, x)) /\ Len(Append(s, x)) = Len(s) + 1
           /\ Append(s, x)[Len(s) + 1] = x
           /\ \A i \in 1..Len(s) : Append(s, x)[i] = s[i]
<1>1. PICK S : s \in Seq(S)
  BY DEF IsStack
<1>2. s \in Seq(S \cup {x}) /\ x \in S \cup {x}
  BY <1>1
<1>3. Append(s, x) \in Seq(S \cup {x})
  BY <1>2
<1> QED
  BY <1>2, <1>3 DEF IsStack

LEMMA StackPrefix ==
    ASSUME NEW s, NEW m, IsStack(s), m \in 0..Len(s)
    PROVE  /\ IsStack(SubSeq(s, 1, m)) /\ Len(SubSeq(s, 1, m)) = m
           /\ \A i \in 1..m : SubSeq(s, 1, m)[i] = s[i]
<1>1. PICK S : s \in Seq(S)
  BY DEF IsStack
<1>2. Len(s) \in Nat /\ m \in Nat /\ m <= Len(s)
  BY <1>1
<1>3. \A i \in 1..m : i \in 1..Len(s)
  BY <1>2
<1>4. SubSeq(s, 1, m) = [i \in 1..m |-> s[i]]
  BY <1>1, <1>2
<1>5. \A i \in 1..m : s[i] \in S
  BY <1>1, <1>3
<1>6. [i \in 1..m |-> s[i]] \in Seq(S) /\ Len([i \in 1..m |-> s[i]]) = m
  BY <1>2, <1>5
<1> QED
  BY <1>4, <1>6 DEF IsStack

LEMMA StackConcat ==
    ASSUME NEW s, NEW t, IsStack(s), IsStack(t)
    PROVE  /\ IsStack(s \o t) /\ Len(s \o t) = Len(s) + Len(t)
           /\ \A i \in 1..Len(s) : (s \o t)[i] = s[i]
           /\ \A i \in 1..Len(t) : (s \o t)[Len(s) + i] = t[i]
<1>1. PICK S : s \in Seq(S)
  BY DEF IsStack
<1>2. PICK T : t \in Seq(T)
  BY DEF IsStack
<1>3. s \in Seq(S \cup T) /\ t \in Seq(S \cup T)
  BY <1>1, <1>2
<1>4. s \o t \in Seq(S \cup T)
  BY <1>3
<1> QED
  BY <1>3, <1>4 DEF IsStack

\* The same in the words of the token stack.
LEMMA StackDrop ==
    ASSUME NEW s, NEW n, IsStack(s), n \in 0..Len(s)
    PROVE  /\ IsStack(Drop(s, n)) /\ Len(Drop(s, n)) = Len(s) - n
           /\ Drop(s, n) = SubSeq(s, 1, Len(s) - n)
           /\ \A i \in 1..(Len(s) - n) : Drop(s, n)[i] = s[i]
<1> DEFINE m == Len(s) - n
<1>1. m \in 0..Len(s)
  BY StackLength
<1> HIDE DEF m
<1>2. IsStack(SubSeq(s, 1, m)) /\ Len(SubSeq(s, 1, m)) = m /\ \A i \in 1..m : SubSeq(s, 1, m)[i] = s[i]
  BY <1>1, StackPrefix
<1> QED
  BY <1>2 DEF Drop, m

LEMMA StackSetPick ==
    ASSUME NEW s, NEW k, NEW x, IsStack(s), k \in 0..(Len(s) - 1)
    PROVE  /\ IsStack(SetPick(s, k, x)) /\ Len(SetPick(s, k, x)) = Len(s)
           /\ SetPick(s, k, x)[Len(s) - k] = x
           /\ \A i \in 1..Len(s) : i # Len(s) - k => SetPick(s, k, x)[i] = s[i]
<1>1. PICK n \in 1..Len(s) : n = Len(s) - k
  BY StackLength
<1>2. PICK t : t = [s EXCEPT ![n] = x]
  OBVIOUS
<1>3. SetPick(s, k, x) = t
  BY <1>1, <1>2 DEF SetPick
<1>4. IsStack(t) /\ Len(t) = Len(s) /\ t[n] = x /\ \A i \in 1..Len(s) : i # n => t[i] = s[i]
  <2>1. PICK S : s \in Seq(S)
    BY DEF IsStack
  <2>2. s \in Seq(S \cup {x})
    BY <2>1
  <2>3. t \in Seq(S \cup {x})
    BY <1>2, <2>2
  <2> QED
    BY <1>2, <2>2, <2>3 DEF IsStack
<1> QED
  BY <1>1, <1>3, <1>4

\* Two stacks with the same elements are the same.
LEMMA SameStack ==
    ASSUME NEW s, NEW t, IsStack(s), IsStack(t), Len(s) = Len(t), \A i \in 1..Len(s) : s[i] = t[i]
    PROVE  s = t
<1>1. PICK S : s \in Seq(S)
  BY DEF IsStack
<1>2. PICK T : t \in Seq(T)
  BY DEF IsStack
<1>3. s = [i \in 1..Len(s) |-> s[i]] /\ t = [i \in 1..Len(t) |-> t[i]]
  BY <1>1, <1>2
<1> QED
  BY <1>3

-----------------------------------------------------------------------------
(* Tokens *)

LEMMA TokenParts ==
    /\ \A x : Tag(IntTok(x)) = "integer" /\ Data(IntTok(x)) = x
    /\ \A x : Tag(Bool(x)) = "bool" /\ Data(Bool(x)) = x
    /\ \A x : Tag(Lit(x)) = "literal" /\ Data(Lit(x)) = x
    /\ \A x : Tag(NameTok(x)) = "name" /\ Data(NameTok(x)) = x
    /\ \A x : Tag(Proc(x)) = "procedure" /\ Data(Proc(x)) = x
    /\ \A x : Tag(Array(x)) = "array" /\ Data(Array(x)) = x
    /\ \A x : Tag(Fn(x)) = "function" /\ Data(Fn(x)) = x
    /\ \A x : Tag(Trie(x)) = "trie" /\ Data(Trie(x)) = x
    /\ \A x : Tag(Marker(x)) = x
    /\ Tag(MarkTok) = "mark" /\ Tag(Unbound) = "unbound"
BY DEF Tag, Data, IntTok, Bool, Lit, NameTok, Proc, Array, Fn, Trie, Marker, MarkTok, Unbound

\* What a token that programs can hold may be.
Plain(t) ==
    /\ Tag(t) \in Tags \ (IterMarkers \cup {"xistream", "iparse"})
    /\ Tag(t) \in {"procedure", "litprocedure"} => Data(t) \in Procedures
    /\ Tag(t) = "function" => Data(t) \in Operators
    /\ Tag(t) = "trie" => Data(t) \in DOMAIN Tries
    /\ Tag(t) = "name" => Data(t) # Parse
HasElements(t) == Tag(t) \in {"array", "string"}

\* A value is such a token all the way down: it belongs to a set of such
\* tokens that holds the elements of its elements.
Closed(S) == \A t \in S : Plain(t) /\ (HasElements(t) => Data(t) \in Seq(S))
Value(t) == \E S : t \in S /\ Closed(S)
Values(s) == IsStack(s) /\ \A i \in 1..Len(s) : Value(s[i])

LEMMA ValueIsPlain ==
    ASSUME NEW t, Value(t)
    PROVE  Plain(t)
BY DEF Value, Closed

LEMMA ElementsAreValues ==
    ASSUME NEW t, Value(t), HasElements(t)
    PROVE  Values(Data(t))
<1>1. PICK S : t \in S /\ Closed(S)
  BY DEF Value
<1>2. Data(t) \in Seq(S)
  BY <1>1 DEF Closed
<1>3. PICK s : s = Data(t)
  OBVIOUS
<1>4. s \in Seq(S)
  BY <1>2, <1>3
<1>5. \A i \in 1..Len(s) : s[i] \in S
  BY <1>4
<1>6. \A i \in 1..Len(s) : Value(s[i])
  BY <1>1, <1>5 DEF Value
<1> QED
  BY <1>3, <1>4, <1>6 DEF Values, IsStack

LEMMA AtomIsValue ==
    ASSUME NEW t, Plain(t), ~HasElements(t)
    PROVE  Value(t)
<1>1. Closed({t})
  BY DEF Closed
<1> QED
  BY <1>1 DEF Value

LEMMA ArrayIsValue ==
    ASSUME NEW s, Values(s)
    PROVE  Value(Array(s))
<1> DEFINE Home(i) == CHOOSE S : s[i] \in S /\ Closed(S)
           U == UNION {Home(i) : i \in 1..Len(s)}
           V == U \cup {Array(s)}
<1>1. \A i \in 1..Len(s) : s[i] \in Home(i) /\ Closed(Home(i))
  BY DEF Values, Value
<1> HIDE DEF Home
<1>2. \A t \in U : \E i \in 1..Len(s) : t \in Home(i)
  OBVIOUS
<1>3. \A i \in 1..Len(s) : Home(i) \subseteq V /\ Seq(Home(i)) \subseteq Seq(V)
  <2>1. \A i \in 1..Len(s) : Home(i) \subseteq V
    OBVIOUS
  <2> HIDE DEF V
  <2>2. \A i \in 1..Len(s) : Seq(Home(i)) \subseteq Seq(V)
    BY <2>1
  <2> QED
    BY <2>1, <2>2
<1>4. s \in Seq(V)
  <2>1. \A i \in 1..Len(s) : s[i] \in V
    BY <1>1, <1>3
  <2> HIDE DEF V
  <2>2. PICK S : s \in Seq(S)
    BY DEF Values, IsStack
  <2> QED
    BY <2>1, <2>2
<1>5. \A t \in U : Plain(t) /\ (HasElements(t) => Data(t) \in Seq(V))
  <2> TAKE t \in U
  <2>1. PICK i \in 1..Len(s) : t \in Home(i)
    BY <1>2
  <2> HIDE DEF U, V
  <2>2. Plain(t) /\ (HasElements(t) => Data(t) \in Seq(Home(i)))
    BY <1>1, <2>1 DEF Closed
  <2> QED
    BY <1>3, <2>2
<1>6. Plain(Array(s)) /\ Data(Array(s)) = s
  BY TokenParts DEF Plain, Tags, DataTags, ExecTags, IterMarkers, LoopMarkers
<1>7. Closed(V)
  <2> HIDE DEF U
  <2> SUFFICES ASSUME NEW t \in V
               PROVE  Plain(t) /\ (HasElements(t) => Data(t) \in Seq(V))
    BY DEF Closed
  <2>1. t \in U \/ t = Array(s)
    OBVIOUS
  <2> HIDE DEF V
  <2> QED
    BY <1>4, <1>5, <1>6, <2>1
<1> QED
  BY <1>7 DEF Value

LEMMA LiteralIsValue ==
    ASSUME NEW t \in Literals
    PROVE  Value(t)
<1>1. \A u \in Literals : u \in Literals \cup Range(ConstNames)
  OBVIOUS
<1>2. Closed(Literals)
  BY <1>1, LiteralsAssumption DEF Closed, Plain, HasElements
<1> QED
  BY <1>2 DEF Value

LEMMA ConstantIsValue ==
    ASSUME NEW n \in DOMAIN ConstNames
    PROVE  Value(ConstNames[n]) /\ Tag(ConstNames[n]) \in DataTags
<1> DEFINE t == ConstNames[n]
<1>1. t \in Range(ConstNames)
  BY DEF Range
<1>2. Tag(t) \in DataTags
  BY LiteralsAssumption
<1> HIDE DEF t
<1>3. Plain(t)
  BY <1>2 DEF Plain, Tags, DataTags, ExecTags, IterMarkers, LoopMarkers
<1>4. HasElements(t) => Data(t) \in Seq(Literals)
  BY <1>1, LiteralsAssumption DEF HasElements
<1>5. Closed(Literals)
  <2>1. \A u \in Literals : u \in Literals \cup Range(ConstNames)
    OBVIOUS
  <2> QED
    BY <2>1, LiteralsAssumption DEF Closed, Plain, HasElements
<1> DEFINE V == Literals \cup {t}
<1>6. Seq(Literals) \subseteq Seq(V)
  OBVIOUS
<1>7. Closed(V)
  BY <1>3, <1>4, <1>5, <1>6 DEF Closed
<1>8. Value(t)
  BY <1>7 DEF Value
<1> QED
  BY <1>2, <1>8 DEF t

-----------------------------------------------------------------------------
(* Frames *)

Size(m) == Len(Layout[m])
SlotTags == {"mark", "integer", "array", "string", "procedure"}

LEMMA LayoutOf ==
    /\ Layout["iiterate"] = <<"procedure", "integer">>
    /\ Layout["irepeat"] = <<"mark", "integer", "procedure", "integer">>
    /\ Layout["ifor"] = <<"mark", "integer", "integer", "integer", "procedure", "integer">>
    /\ Layout["iforall"] = <<"mark", "array", "integer", "procedure", "integer">>
    /\ Layout["iloop"] = <<"mark", "procedure", "integer">>
    /\ Layout["iforallstring"] = <<"mark", "string", "integer", "procedure", "integer">>
    /\ Layout["iforallindexedarray"] =
           <<"mark", "array", "integer", "integer", "procedure", "integer">>
    /\ Layout["iforallindexedstring"] =
           <<"mark", "string", "integer", "integer", "procedure", "integer">>
    /\ Layout["imap"] = <<"mark", "integer", "array", "integer", "procedure", "integer">>
    /\ Layout["imapindexed"] = <<"mark", "integer", "array", "integer", "procedure", "integer">>
    /\ Layout["imapthread"] =
           <<"mark", "integer", "array", "array", "integer", "procedure", "integer">>
BY DEF Layout

LEMMA Sizes ==
    /\ Size("iiterate") = 2 /\ Size("irepeat") = 4 /\ Size("ifor") = 6
    /\ Size("iforall") = 5 /\ Size("iloop") = 3 /\ Size("iforallstring") = 5
    /\ Size("iforallindexedarray") = 6 /\ Size("iforallindexedstring") = 6
    /\ Size("imap") = 6 /\ Size("imapindexed") = 6 /\ Size("imapthread") = 7
BY LayoutOf DEF Size

\* return knows the sizes of the loops.
LEMMA ReturnSizes ==
    ASSUME NEW m \in LoopMarkers
    PROVE  ReturnSize[m] = Size(m) + 1
BY Sizes DEF ReturnSize, LoopMarkers

LEMMA LayoutShape ==
    ASSUME NEW m \in IterMarkers
    PROVE  /\ Size(m) \in 2..7 /\ DOMAIN Layout[m] = 1..Size(m)
           /\ Layout[m][Size(m)] = "integer" /\ Layout[m][Size(m) - 1] = "procedure"
           /\ \A k \in 1..Size(m) : Layout[m][k] \in SlotTags
           /\ \A k \in 2..Size(m) : Layout[m][k] # "mark"
           /\ m \in LoopMarkers => Layout[m][1] = "mark"
           /\ m = "iiterate" => Layout[m][1] = "procedure" /\ Size(m) = 2
<1>1. \A k \in 1..Size(m) : k \in {1, 2, 3, 4, 5, 6, 7}
  BY Sizes DEF IterMarkers, LoopMarkers
<1>2. \A k \in 2..Size(m) : k \in {2, 3, 4, 5, 6, 7}
  BY Sizes DEF IterMarkers, LoopMarkers
<1>3. DOMAIN Layout[m] = 1..Size(m)
  BY LayoutOf DEF Size, IterMarkers, LoopMarkers
<1>a. CASE m = "iiterate"
  BY <1>1, <1>2, <1>3, <1>a, LayoutOf, Sizes DEF SlotTags, LoopMarkers
<1>b. CASE m = "irepeat"
  BY <1>1, <1>2, <1>3, <1>b, LayoutOf, Sizes DEF SlotTags, LoopMarkers
<1>c. CASE m = "ifor"
  BY <1>1, <1>2, <1>3, <1>c, LayoutOf, Sizes DEF SlotTags, LoopMarkers
<1>d. CASE m = "iforall"
  BY <1>1, <1>2, <1>3, <1>d, LayoutOf, Sizes DEF SlotTags, LoopMarkers
<1>e. CASE m = "iloop"
  BY <1>1, <1>2, <1>3, <1>e, LayoutOf, Sizes DEF SlotTags, LoopMarkers
<1>f. CASE m = "iforallstring"
  BY <1>1, <1>2, <1>3, <1>f, LayoutOf, Sizes DEF SlotTags, LoopMarkers
<1>g. CASE m = "iforallindexedarray"
  BY <1>1, <1>2, <1>3, <1>g, LayoutOf, Sizes DEF SlotTags, LoopMarkers
<1>h. CASE m = "iforallindexedstring"
  BY <1>1, <1>2, <1>3, <1>h, LayoutOf, Sizes DEF SlotTags, LoopMarkers
<1>i. CASE m = "imap"
  BY <1>1, <1>2, <1>3, <1>i, LayoutOf, Sizes DEF SlotTags, LoopMarkers
<1>j. CASE m = "imapindexed"
  BY <1>1, <1>2, <1>3, <1>j, LayoutOf, Sizes DEF SlotTags, LoopMarkers
<1>k. CASE m = "imapthread"
  BY <1>1, <1>2, <1>3, <1>k, LayoutOf, Sizes DEF SlotTags, LoopMarkers
<1> QED
  BY <1>a, <1>b, <1>c, <1>d, <1>e, <1>f, <1>g, <1>h, <1>i, <1>j, <1>k DEF IterMarkers, LoopMarkers

\* The frame whose marker is the j-th slot of E: its layout, a position in
\* the body of its procedure, and what its other slots count.
Start(E, j) == j - Size(Tag(E[j]))
Rows(sources, target) ==
    \A r \in 1..Len(sources) : Tag(sources[r]) = "array" /\ Len(Data(sources[r])) = Len(target)
Contents(E, j) ==
    /\ Tag(E[j]) \in {"iforall", "iforallstring"} => Data(E[j-3]) \in Nat
    /\ Tag(E[j]) \in {"iforallindexedarray", "iforallindexedstring"} =>
          Data(E[j-3]) \in Nat /\ Data(E[j-4]) \in Nat /\ Data(E[j-4]) <= Len(Data(E[j-5]))
    /\ Tag(E[j]) \in {"imap", "imapindexed"} =>
          Data(E[j-3]) \in Nat /\ Len(Data(E[j-4])) > 0 /\ Data(E[j-5]) \in Nat \ {0}
    /\ Tag(E[j]) = "imapthread" =>
          /\ Data(E[j-3]) \in Nat /\ Len(Data(E[j-4])) > 0 /\ Data(E[j-6]) \in Nat \ {0}
          /\ Rows(Data(E[j-5]), Data(E[j-4]))
FrameOk(g, E, j) ==
    /\ HasLayout(E, Start(E, j), Layout[Tag(E[j])])
    /\ Data(E[j-1]) \in 0..Len(g.body[Data(E[j-2])])
    /\ Contents(E, j)

LEMMA FrameSlots ==
    ASSUME NEW g, NEW E, NEW j, IsStack(E), j \in 1..Len(E), Tag(E[j]) \in IterMarkers,
           FrameOk(g, E, j)
    PROVE  /\ Start(E, j) \in 1..(j-2) /\ Start(E, j) = j - Size(Tag(E[j]))
           /\ \A k \in Start(E, j)..(j-1) : Tag(E[k]) \in SlotTags
           /\ \A k \in (Start(E, j) + 1)..(j-1) : Tag(E[k]) # "mark"
           /\ Tag(E[j-1]) = "integer" /\ Tag(E[j-2]) = "procedure"
           /\ Tag(E[j]) \in LoopMarkers => Tag(E[Start(E, j)]) = "mark"
           /\ Tag(E[j]) = "iiterate" => Start(E, j) = j - 2
<1> DEFINE m == Tag(E[j])
           n == Size(m)
           lo == Start(E, j)
<1>1. /\ n \in 2..7 /\ DOMAIN Layout[m] = 1..n
      /\ Layout[m][n] = "integer" /\ Layout[m][n-1] = "procedure"
      /\ \A k \in 1..n : Layout[m][k] \in SlotTags
      /\ \A k \in 2..n : Layout[m][k] # "mark"
      /\ m \in LoopMarkers => Layout[m][1] = "mark"
      /\ m = "iiterate" => n = 2
  BY LayoutShape
<1>2. lo = j - n /\ j \in Int
  BY DEF Start
<1>3. lo >= 1 /\ \A k \in 1..n : Tag(E[lo + k - 1]) = Layout[m][k]
  BY <1>1 DEF FrameOk, HasLayout
<1> HIDE DEF m, n, lo
<1>4. \A k \in lo..(j-1) : k - lo + 1 \in 1..n /\ lo + (k - lo + 1) - 1 = k
  <2>1. n \in Int
    BY <1>1
  <2> QED
    BY <1>2, <2>1
<1>5. \A k \in lo..(j-1) : Tag(E[k]) = Layout[m][k - lo + 1]
  <2> TAKE k \in lo..(j-1)
  <2>1. PICK l \in 1..n : l = k - lo + 1 /\ lo + l - 1 = k
    BY <1>4
  <2>2. Tag(E[lo + l - 1]) = Layout[m][l]
    BY <1>3
  <2> QED
    BY <2>1, <2>2
<1>6. \A k \in lo..(j-1) : Tag(E[k]) \in SlotTags
  BY <1>1, <1>4, <1>5
<1>7. \A k \in (lo+1)..(j-1) : Tag(E[k]) # "mark"
  <2> TAKE k \in (lo+1)..(j-1)
  <2>1. k \in lo..(j-1) /\ k - lo + 1 \in 2..n
    BY <1>1, <1>2, <1>3
  <2> QED
    BY <1>1, <1>5, <2>1
<1>8. /\ j-1 \in lo..(j-1) /\ j-2 \in lo..(j-1) /\ lo \in lo..(j-1)
      /\ (j-1) - lo + 1 = n /\ (j-2) - lo + 1 = n - 1 /\ lo - lo + 1 = 1
  BY <1>1, <1>2, <1>3
<1>9. Tag(E[j-1]) = "integer" /\ Tag(E[j-2]) = "procedure" /\ Tag(E[lo]) = Layout[m][1]
  <2>1. PICK a \in lo..(j-1) : a = j-1 /\ a - lo + 1 = n
    BY <1>8
  <2>2. PICK b \in lo..(j-1) : b = j-2 /\ b - lo + 1 = n - 1
    BY <1>8
  <2>3. PICK c \in lo..(j-1) : c = lo /\ c - lo + 1 = 1
    BY <1>8
  <2> QED
    BY <1>1, <1>5, <2>1, <2>2, <2>3
<1> QED
  BY <1>1, <1>2, <1>3, <1>6, <1>7, <1>9 DEF m, n, lo

\* A frame depends on nothing above it.
LEMMA SameFrame ==
    ASSUME NEW g, NEW E, NEW F, NEW j, IsStack(E), j \in 1..Len(E), Tag(E[j]) \in IterMarkers,
           \A k \in 1..j : F[k] = E[k], FrameOk(g, E, j)
    PROVE  FrameOk(g, F, j) /\ Start(F, j) = Start(E, j)
<1> DEFINE m == Tag(E[j])
           n == Size(m)
<1>1. /\ Start(E, j) \in 1..(j-2) /\ Start(E, j) = j - n /\ j \in Nat
      /\ n \in 2..7 /\ DOMAIN Layout[m] = 1..n
  BY FrameSlots, LayoutShape
<1>2. F[j] = E[j] /\ F[j-1] = E[j-1] /\ F[j-2] = E[j-2]
  <2>1. j \in 1..j /\ j-1 \in 1..j /\ j-2 \in 1..j
    BY <1>1
  <2> QED
    BY <2>1
<1>3. Start(F, j) = Start(E, j)
  BY <1>2 DEF Start
<1>4. HasLayout(F, Start(F, j), Layout[Tag(F[j])])
  <2>1. PICK lo \in 1..(j-2) : lo = Start(E, j) /\ lo = j - n
    BY <1>1
  <2>2. \A k \in 1..n : Tag(E[lo + k - 1]) = Layout[m][k]
    BY <1>1, <2>1 DEF FrameOk, HasLayout
  <2>5. Tag(F[j]) = m
    BY <1>2
  <2> HIDE DEF n, m
  <2>3. \A k \in 1..n : lo + k - 1 \in 1..j
    BY <1>1, <2>1
  <2>4. \A k \in 1..n : Tag(F[lo + k - 1]) = Layout[m][k]
    BY <2>2, <2>3
  <2>6. HasLayout(F, lo, Layout[m])
    BY <1>1, <2>1, <2>4 DEF HasLayout
  <2> QED
    BY <1>3, <2>1, <2>5, <2>6
<1>5. Data(F[j-1]) \in 0..Len(g.body[Data(F[j-2])])
  BY <1>2 DEF FrameOk
<1>6. Contents(F, j)
  <2>1. Contents(E, j)
    BY DEF FrameOk
  <2>2. Tag(F[j]) = m
    BY <1>2
  <2>a. CASE m \in {"iforall", "iforallstring"}
    <3>1. j-3 \in 1..j
      BY <1>1, <2>a, Sizes
    <3> QED
      BY <2>1, <2>2, <2>a, <3>1 DEF Contents
  <2>b. CASE m \in {"iforallindexedarray", "iforallindexedstring"}
    <3>1. j-3 \in 1..j /\ j-4 \in 1..j /\ j-5 \in 1..j
      BY <1>1, <2>b, Sizes
    <3> QED
      BY <2>1, <2>2, <2>b, <3>1 DEF Contents
  <2>c. CASE m \in {"imap", "imapindexed"}
    <3>1. j-3 \in 1..j /\ j-4 \in 1..j /\ j-5 \in 1..j
      BY <1>1, <2>c, Sizes
    <3> QED
      BY <2>1, <2>2, <2>c, <3>1 DEF Contents
  <2>d. CASE m = "imapthread"
    <3>1. j-3 \in 1..j /\ j-4 \in 1..j /\ j-5 \in 1..j /\ j-6 \in 1..j
      <4>1. PICK lo \in 1..(j-2) : lo = j - 7
        <5>1. Size(m) = 7
          BY <2>d, Sizes
        <5> QED
          BY <1>1, <5>1
      <4>2. j \in Nat
        BY <1>1
      <4> QED
        BY <4>1, <4>2
    <3>2. F[j-3] = E[j-3] /\ F[j-4] = E[j-4] /\ F[j-5] = E[j-5] /\ F[j-6] = E[j-6]
      BY <3>1
    <3> QED
      BY <2>1, <2>2, <2>d, <3>2 DEF Contents
  <2> QED
    BY <2>2, <2>a, <2>b, <2>c, <2>d DEF Contents
<1> QED
  BY <1>3, <1>4, <1>5, <1>6 DEF FrameOk

\* A stack of whole frames.  Only stop goes on top of a mark that begins no
\* frame, or of a procedure that has nothing left to run.
Slot(t) == Value(t) \/ Tag(t) \in IterMarkers \cup {"iparse", "xistream"} \/ t = NameTok(Parse)
Unspent(g, E, i) == Tag(E[i]) = "iiterate" => Data(E[i-1]) < Len(g.body[Data(E[i-2])])
Frames(g, E) == \A j \in 1..Len(E) : Tag(E[j]) \in IterMarkers => FrameOk(g, E, j)
Begins(E, i) == \E j \in 1..Len(E) : Tag(E[j]) \in LoopMarkers /\ Start(E, j) = i
Marks(E) ==
    \A i \in 1..Len(E) : Tag(E[i]) = "mark" => i = Len(E) \/ E[i+1] = Fn("stop") \/ Begins(E, i)
Waiting(g, E) ==
    ~ g.backtrace => \A i \in 1..(Len(E) - 1) : Unspent(g, E, i) \/ E[i+1] = Fn("stop")
Parsers(E) ==
    \A i \in 1..Len(E) :
        Tag(E[i]) = "iparse" \/ E[i] = NameTok(Parse) => i > 1 /\ Tag(E[i-1]) = "xistream"
Whole(g, E) ==
    /\ IsStack(E) /\ Frames(g, E) /\ Marks(E) /\ Waiting(g, E) /\ Parsers(E)
    /\ \A i \in 1..Len(E) : Slot(E[i])

\* No frame reaches over the m-th slot.
Clean(E, m) == \A j \in 1..Len(E) : Tag(E[j]) \in IterMarkers => j <= m \/ Start(E, j) > m

\* Anything may be pushed.
Ready(g, E) ==
    Len(E) > 0 => Tag(E[Len(E)]) # "mark" /\ (~ g.backtrace => Unspent(g, E, Len(E)))

LEMMA FramesAreApart ==
    ASSUME NEW g, NEW E, IsStack(E), Frames(g, E), NEW j \in 1..Len(E), NEW k \in 1..Len(E),
           Tag(E[j]) \in IterMarkers, Tag(E[k]) \in IterMarkers, j < k
    PROVE  j < Start(E, k)
<1>1. /\ Start(E, k) \in 1..(k-2)
      /\ \A i \in Start(E, k)..(k-1) : Tag(E[i]) \in SlotTags
  BY FrameSlots DEF Frames
<1>2. Tag(E[j]) \notin SlotTags
  BY DEF IterMarkers, LoopMarkers, SlotTags
<1>3. Len(E) \in Nat
  BY StackLength
<1>4. SUFFICES ASSUME ~(j < Start(E, k)) PROVE FALSE
  OBVIOUS
<1>5. j \in Start(E, k)..(k-1)
  BY <1>1, <1>3, <1>4
<1> QED
  BY <1>1, <1>2, <1>5

\* A cut below a frame is clean, and so is one below what is in no frame.
LEMMA CutBelowFrame ==
    ASSUME NEW g, NEW E, IsStack(E), Frames(g, E), NEW j \in 1..Len(E), Tag(E[j]) \in IterMarkers
    PROVE  Clean(E, Start(E, j) - 1)
<1>1. Len(E) \in Nat /\ Start(E, j) \in 1..(j-2)
  BY StackLength, FrameSlots DEF Frames
<1> SUFFICES ASSUME NEW k \in 1..Len(E), Tag(E[k]) \in IterMarkers
             PROVE  k <= Start(E, j) - 1 \/ Start(E, k) > Start(E, j) - 1
  BY DEF Clean
<1>2. Start(E, k) \in 1..(k-2)
  BY FrameSlots DEF Frames
<1>a. CASE k < j
  <2>1. k < Start(E, j)
    BY <1>a, FramesAreApart
  <2> QED
    BY <1>1, <2>1
<1>b. CASE k = j
  BY <1>1, <1>b
<1>c. CASE j < k
  <2>1. j < Start(E, k)
    BY <1>c, FramesAreApart
  <2> QED
    BY <1>1, <1>2, <2>1
<1> QED
  BY <1>1, <1>a, <1>b, <1>c

LEMMA CutBelow ==
    ASSUME NEW g, NEW E, IsStack(E), Frames(g, E), NEW m \in 1..Len(E),
           Tag(E[m]) = "mark" \/ Tag(E[m]) \notin SlotTags \cup IterMarkers
    PROVE  Clean(E, m - 1)
<1>1. Len(E) \in Nat
  BY StackLength
<1> SUFFICES ASSUME NEW k \in 1..Len(E), Tag(E[k]) \in IterMarkers, ~(k <= m - 1), ~(Start(E, k) > m - 1)
             PROVE  FALSE
  BY DEF Clean
<1>2. /\ Start(E, k) \in 1..(k-2)
      /\ \A i \in Start(E, k)..(k-1) : Tag(E[i]) \in SlotTags
      /\ \A i \in (Start(E, k)+1)..(k-1) : Tag(E[i]) # "mark"
  BY FrameSlots DEF Frames
<1>3. m # k
  BY DEF IterMarkers, LoopMarkers
<1>4. m \in (Start(E, k)+1)..(k-1) \/ m = Start(E, k)
  BY <1>1, <1>2, <1>3
<1> QED
  BY <1>1, <1>2, <1>4

-----------------------------------------------------------------------------
(* Cutting and extending whole stacks *)

LEMMA SlotIsValue ==
    ASSUME NEW t, Slot(t), Tag(t) \notin IterMarkers \cup {"iparse", "xistream", "name"}
    PROVE  Value(t)
BY TokenParts DEF Slot

LEMMA SameUnspent ==
    ASSUME NEW g, NEW E, NEW F, NEW i, IsStack(E), Frames(g, E), i \in 1..Len(E),
           \A k \in 1..i : F[k] = E[k]
    PROVE  Unspent(g, F, i) <=> Unspent(g, E, i)
<1>1. F[i] = E[i]
  <2>1. i \in 1..i
    BY StackLength
  <2> QED
    BY <2>1
<1>a. CASE Tag(E[i]) = "iiterate"
  <2>1. Start(E, i) = i - 2 /\ Start(E, i) \in 1..(i-2)
    BY <1>a, FrameSlots DEF Frames, IterMarkers
  <2>2. i-1 \in 1..i /\ i-2 \in 1..i
    BY <2>1, StackLength
  <2> QED
    BY <1>1, <2>2 DEF Unspent
<1> QED
  BY <1>1, <1>a DEF Unspent

LEMMA PrefixIsWhole ==
    ASSUME NEW g, NEW E, NEW m \in 0..Len(E), Whole(g, E), Clean(E, m),
           NEW F, F = SubSeq(E, 1, m)
    PROVE  Whole(g, F) /\ Len(F) = m /\ \A i \in 1..m : F[i] = E[i]
<1>1. IsStack(E) /\ Frames(g, E) /\ Marks(E) /\ Waiting(g, E) /\ Parsers(E)
  BY DEF Whole
<1>2. Len(E) \in Nat /\ m \in Nat /\ m <= Len(E)
  BY <1>1, StackLength
<1>3. IsStack(F) /\ Len(F) = m /\ \A i \in 1..m : F[i] = E[i]
  BY <1>1, StackPrefix
<1>4. \A i \in 1..m : i \in 1..Len(E) /\ \A k \in 1..i : k \in 1..m
  BY <1>2
<1>5. Frames(g, F)
  BY <1>1, <1>3, <1>4, SameFrame DEF Frames
<1>6. Marks(F)
  <2> SUFFICES ASSUME NEW i \in 1..m, Tag(F[i]) = "mark", i # m
               PROVE  F[i+1] = Fn("stop") \/ Begins(F, i)
    BY <1>3 DEF Marks
  <2>1. i+1 \in 1..m /\ i # Len(E) /\ i \in 1..Len(E)
    BY <1>2
  <2>2. E[i+1] = Fn("stop") \/ Begins(E, i)
    BY <1>1, <1>3, <2>1 DEF Marks
  <2>a. CASE E[i+1] = Fn("stop")
    BY <1>3, <2>1, <2>a
  <2>b. CASE Begins(E, i)
    <3>1. PICK j \in 1..Len(E) : Tag(E[j]) \in LoopMarkers /\ Start(E, j) = i
      BY <2>b DEF Begins
    <3>2. j <= m
      BY <1>2, <3>1 DEF Clean, IterMarkers
    <3>3. j \in 1..m /\ F[j] = E[j]
      BY <1>2, <1>3, <3>2
    <3> QED
      BY <1>3, <3>1, <3>3 DEF Begins, Start
  <2> QED
    BY <2>2, <2>a, <2>b
<1>7. Waiting(g, F)
  <2> SUFFICES ASSUME ~ g.backtrace, NEW i \in 1..(m - 1)
               PROVE  Unspent(g, F, i) \/ F[i+1] = Fn("stop")
    BY <1>3 DEF Waiting
  <2>1. i \in 1..m /\ i+1 \in 1..m /\ i \in 1..(Len(E) - 1) /\ i \in 1..Len(E)
    BY <1>2
  <2>2. Unspent(g, E, i) \/ E[i+1] = Fn("stop")
    BY <1>1, <2>1 DEF Waiting
  <2>3. \A k \in 1..i : F[k] = E[k]
    BY <1>3, <1>4, <2>1
  <2> QED
    BY <1>1, <1>3, <2>1, <2>2, <2>3, SameUnspent
<1>8. Parsers(F)
  <2> SUFFICES ASSUME NEW i \in 1..m, Tag(F[i]) = "iparse" \/ F[i] = NameTok(Parse)
               PROVE  i > 1 /\ Tag(F[i-1]) = "xistream"
    BY <1>3 DEF Parsers
  <2>1. i > 1 /\ Tag(E[i-1]) = "xistream"
    BY <1>1, <1>3, <1>4 DEF Parsers
  <2>2. i-1 \in 1..m
    BY <1>2, <2>1
  <2> QED
    BY <1>3, <2>1, <2>2
<1>9. \A i \in 1..m : Slot(F[i])
  BY <1>3, <1>4 DEF Whole
<1> QED
  BY <1>3, <1>5, <1>6, <1>7, <1>8, <1>9 DEF Whole

\* What something other than stop lies on is ready for more.
LEMMA PrefixIsReady ==
    ASSUME NEW g, NEW E, NEW m \in 0..Len(E), Whole(g, E), Clean(E, m),
           NEW F, F = SubSeq(E, 1, m), m < Len(E), E[m+1] # Fn("stop")
    PROVE  Ready(g, F)
<1>1. IsStack(E) /\ Frames(g, E) /\ Marks(E) /\ Waiting(g, E)
  BY DEF Whole
<1>2. Len(E) \in Nat /\ m \in Nat /\ m < Len(E)
  BY <1>1, StackLength
<1>3. IsStack(F) /\ Len(F) = m /\ \A i \in 1..m : F[i] = E[i]
  BY <1>1, StackPrefix
<1> SUFFICES ASSUME m > 0
             PROVE  Tag(F[m]) # "mark" /\ (~ g.backtrace => Unspent(g, F, m))
  BY <1>3 DEF Ready
<1>4. m \in 1..m /\ m \in 1..Len(E) /\ m # Len(E) /\ m \in 1..(Len(E) - 1)
  BY <1>2
<1>5. ~ Begins(E, m)
  <2> SUFFICES ASSUME NEW j \in 1..Len(E), Tag(E[j]) \in LoopMarkers, Start(E, j) = m
               PROVE  FALSE
    BY DEF Begins
  <2>1. Tag(E[j]) \in IterMarkers
    BY DEF IterMarkers
  <2>2. Start(E, j) \in 1..(j-2)
    BY <1>1, <2>1, FrameSlots DEF Frames
  <2>3. j <= m
    BY <1>2, <2>1 DEF Clean
  <2> QED
    BY <1>2, <2>2, <2>3
<1>6. Tag(F[m]) # "mark"
  BY <1>1, <1>3, <1>4, <1>5 DEF Marks
<1>7. ~ g.backtrace => Unspent(g, E, m)
  BY <1>1, <1>4 DEF Waiting
<1>8. ~ g.backtrace => Unspent(g, F, m)
  BY <1>1, <1>3, <1>4, <1>7, SameUnspent
<1> QED
  BY <1>6, <1>8

LEMMA PushIsWhole ==
    ASSUME NEW g, NEW E, NEW t, Whole(g, E), Slot(t), Tag(t) \notin IterMarkers,
           Ready(g, E) \/ t = Fn("stop"),
           Tag(t) = "iparse" \/ t = NameTok(Parse) =>
               Len(E) > 0 /\ Tag(E[Len(E)]) = "xistream",
           NEW F, F = Append(E, t)
    PROVE  Whole(g, F)
<1>1. IsStack(E) /\ Frames(g, E) /\ Marks(E) /\ Waiting(g, E) /\ Parsers(E)
  BY DEF Whole
<1> DEFINE n == Len(E)
<1>2. n \in Nat
  BY <1>1, StackLength
<1>3. IsStack(F) /\ Len(F) = n + 1 /\ F[n+1] = t /\ \A i \in 1..n : F[i] = E[i]
  BY <1>1, StackAppend
<1> HIDE DEF n
<1>4. \A i \in 1..(n+1) : i \in 1..n \/ i = n + 1
  BY <1>2
<1>5. \A i \in 1..n : i \in 1..Len(E) /\ (\A k \in 1..i : F[k] = E[k]) /\ i \in 1..(n+1)
  BY <1>2, <1>3 DEF n
<1>6. Frames(g, F)
  <2> SUFFICES ASSUME NEW j \in 1..(n+1), Tag(F[j]) \in IterMarkers
               PROVE  FrameOk(g, F, j)
    BY <1>3 DEF Frames
  <2>1. j \in 1..n
    BY <1>3, <1>4
  <2> QED
    BY <1>1, <1>3, <1>5, <2>1, SameFrame DEF Frames
<1>7. Marks(F)
  <2> SUFFICES ASSUME NEW i \in 1..(n+1), Tag(F[i]) = "mark", i # n + 1
               PROVE  F[i+1] = Fn("stop") \/ Begins(F, i)
    BY <1>3 DEF Marks
  <2>1. i \in 1..n /\ (i # n => i+1 \in 1..n)
    BY <1>2, <1>4
  <2>a. CASE i = n
    <3>1. t = Fn("stop")
      BY <1>3, <2>1, <2>a DEF Ready, n
    <3> QED
      BY <1>3, <2>a, <3>1
  <2>b. CASE i # n
    <3>1. E[i+1] = Fn("stop") \/ Begins(E, i)
      BY <1>1, <1>3, <1>5, <2>1, <2>b DEF Marks, n
    <3>2. ASSUME NEW j \in 1..n, Tag(E[j]) \in LoopMarkers, Start(E, j) = i
          PROVE  Begins(F, i)
      BY <1>3, <1>5, <3>2 DEF Begins, Start
    <3> QED
      BY <1>3, <2>1, <2>b, <3>1, <3>2 DEF Begins, n
  <2> QED
    BY <2>a, <2>b
<1>8. Waiting(g, F)
  <2> SUFFICES ASSUME ~ g.backtrace, NEW i \in 1..n
               PROVE  Unspent(g, F, i) \/ F[i+1] = Fn("stop")
    BY <1>2, <1>3 DEF Waiting
  <2>1. Unspent(g, F, i) <=> Unspent(g, E, i)
    BY <1>1, <1>5, SameUnspent
  <2>a. CASE i = n
    BY <1>2, <1>3, <2>1, <2>a DEF Ready, n
  <2>b. CASE i # n
    <3>1. i \in 1..(n - 1) /\ i+1 \in 1..n
      BY <1>2, <2>b
    <3> QED
      BY <1>1, <1>3, <2>1, <3>1 DEF Waiting, n
  <2> QED
    BY <2>a, <2>b
<1>9. Parsers(F)
  <2> SUFFICES ASSUME NEW i \in 1..(n+1), Tag(F[i]) = "iparse" \/ F[i] = NameTok(Parse)
               PROVE  i > 1 /\ Tag(F[i-1]) = "xistream"
    BY <1>3 DEF Parsers
  <2>a. CASE i = n + 1
    <3>1. n > 0 /\ Tag(E[n]) = "xistream"
      BY <1>3, <2>a DEF n
    <3>2. n \in 1..n /\ i - 1 = n /\ i > 1
      BY <1>2, <2>a, <3>1
    <3> QED
      BY <1>3, <3>1, <3>2
  <2>b. CASE i \in 1..n
    <3>1. i > 1 /\ Tag(E[i-1]) = "xistream"
      BY <1>1, <1>3, <1>5, <2>b DEF Parsers, n
    <3>2. i - 1 \in 1..n
      BY <1>2, <2>b, <3>1
    <3> QED
      BY <1>3, <3>1, <3>2
  <2> QED
    BY <1>4, <2>a, <2>b
<1>10. \A i \in 1..(n+1) : Slot(F[i])
  BY <1>3, <1>4, <1>5 DEF Whole, n
<1> QED
  BY <1>3, <1>6, <1>7, <1>8, <1>9, <1>10 DEF Whole

LEMMA StopIsValue == Value(Fn("stop")) /\ Tag(Fn("stop")) = "function"
<1>1. "stop" \in Operators
  BY DEF Operators, Requires
<1>2. Plain(Fn("stop")) /\ ~HasElements(Fn("stop"))
  BY <1>1, TokenParts
     DEF Plain, HasElements, Tags, DataTags, ExecTags, IterMarkers, LoopMarkers
<1> QED
  BY <1>2, TokenParts, AtomIsValue

LEMMA ValueTags ==
    ASSUME NEW t, Value(t)
    PROVE  /\ Slot(t) /\ Tag(t) \in Tags \ (IterMarkers \cup {"xistream", "iparse"})
           /\ Tag(t) \notin IterMarkers /\ Tag(t) # "xistream"
           /\ ~(Tag(t) = "iparse" \/ t = NameTok(Parse))
<1>1. Plain(t)
  BY ValueIsPlain
<1> QED
  BY <1>1, TokenParts DEF Plain, Slot

LEMMA PushValue ==
    ASSUME NEW g, NEW E, NEW t, Whole(g, E), Value(t), Ready(g, E)
    PROVE  Whole(g, Append(E, t))
BY PushIsWhole, ValueTags

\* stop may be scheduled on anything.
LEMMA PushStop ==
    ASSUME NEW g, NEW E, Whole(g, E)
    PROVE  Whole(g, Append(E, Fn("stop")))
BY PushIsWhole, ValueTags, StopIsValue

LEMMA PushFrame ==
    ASSUME NEW g, NEW E, NEW F, Whole(g, E), Ready(g, E), IsStack(F), Len(F) > Len(E),
           \A i \in 1..Len(E) : F[i] = E[i], Tag(F[Len(F)]) \in IterMarkers,
           Start(F, Len(F)) = Len(E) + 1, FrameOk(g, F, Len(F)),
           \A i \in (Len(E) + 1)..(Len(F) - 1) : Value(F[i])
    PROVE  Whole(g, F)
<1>1. IsStack(E) /\ Frames(g, E) /\ Marks(E) /\ Waiting(g, E) /\ Parsers(E)
  BY DEF Whole
<1> DEFINE n == Len(E)
           l == Len(F)
<1>2. n \in Nat /\ l \in Nat /\ l > n /\ l \in 1..l
  BY <1>1, StackLength
<1> HIDE DEF n, l
<1>3. /\ Start(F, l) = n + 1 /\ n + 1 <= l - 2
      /\ \A k \in (n+1)..(l-1) : Tag(F[k]) \in SlotTags
      /\ \A k \in (n+2)..(l-1) : Tag(F[k]) # "mark"
      /\ Tag(F[l]) \in LoopMarkers => Tag(F[n+1]) = "mark"
      /\ Tag(F[l]) = "iiterate" => Tag(F[n+1]) = "procedure"
  <2>1. PICK lo : lo = Start(F, l)
    OBVIOUS
  <2>2. lo = n + 1
    BY <2>1 DEF n, l
  <2>3. /\ lo \in 1..(l-2)
        /\ \A k \in lo..(l-1) : Tag(F[k]) \in SlotTags
        /\ \A k \in (lo + 1)..(l-1) : Tag(F[k]) # "mark"
        /\ Tag(F[l-2]) = "procedure"
        /\ Tag(F[l]) \in LoopMarkers => Tag(F[lo]) = "mark"
        /\ Tag(F[l]) = "iiterate" => lo = l - 2
    <3>1. l \in 1..Len(F) /\ Tag(F[l]) \in IterMarkers /\ FrameOk(g, F, l)
      BY <1>2 DEF l
    <3> QED
      BY <2>1, <3>1, FrameSlots
  <2>4. (lo + 1) = n + 2
    BY <1>2, <2>2
  <2> QED
    BY <1>2, <2>1, <2>2, <2>3, <2>4
<1>4. \A i \in 1..l : i \in 1..n \/ i \in (n+1)..(l-1) \/ i = l
  BY <1>2
<1>5. \A i \in 1..n : F[i] = E[i] /\ i \in 1..Len(E) /\ (\A k \in 1..i : F[k] = E[k]) /\ i \in 1..l
  BY <1>2 DEF n
<1>6. \A k \in (n+1)..(l-1) :
         Tag(F[k]) \notin IterMarkers /\ Tag(F[k]) # "iparse" /\ F[k] # NameTok(Parse)
  <2>1. Tag(NameTok(Parse)) \notin SlotTags
    BY TokenParts DEF SlotTags
  <2> QED
    BY <1>3, <2>1 DEF SlotTags, IterMarkers, LoopMarkers
<1>7. Frames(g, F)
  <2> SUFFICES ASSUME NEW j \in 1..l, Tag(F[j]) \in IterMarkers
               PROVE  FrameOk(g, F, j)
    BY DEF Frames, l
  <2>a. CASE j \in 1..n
    BY <1>1, <1>5, <2>a, SameFrame DEF Frames
  <2>b. CASE j = l
    BY <2>b DEF l
  <2> QED
    BY <1>4, <1>6, <2>a, <2>b
<1>8. Marks(F)
  <2> SUFFICES ASSUME NEW i \in 1..l, Tag(F[i]) = "mark", i # l
               PROVE  F[i+1] = Fn("stop") \/ Begins(F, i)
    BY DEF Marks, l
  <2>a. CASE i \in 1..n
    <3>1. Tag(E[i]) = "mark"
      BY <1>5, <2>a
    <3>2. i # n /\ i+1 \in 1..n
      BY <1>2, <2>a, <3>1 DEF Ready, n
    <3>3. E[i+1] = Fn("stop") \/ Begins(E, i)
      BY <1>1, <1>5, <2>a, <3>1, <3>2 DEF Marks, n
    <3>4. ASSUME NEW j \in 1..n, Tag(E[j]) \in LoopMarkers, Start(E, j) = i
          PROVE  Begins(F, i)
      BY <1>5, <3>4 DEF Begins, Start, l
    <3> QED
      BY <1>5, <3>2, <3>3, <3>4 DEF Begins, n
  <2>b. CASE i \in (n+1)..(l-1)
    <3>1. i = n + 1
      BY <1>2, <1>3, <2>b
    <3>2. Tag(F[l]) \in LoopMarkers
      BY <1>3, <3>1 DEF IterMarkers, l
    <3> QED
      BY <1>2, <1>3, <3>1, <3>2 DEF Begins, l
  <2> QED
    BY <1>4, <2>a, <2>b
<1>9. Waiting(g, F)
  <2> SUFFICES ASSUME ~ g.backtrace, NEW i \in 1..(l - 1)
               PROVE  Unspent(g, F, i) \/ F[i+1] = Fn("stop")
    BY DEF Waiting, l
  <2>a. CASE i \in 1..n
    <3>1. Unspent(g, F, i) <=> Unspent(g, E, i)
      BY <1>1, <1>5, <2>a, SameUnspent
    <3>2. i = n => Unspent(g, E, i)
      BY <1>2, <2>a DEF Ready, n
    <3>3. i # n => i \in 1..(n - 1) /\ i+1 \in 1..n
      BY <1>2, <2>a
    <3> QED
      BY <1>1, <1>5, <3>1, <3>2, <3>3 DEF Waiting, n
  <2>b. CASE i \in (n+1)..(l-1)
    BY <1>6, <2>b DEF Unspent, IterMarkers
  <2> QED
    BY <1>2, <2>a, <2>b
<1>10. Parsers(F)
  <2> SUFFICES ASSUME NEW i \in 1..l, Tag(F[i]) = "iparse" \/ F[i] = NameTok(Parse)
               PROVE  i > 1 /\ Tag(F[i-1]) = "xistream"
    BY DEF Parsers, l
  <2>1. Tag(F[l]) # "iparse" /\ F[l] # NameTok(Parse)
    BY TokenParts DEF IterMarkers, LoopMarkers, l
  <2>2. i \in 1..n
    BY <1>4, <1>6, <2>1
  <2>3. i > 1 /\ Tag(E[i-1]) = "xistream"
    BY <1>1, <1>5, <2>2 DEF Parsers, n
  <2>4. i - 1 \in 1..n
    BY <1>2, <2>2, <2>3
  <2> QED
    BY <1>5, <2>3, <2>4
<1>11. \A i \in 1..l : Slot(F[i])
  <2>1. \A i \in 1..n : Slot(F[i])
    BY <1>5 DEF Whole, n
  <2>2. \A i \in (n+1)..(l-1) : Slot(F[i])
    BY DEF Slot, n, l
  <2>3. Slot(F[l])
    BY DEF Slot, l
  <2> QED
    BY <1>4, <2>1, <2>2, <2>3
<1> QED
  BY <1>7, <1>8, <1>9, <1>10, <1>11 DEF Whole, l

-----------------------------------------------------------------------------
(* What the dispatcher does with the frame at the top, or with what lies   *)
(* on it                                                                   *)

Top(E) == E[Len(E)]

LEMMA WholeStack ==
    ASSUME NEW g, NEW E, Whole(g, E)
    PROVE  /\ IsStack(E) /\ Len(E) \in Nat /\ (E = <<>> <=> Len(E) = 0) /\ Frames(g, E)
           /\ Len(E) > 0 => Len(E) \in 1..Len(E) /\ Slot(Top(E)) /\ Last(E) = Top(E) /\ Pick(E, 0) = Top(E)
<1>1. IsStack(E) /\ Frames(g, E)
  BY DEF Whole
<1>2. Len(E) \in Nat /\ (E = <<>> <=> Len(E) = 0)
  BY <1>1, StackLength
<1>3. Len(E) > 0 => Len(E) \in 1..Len(E) /\ Len(E) - 0 = Len(E)
  BY <1>2
<1> QED
  BY <1>1, <1>2, <1>3 DEF Whole, Top, Last, Pick

LEMMA UnderIsWhole ==
    ASSUME NEW g, NEW E, Whole(g, E), E # <<>>, Tag(Top(E)) \notin IterMarkers
    PROVE  /\ Whole(g, Drop(E, 1)) /\ Len(Drop(E, 1)) = Len(E) - 1
           /\ \A i \in 1..(Len(E) - 1) : Drop(E, 1)[i] = E[i]
           /\ Top(E) # Fn("stop") => Ready(g, Drop(E, 1))
<1>1. PICK m : m = Len(E) - 1
  OBVIOUS
<1>2. Len(E) \in Nat /\ m \in 0..Len(E) /\ m < Len(E) /\ m + 1 = Len(E)
  BY <1>1, WholeStack
<1>3. Clean(E, m)
  <2>1. \A j \in 1..Len(E) : j <= m \/ j = Len(E)
    BY <1>2
  <2> QED
    BY <2>1 DEF Clean, Top
<1>4. Drop(E, 1) = SubSeq(E, 1, m)
  BY <1>1 DEF Drop
<1>5. Whole(g, Drop(E, 1)) /\ Len(Drop(E, 1)) = m /\ \A i \in 1..m : Drop(E, 1)[i] = E[i]
  BY <1>2, <1>3, <1>4, PrefixIsWhole
<1>6. Top(E) # Fn("stop") => Ready(g, Drop(E, 1))
  BY <1>2, <1>3, <1>4, PrefixIsReady DEF Top
<1> QED
  BY <1>1, <1>5, <1>6

LEMMA TopFrame ==
    ASSUME NEW g, NEW E, Whole(g, E), E # <<>>, Tag(Top(E)) \in IterMarkers
    PROVE  /\ FrameOk(g, E, Len(E)) /\ Start(E, Len(E)) \in 1..(Len(E) - 2)
           /\ Start(E, Len(E)) = Len(E) - Size(Tag(Top(E)))
           /\ \A k \in Start(E, Len(E))..(Len(E) - 1) : Tag(E[k]) \in SlotTags /\ Value(E[k])
           /\ Pick(E, 1) = E[Len(E) - 1] /\ Pick(E, 2) = E[Len(E) - 2]
           /\ Tag(Pick(E, 1)) = "integer" /\ Tag(Pick(E, 2)) = "procedure"
           /\ Data(Pick(E, 2)) \in Procedures
           /\ Data(Pick(E, 1)) \in 0..Len(g.body[Data(Pick(E, 2))])
<1> DEFINE n == Len(E)
           lo == Start(E, n)
<1>1. IsStack(E) /\ n \in Nat /\ n \in 1..n /\ Frames(g, E) /\ \A i \in 1..n : Slot(E[i])
  <2>1. IsStack(E) /\ n \in Nat /\ (E = <<>> <=> n = 0) /\ (n > 0 => n \in 1..n)
    BY WholeStack
  <2>2. n > 0
    BY <2>1
  <2> QED
    BY <2>1, <2>2 DEF Whole
<1>2. FrameOk(g, E, n)
  BY <1>1 DEF Frames, Top
<1>3. /\ lo \in 1..(n-2) /\ lo = n - Size(Tag(E[n]))
      /\ \A k \in lo..(n-1) : Tag(E[k]) \in SlotTags
      /\ Tag(E[n-1]) = "integer" /\ Tag(E[n-2]) = "procedure"
  <2>1. Tag(E[n]) \in IterMarkers
    BY DEF Top
  <2> HIDE DEF n
  <2> QED
    BY <1>1, <1>2, <2>1, FrameSlots DEF n
<1> HIDE DEF lo, n
<1>4. \A k \in lo..(n-1) : Value(E[k])
  <2> TAKE k \in lo..(n-1)
  <2>1. k \in 1..n
    BY <1>1, <1>3
  <2>2. Tag(E[k]) \notin IterMarkers \cup {"iparse", "xistream", "name"}
    BY <1>3 DEF SlotTags, IterMarkers, LoopMarkers
  <2> QED
    BY <1>1, <2>1, <2>2, SlotIsValue
<1>5. n-2 \in lo..(n-1)
  BY <1>1, <1>3
<1>6. Data(E[n-2]) \in Procedures
  BY <1>3, <1>4, <1>5, ValueIsPlain DEF Plain
<1>7. Data(E[n-1]) \in 0..Len(g.body[Data(E[n-2])])
  BY <1>2 DEF FrameOk
<1> QED
  BY <1>2, <1>3, <1>4, <1>6, <1>7 DEF n, lo, Top, Pick

\* What is left when the whole frame goes.
LEMMA UnderFrame ==
    ASSUME NEW g, NEW E, Whole(g, E), E # <<>>, Tag(Top(E)) \in IterMarkers,
           NEW s, s = Size(Tag(Top(E))) + 1
    PROVE  Whole(g, Drop(E, s)) /\ Ready(g, Drop(E, s))
<1>1. PICK lo : lo = Start(E, Len(E))
  OBVIOUS
<1>2. /\ lo \in 1..(Len(E) - 2) /\ lo = Len(E) - Size(Tag(Top(E)))
      /\ \A k \in lo..(Len(E) - 1) : Tag(E[k]) \in SlotTags
  BY <1>1, TopFrame
<1>3. Len(E) \in Nat /\ Size(Tag(Top(E))) \in Nat
  BY WholeStack, LayoutShape
<1>4. PICK m : m = lo - 1
  OBVIOUS
<1>5. m \in 0..Len(E) /\ m < Len(E) /\ m + 1 = lo /\ Len(E) - s = m
  BY <1>2, <1>3, <1>4
<1>6. Drop(E, s) = SubSeq(E, 1, m)
  BY <1>5 DEF Drop
<1>7. Clean(E, m)
  <2>1. IsStack(E) /\ Frames(g, E) /\ Len(E) \in 1..Len(E) /\ Tag(E[Len(E)]) \in IterMarkers
    BY <1>2, <1>3, WholeStack DEF Top
  <2> QED
    BY <1>1, <1>4, <2>1, CutBelowFrame
<1>8. E[m+1] # Fn("stop")
  <2>1. m + 1 \in lo..(Len(E) - 1)
    BY <1>2, <1>3, <1>5
  <2>2. Tag(E[m+1]) \in SlotTags
    BY <1>2, <2>1
  <2> QED
    BY <2>2, StopIsValue DEF SlotTags
<1> QED
  BY <1>5, <1>6, <1>7, <1>8, PrefixIsWhole, PrefixIsReady

\* What lies at which depth of each kind of frame.
LEMMA KindSlots ==
    ASSUME NEW g, NEW E, Whole(g, E), E # <<>>, Tag(Top(E)) \in IterMarkers,
           NEW n, n = Len(E), NEW m, m = Tag(Top(E))
    PROVE  /\ n \in Nat /\ Start(E, n) = n - Size(m) /\ Start(E, n) \in 1..(n-2)
           /\ m \in LoopMarkers \ {"iloop"} => Tag(E[n-3]) = "integer"
           /\ m = "iforall" => Tag(E[n-4]) = "array"
           /\ m = "iforallstring" => Tag(E[n-4]) = "string"
           /\ m = "iforallindexedarray" => Tag(E[n-5]) = "array"
           /\ m = "iforallindexedstring" => Tag(E[n-5]) = "string"
           /\ m \in {"imap", "imapindexed", "imapthread"} => Tag(E[n-4]) = "array"
           /\ m = "imapthread" => Tag(E[n-5]) = "array"
<1>1. n \in Nat /\ Start(E, n) = n - Size(m) /\ Start(E, n) \in 1..(n-2)
  BY TopFrame, WholeStack
<1>2. \A k \in 1..Size(m) : Tag(E[n - Size(m) + k - 1]) = Layout[m][k]
  <2>1. HasLayout(E, n - Size(m), Layout[m])
    BY <1>1, TopFrame DEF FrameOk, Top
  <2> QED
    BY <2>1, LayoutShape DEF HasLayout
<1>a. CASE m = "irepeat"
  <2>1. 2 \in 1..Size(m) /\ n - Size(m) + 2 - 1 = n - 3
    BY <1>1, <1>a, Sizes
  <2>2. Tag(E[n-3]) = Layout[m][2]
    BY <1>2, <2>1
  <2> QED
    BY <1>1, <1>a, <2>2, LayoutOf
<1>b. CASE m = "ifor"
  <2>1. 4 \in 1..Size(m) /\ n - Size(m) + 4 - 1 = n - 3
    BY <1>1, <1>b, Sizes
  <2>2. Tag(E[n-3]) = Layout[m][4]
    BY <1>2, <2>1
  <2> QED
    BY <1>1, <1>b, <2>2, LayoutOf
<1>c. CASE m \in {"iforall", "iforallstring"}
  <2>1. /\ 3 \in 1..Size(m) /\ n - Size(m) + 3 - 1 = n - 3
        /\ 2 \in 1..Size(m) /\ n - Size(m) + 2 - 1 = n - 4
    BY <1>1, <1>c, Sizes
  <2>2. Tag(E[n-3]) = Layout[m][3] /\ Tag(E[n-4]) = Layout[m][2]
    BY <1>2, <2>1
  <2> QED
    BY <1>1, <1>c, <2>2, LayoutOf
<1>d. CASE m \in {"iforallindexedarray", "iforallindexedstring"}
  <2>1. /\ 4 \in 1..Size(m) /\ n - Size(m) + 4 - 1 = n - 3
        /\ 2 \in 1..Size(m) /\ n - Size(m) + 2 - 1 = n - 5
    BY <1>1, <1>d, Sizes
  <2>2. Tag(E[n-3]) = Layout[m][4] /\ Tag(E[n-5]) = Layout[m][2]
    BY <1>2, <2>1
  <2> QED
    BY <1>1, <1>d, <2>2, LayoutOf
<1>e. CASE m \in {"imap", "imapindexed"}
  <2>1. /\ 4 \in 1..Size(m) /\ n - Size(m) + 4 - 1 = n - 3
        /\ 3 \in 1..Size(m) /\ n - Size(m) + 3 - 1 = n - 4
    BY <1>1, <1>e, Sizes
  <2>2. Tag(E[n-3]) = Layout[m][4] /\ Tag(E[n-4]) = Layout[m][3]
    BY <1>2, <2>1
  <2> QED
    BY <1>1, <1>e, <2>2, LayoutOf
<1>f. CASE m = "imapthread"
  <2>1. /\ 5 \in 1..Size(m) /\ n - Size(m) + 5 - 1 = n - 3
        /\ 4 \in 1..Size(m) /\ n - Size(m) + 4 - 1 = n - 4
        /\ 3 \in 1..Size(m) /\ n - Size(m) + 3 - 1 = n - 5
    BY <1>1, <1>f, Sizes
  <2>2. Tag(E[n-3]) = Layout[m][5] /\ Tag(E[n-4]) = Layout[m][4] /\ Tag(E[n-5]) = Layout[m][3]
    BY <1>2, <2>1
  <2> QED
    BY <1>1, <1>f, <2>2, LayoutOf
<1>g. CASE m \in {"iiterate", "iloop"}
  BY <1>1, <1>g DEF LoopMarkers
<1> QED
  BY <1>1, <1>a, <1>b, <1>c, <1>d, <1>e, <1>f, <1>g DEF IterMarkers, LoopMarkers

LEMMA WithoutFrame ==
    ASSUME NEW g, NEW E, Whole(g, E), E # <<>>, Tag(Top(E)) \in IterMarkers,
           NEW lo, lo = Start(E, Len(E))
    PROVE  \E G : /\ Whole(g, G) /\ Ready(g, G) /\ Len(G) = lo - 1
                  /\ \A i \in 1..(lo - 1) : G[i] = E[i]
<1>1. PICK s : s = Size(Tag(Top(E))) + 1
  OBVIOUS
<1>2. s \in 0..Len(E) /\ Len(E) - s = lo - 1
  <2>1. PICK n \in Nat : n = Len(E)
    BY WholeStack
  <2>2. PICK z \in Nat : z = Size(Tag(Top(E)))
    BY LayoutShape
  <2>3. lo \in 1..(n - 2) /\ lo = n - z
    BY <2>1, <2>2, TopFrame
  <2>4. s = z + 1
    BY <1>1, <2>2
  <2>5. s \in 0..n /\ n - s = lo - 1
    BY <2>3, <2>4
  <2> QED
    BY <2>1, <2>5
<1>3. Whole(g, Drop(E, s)) /\ Ready(g, Drop(E, s))
  BY <1>1, UnderFrame
<1>4. Len(Drop(E, s)) = Len(E) - s /\ \A i \in 1..(Len(E) - s) : Drop(E, s)[i] = E[i]
  BY <1>2, StackDrop, WholeStack
<1> QED
  BY <1>2, <1>3, <1>4

\* The slots of the frame at the top may change as long as they keep their
\* kinds.
LEMMA ChangeFrame ==
    ASSUME NEW g, NEW E, NEW F, NEW n, Whole(g, E), E # <<>>, n = Len(E),
           Tag(Top(E)) \in IterMarkers, IsStack(F), Len(F) = n, F[n] = E[n],
           \A i \in 1..(Start(E, n) - 1) : F[i] = E[i],
           \A i \in Start(E, n)..(n-1) : Tag(F[i]) = Tag(E[i]) /\ Value(F[i]),
           Data(F[n-1]) \in 0..Len(g.body[Data(F[n-2])]),
           Contents(F, n)
    PROVE  Whole(g, F)
<1>1. PICK lo : lo = Start(E, n)
  OBVIOUS
<1>2. /\ lo \in 1..(n-2) /\ lo = n - Size(Tag(Top(E))) /\ n \in Nat /\ n \in 1..n
      /\ FrameOk(g, E, n)
      /\ \A k \in lo..(n-1) : Tag(E[k]) \in SlotTags
  BY <1>1, TopFrame, WholeStack
<1>4. PICK G : Whole(g, G) /\ Ready(g, G) /\ Len(G) = lo - 1 /\ \A i \in 1..(lo - 1) : G[i] = E[i]
  BY <1>1, WithoutFrame
<1>5. Start(F, n) = lo
  BY <1>1 DEF Start
<1>6. FrameOk(g, F, n)
  <2>1. PICK m \in IterMarkers : m = Tag(E[n])
    BY DEF Top
  <2>2. PICK z : z = Size(m)
    OBVIOUS
  <2>3. z \in 2..7 /\ DOMAIN Layout[m] = 1..z /\ lo = n - z
    BY <1>2, <2>1, <2>2, LayoutShape DEF Top
  <2>4. \A k \in 1..z : lo + k - 1 \in lo..(n-1)
    BY <1>2, <2>3
  <2>5. \A k \in 1..z : Tag(E[lo + k - 1]) = Layout[m][k]
    BY <1>1, <1>2, <2>1, <2>3 DEF FrameOk, HasLayout
  <2>6. \A k \in 1..z : Tag(F[lo + k - 1]) = Layout[m][k]
    BY <1>1, <2>4, <2>5
  <2>7. HasLayout(F, lo, Layout[m])
    BY <1>2, <2>3, <2>6 DEF HasLayout
  <2> QED
    BY <1>5, <2>1, <2>7 DEF FrameOk
<1>7. /\ Len(F) > Len(G) /\ Tag(F[Len(F)]) \in IterMarkers
      /\ Start(F, Len(F)) = Len(G) + 1 /\ FrameOk(g, F, Len(F))
      /\ \A i \in 1..Len(G) : F[i] = G[i]
      /\ \A i \in (Len(G) + 1)..(Len(F) - 1) : Value(F[i])
  BY <1>1, <1>2, <1>4, <1>5, <1>6 DEF Top
<1> QED
  BY <1>4, <1>7, PushFrame

\* The position alone moves.
LEMMA MovePosition ==
    ASSUME NEW g, NEW E, NEW p, NEW F, Whole(g, E), E # <<>>, Tag(Top(E)) \in IterMarkers,
           p \in 0..Len(g.body[Data(Pick(E, 2))]), F = SetPick(E, 1, IntTok(p))
    PROVE  /\ Whole(g, F) /\ F # <<>> /\ Len(F) = Len(E) /\ Top(F) = Top(E)
           /\ F[Len(E) - 1] = IntTok(p)
           /\ \A i \in 1..Len(E) : i # Len(E) - 1 => F[i] = E[i]
           /\ Tag(Top(E)) \in LoopMarkers \/ p < Len(g.body[Data(Pick(E, 2))]) => Ready(g, F)
<1>1. PICK n : n = Len(E)
  OBVIOUS
<1>2. PICK m : m = Tag(Top(E))
  OBVIOUS
<1>3. /\ n \in Nat /\ n \in 1..n /\ IsStack(E) /\ n > 2 /\ Start(E, n) = n - Size(m)
      /\ Start(E, n) \in 1..(n-2)
      /\ FrameOk(g, E, n) /\ \A k \in Start(E, n)..(n - 1) : Value(E[k])
      /\ Tag(E[n-1]) = "integer" /\ Pick(E, 2) = E[n-2]
  <2>1. /\ FrameOk(g, E, n) /\ \A k \in Start(E, n)..(n - 1) : Value(E[k])
        /\ Pick(E, 2) = E[n-2] /\ Tag(E[n-1]) = "integer"
    BY <1>1, TopFrame
  <2>2. Start(E, n) \in 1..(n-2) /\ n \in Nat /\ Start(E, n) = n - Size(m)
    BY <1>1, <1>2, KindSlots
  <2>3. n > 2 /\ n \in 1..n
    BY <2>2
  <2> QED
    BY <2>1, <2>2, <2>3, WholeStack
<1>4. IsStack(F) /\ Len(F) = n /\ F[n-1] = IntTok(p) /\ \A i \in 1..n : i # n - 1 => F[i] = E[i]
  <2>1. 1 \in 0..(Len(E) - 1)
    BY <1>1, <1>3
  <2>2. /\ IsStack(F) /\ Len(F) = Len(E) /\ F[Len(E) - 1] = IntTok(p)
        /\ \A i \in 1..Len(E) : i # Len(E) - 1 => F[i] = E[i]
    <3>1. PICK t : t = IntTok(p)
      OBVIOUS
    <3>2. F = SetPick(E, 1, t) /\ IsStack(E)
      BY <1>3, <3>1
    <3>3. /\ IsStack(F) /\ Len(F) = Len(E) /\ F[Len(E) - 1] = t
          /\ \A i \in 1..Len(E) : i # Len(E) - 1 => F[i] = E[i]
      BY <2>1, <3>2, StackSetPick
    <3> QED
      BY <3>1, <3>3
  <2> QED
    BY <1>1, <2>2
<1>5. F[n] = E[n] /\ F[n-2] = E[n-2] /\ Tag(F[n]) = m
  <2>1. n-2 \in 1..n /\ n # n-1 /\ n-2 # n-1
    BY <1>3
  <2> QED
    BY <1>1, <1>2, <1>3, <1>4, <2>1 DEF Top
<1>6. Value(IntTok(p)) /\ Tag(IntTok(p)) = "integer" /\ Data(IntTok(p)) = p
  <2>1. Plain(IntTok(p)) /\ ~HasElements(IntTok(p))
    BY TokenParts DEF Plain, HasElements, Tags, DataTags, ExecTags, IterMarkers, LoopMarkers
  <2> QED
    BY <2>1, AtomIsValue, TokenParts
<1>7. Contents(F, n)
  <2>0. Contents(E, n) /\ Tag(E[n]) = m
    BY <1>1, <1>2, <1>3 DEF FrameOk, Top
  <2>1. \A k \in 3..6 : n - k >= 1 => F[n-k] = E[n-k]
    BY <1>3, <1>4
  <2>2. \A k \in 1..7 : Size(m) >= k => n - k >= 1
    BY <1>3, LayoutShape, <1>2
  <2>a. CASE m \in {"iforall", "iforallstring"}
    <3>1. F[n-3] = E[n-3]
      BY <2>1, <2>2, <2>a, Sizes
    <3> QED
      BY <1>5, <2>0, <2>a, <3>1 DEF Contents
  <2>b. CASE m \in {"iforallindexedarray", "iforallindexedstring"}
    <3>1. F[n-3] = E[n-3] /\ F[n-4] = E[n-4] /\ F[n-5] = E[n-5]
      BY <2>1, <2>2, <2>b, Sizes
    <3> QED
      BY <1>5, <2>0, <2>b, <3>1 DEF Contents
  <2>c. CASE m \in {"imap", "imapindexed"}
    <3>1. F[n-3] = E[n-3] /\ F[n-4] = E[n-4] /\ F[n-5] = E[n-5]
      BY <2>1, <2>2, <2>c, Sizes
    <3> QED
      BY <1>5, <2>0, <2>c, <3>1 DEF Contents
  <2>d. CASE m = "imapthread"
    <3>1. F[n-3] = E[n-3] /\ F[n-4] = E[n-4] /\ F[n-5] = E[n-5] /\ F[n-6] = E[n-6]
      BY <2>1, <2>2, <2>d, Sizes
    <3> QED
      BY <1>5, <2>0, <2>d, <3>1 DEF Contents
  <2> QED
    BY <1>5, <2>a, <2>b, <2>c, <2>d DEF Contents
<1>8. Whole(g, F)
  <2>1. \A i \in 1..(Start(E, n) - 1) : F[i] = E[i]
    BY <1>3, <1>4
  <2>2. \A i \in Start(E, n)..(n-1) : Tag(F[i]) = Tag(E[i]) /\ Value(F[i])
    <3> TAKE i \in Start(E, n)..(n-1)
    <3>1. i \in 1..n
      BY <1>3
    <3>a. CASE i = n - 1
      BY <1>3, <1>4, <1>6, <3>a
    <3>b. CASE i # n - 1
      BY <1>3, <1>4, <3>1, <3>b
    <3> QED
      BY <3>a, <3>b
  <2>3. Data(F[n-1]) \in 0..Len(g.body[Data(F[n-2])])
    BY <1>3, <1>4, <1>5, <1>6
  <2> QED
    BY <1>1, <1>4, <1>5, <1>7, <2>1, <2>2, <2>3, ChangeFrame
<1>9. Tag(Top(E)) \in LoopMarkers \/ p < Len(g.body[Data(Pick(E, 2))]) => Ready(g, F)
  <2>1. m # "mark" /\ (m \in LoopMarkers => m # "iiterate")
    BY <1>2 DEF IterMarkers, LoopMarkers
  <2> QED
    BY <1>2, <1>3, <1>4, <1>5, <1>6, <2>1 DEF Ready, Unspent
<1> QED
  BY <1>1, <1>3, <1>4, <1>5, <1>8, <1>9, StackLength DEF Top

-----------------------------------------------------------------------------
(* Stacks of values *)

LEMMA AtomsAreValues ==
    /\ \A x : Value(IntTok(x)) /\ Value(Bool(x)) /\ Value(Lit(x))
    /\ \A x \in Procedures : Value(Proc(x))
    /\ \A x \in Operators : Value(Fn(x))
    /\ \A x \in DOMAIN Tries : Value(Trie(x))
    /\ \A x : x # Parse => Value(NameTok(x))
    /\ Value(MarkTok) /\ Value(Marker("quit"))
<1> USE TokenParts, AtomIsValue
        DEF Plain, HasElements, Tags, DataTags, ExecTags, IterMarkers, LoopMarkers
<1>1. \A x : Value(IntTok(x)) /\ Value(Bool(x)) /\ Value(Lit(x))
  OBVIOUS
<1>2. \A x \in Procedures : Value(Proc(x))
  OBVIOUS
<1>3. \A x \in Operators : Value(Fn(x))
  OBVIOUS
<1>4. \A x \in DOMAIN Tries : Value(Trie(x))
  OBVIOUS
<1>5. \A x : x # Parse => Value(NameTok(x))
  OBVIOUS
<1>6. Value(MarkTok) /\ Value(Marker("quit"))
  OBVIOUS
<1> QED
  BY <1>1, <1>2, <1>3, <1>4, <1>5, <1>6

LEMMA ValuesAppend ==
    ASSUME NEW O, NEW x, Values(O), Value(x)
    PROVE  Values(Append(O, x)) /\ Len(Append(O, x)) = Len(O) + 1
<1>1. Len(O) \in Nat /\ IsStack(O)
  BY StackLength DEF Values
<1>2. /\ IsStack(Append(O, x)) /\ Len(Append(O, x)) = Len(O) + 1
      /\ Append(O, x)[Len(O) + 1] = x /\ \A i \in 1..Len(O) : Append(O, x)[i] = O[i]
  BY <1>1, StackAppend
<1>3. \A i \in 1..(Len(O) + 1) : i \in 1..Len(O) \/ i = Len(O) + 1
  BY <1>1
<1> QED
  BY <1>2, <1>3 DEF Values

LEMMA ValuesDrop ==
    ASSUME NEW O, NEW k, Values(O), k \in 0..Len(O)
    PROVE  Values(Drop(O, k)) /\ Len(Drop(O, k)) = Len(O) - k
<1>1. Len(O) \in Nat /\ IsStack(O)
  BY StackLength DEF Values
<1>2. /\ IsStack(Drop(O, k)) /\ Len(Drop(O, k)) = Len(O) - k
      /\ \A i \in 1..(Len(O) - k) : Drop(O, k)[i] = O[i]
  BY <1>1, StackDrop
<1>3. \A i \in 1..(Len(O) - k) : i \in 1..Len(O)
  BY <1>1
<1> QED
  BY <1>2, <1>3 DEF Values

LEMMA ValuesSetPick ==
    ASSUME NEW O, NEW x, Values(O), Value(x), Len(O) > 0
    PROVE  Values(SetPick(O, 0, x)) /\ Len(SetPick(O, 0, x)) = Len(O)
<1>1. Len(O) \in Nat /\ IsStack(O) /\ 0 \in 0..(Len(O) - 1)
  BY StackLength DEF Values
<1>2. /\ IsStack(SetPick(O, 0, x)) /\ Len(SetPick(O, 0, x)) = Len(O)
      /\ SetPick(O, 0, x)[Len(O) - 0] = x
      /\ \A i \in 1..Len(O) : i # Len(O) - 0 => SetPick(O, 0, x)[i] = O[i]
  BY <1>1, StackSetPick
<1> QED
  BY <1>1, <1>2 DEF Values

LEMMA ValuesConcat ==
    ASSUME NEW O, NEW T, Values(O), Values(T)
    PROVE  Values(O \o T)
<1>1. Len(O) \in Nat /\ IsStack(O) /\ Len(T) \in Nat /\ IsStack(T)
  BY StackLength DEF Values
<1>2. /\ IsStack(O \o T) /\ Len(O \o T) = Len(O) + Len(T)
      /\ \A i \in 1..Len(O) : (O \o T)[i] = O[i]
      /\ \A i \in 1..Len(T) : (O \o T)[Len(O) + i] = T[i]
  BY <1>1, StackConcat
<1>3. PICK C : C = O \o T
  OBVIOUS
<1>4. ASSUME NEW i \in 1..(Len(O) + Len(T)) PROVE Value(C[i])
  <2>a. CASE i \in 1..Len(O)
    BY <1>2, <1>3, <2>a DEF Values
  <2>b. CASE i > Len(O)
    <3>1. PICK k \in 1..Len(T) : i = Len(O) + k
      <4>1. i - Len(O) \in 1..Len(T) /\ i = Len(O) + (i - Len(O))
        BY <1>1, <2>b
      <4> QED
        BY <4>1
    <3> QED
      BY <1>2, <1>3, <3>1 DEF Values
  <2> QED
    BY <1>1, <2>a, <2>b
<1> QED
  BY <1>2, <1>3, <1>4 DEF Values

LEMMA PickValue ==
    ASSUME NEW O, NEW k, Values(O), k \in 0..(Len(O) - 1)
    PROVE  Value(Pick(O, k)) /\ Last(O) = Pick(O, 0)
<1>1. Len(O) \in Nat
  BY StackLength DEF Values
<1>2. Len(O) - k \in 1..Len(O) /\ Len(O) - 0 = Len(O)
  BY <1>1
<1> QED
  BY <1>2 DEF Values, Pick, Last

\* Sequences written out.
LEMMA Tuple1 ==
    ASSUME NEW a, NEW t, t = <<a>>
    PROVE  IsStack(t) /\ Len(t) = 1 /\ t[1] = a
<1>1. t \in Seq({a})
  OBVIOUS
<1> QED
  BY <1>1 DEF IsStack

LEMMA Tuple2 ==
    ASSUME NEW a, NEW b, NEW t, t = <<a, b>>
    PROVE  IsStack(t) /\ Len(t) = 2 /\ t[1] = a /\ t[2] = b
<1>1. t \in Seq({a, b})
  OBVIOUS
<1> QED
  BY <1>1 DEF IsStack

LEMMA Tuple3 ==
    ASSUME NEW a, NEW b, NEW c, NEW t, t = <<a, b, c>>
    PROVE  IsStack(t) /\ Len(t) = 3 /\ t[1] = a /\ t[2] = b /\ t[3] = c
<1>1. t \in Seq({a, b, c})
  OBVIOUS
<1> QED
  BY <1>1 DEF IsStack

LEMMA Tuple4 ==
    ASSUME NEW a, NEW b, NEW c, NEW d, NEW t, t = <<a, b, c, d>>
    PROVE  IsStack(t) /\ Len(t) = 4 /\ t[1] = a /\ t[2] = b /\ t[3] = c /\ t[4] = d
<1>1. t \in Seq({a, b, c, d})
  OBVIOUS
<1> QED
  BY <1>1 DEF IsStack

LEMMA Tuple5 ==
    ASSUME NEW a, NEW b, NEW c, NEW d, NEW e, NEW t, t = <<a, b, c, d, e>>
    PROVE  IsStack(t) /\ Len(t) = 5 /\ t[1] = a /\ t[2] = b /\ t[3] = c /\ t[4] = d /\ t[5] = e
<1>1. t \in Seq({a, b, c, d, e})
  OBVIOUS
<1> QED
  BY <1>1 DEF IsStack

LEMMA Tuple6 ==
    ASSUME NEW a, NEW b, NEW c, NEW d, NEW e, NEW f, NEW t, t = <<a, b, c, d, e, f>>
    PROVE  IsStack(t) /\ Len(t) = 6 /\ t[1] = a /\ t[2] = b /\ t[3] = c /\ t[4] = d /\ t[5] = e /\ t[6] = f
<1>1. t \in Seq({a, b, c, d, e, f})
  OBVIOUS
<1> QED
  BY <1>1 DEF IsStack

LEMMA Tuple7 ==
    ASSUME NEW a, NEW b, NEW c, NEW d, NEW e, NEW f, NEW g, NEW t, t = <<a, b, c, d, e, f, g>>
    PROVE  IsStack(t) /\ Len(t) = 7 /\ t[1] = a /\ t[2] = b /\ t[3] = c /\ t[4] = d /\ t[5] = e /\ t[6] = f /\ t[7] = g
<1>1. t \in Seq({a, b, c, d, e, f, g})
  OBVIOUS
<1> QED
  BY <1>1 DEF IsStack

LEMMA Tuple8 ==
    ASSUME NEW a, NEW b, NEW c, NEW d, NEW e, NEW f, NEW g, NEW h, NEW t, t = <<a, b, c, d, e, f, g, h>>
    PROVE  IsStack(t) /\ Len(t) = 8 /\ t[1] = a /\ t[2] = b /\ t[3] = c /\ t[4] = d /\ t[5] = e /\ t[6] = f /\ t[7] = g /\ t[8] = h
<1>1. t \in Seq({a, b, c, d, e, f, g, h})
  OBVIOUS
<1> QED
  BY <1>1 DEF IsStack

Joined(F, E, T) ==
    /\ IsStack(F) /\ Len(F) = Len(E) + Len(T)
    /\ \A i \in 1..Len(E) : F[i] = E[i]
    /\ \A i \in 1..Len(T) : F[Len(E) + i] = T[i]

LEMMA ConcatJoins ==
    ASSUME NEW E, NEW T, IsStack(E), IsStack(T)
    PROVE  Joined(E \o T, E, T)
BY StackConcat DEF Joined

\* A new frame: T holds its slots and its marker.
NewSlots(g, T, m, z) ==
    /\ IsStack(T) /\ z = Size(m) /\ Len(T) = z + 1 /\ T[z+1] = Marker(m)
    /\ \A k \in 1..z : Tag(T[k]) = Layout[m][k] /\ Value(T[k])
    /\ Data(T[z]) \in 0..Len(g.body[Data(T[z-1])])
    /\ Contents(T, z+1)

LEMMA NewFrame ==
    ASSUME NEW g, NEW E, NEW m \in IterMarkers, NEW T, NEW z, Whole(g, E), Ready(g, E),
           NewSlots(g, T, m, z), NEW F, Joined(F, E, T)
    PROVE  Whole(g, F) /\ F # <<>> /\ Top(F) = Marker(m)
<1>1. PICK c : c = z + 1
  OBVIOUS
<1>2. PICK n : n = Len(E)
  OBVIOUS
<1>3. n \in Nat /\ z = Size(m) /\ z \in 2..7 /\ DOMAIN Layout[m] = 1..z
  BY <1>2, WholeStack, LayoutShape DEF NewSlots
<1>s. /\ IsStack(T) /\ Len(T) = c /\ T[c] = Marker(m) /\ Contents(T, c)
      /\ Data(T[z]) \in 0..Len(g.body[Data(T[z-1])])
  BY <1>1 DEF NewSlots
<1>t. \A k \in 1..z : Tag(T[k]) = Layout[m][k] /\ Value(T[k])
  BY DEF NewSlots
<1>4. /\ IsStack(F) /\ Len(F) = n + c
      /\ \A i \in 1..n : F[i] = E[i]
      /\ \A i \in 1..c : F[n + i] = T[i]
  BY <1>2, <1>s DEF Joined
<1>5. PICK l : l = n + c
  OBVIOUS
<1>6. /\ c \in 1..c /\ l \in Nat /\ l > n /\ l > 0 /\ l - z = n + 1
      /\ \A k \in 1..z : k \in 1..c /\ (n + 1) + k - 1 = n + k
      /\ z \in 1..z /\ z - 1 \in 1..z /\ l - 1 = n + z /\ l - 2 = n + (z - 1)
      /\ z >= 3 => c - 3 \in 1..z /\ l - 3 = n + (c - 3)
      /\ z >= 4 => c - 4 \in 1..z /\ l - 4 = n + (c - 4)
      /\ z >= 5 => c - 5 \in 1..z /\ l - 5 = n + (c - 5)
      /\ z >= 6 => c - 6 \in 1..z /\ l - 6 = n + (c - 6)
      /\ \A i \in (n + 1)..(l - 1) : \E k \in 1..z : i = n + k
  <2>1. n \in Nat /\ z \in 2..7
    BY <1>3
  <2>2. \A i \in (n + 1)..(l - 1) : i - n \in 1..z /\ i = n + (i - n)
    BY <1>1, <1>5, <2>1
  <2> QED
    BY <1>1, <1>5, <2>1, <2>2
<1>7. F[l] = Marker(m) /\ Tag(F[l]) = m
  BY <1>4, <1>5, <1>6, <1>s, TokenParts
<1>8. Start(F, l) = n + 1
  BY <1>3, <1>6, <1>7 DEF Start
<1>9. \A k \in 1..z : F[n + k] = T[k]
  BY <1>4, <1>6
<1>10. HasLayout(F, n + 1, Layout[m])
  <2>1. PICK lo : lo = n + 1
    OBVIOUS
  <2>2. \A k \in 1..z : Tag(F[lo + k - 1]) = Layout[m][k]
    BY <1>6, <1>9, <1>t, <2>1
  <2>3. lo >= 1
    BY <1>3, <2>1
  <2>4. HasLayout(F, lo, Layout[m])
    BY <1>3, <2>2, <2>3 DEF HasLayout
  <2> QED
    BY <2>1, <2>4
<1>11. Data(F[l-1]) \in 0..Len(g.body[Data(F[l-2])])
  <2>1. F[l-1] = T[z] /\ F[l-2] = T[z-1]
    BY <1>6, <1>9
  <2> QED
    BY <1>s, <2>1
<1>12. Contents(F, l)
  <2>1. Tag(T[c]) = m
    BY <1>s, TokenParts
  <2>2. /\ z >= 3 => F[l-3] = T[c-3]
        /\ z >= 4 => F[l-4] = T[c-4]
        /\ z >= 5 => F[l-5] = T[c-5]
        /\ z >= 6 => F[l-6] = T[c-6]
    BY <1>6, <1>9
  <2>a. CASE m \in {"iforall", "iforallstring"}
    <3>1. F[l-3] = T[c-3]
      BY <1>3, <2>2, <2>a, Sizes
    <3> QED
      BY <1>7, <1>s, <2>1, <2>a, <3>1 DEF Contents
  <2>b. CASE m \in {"iforallindexedarray", "iforallindexedstring"}
    <3>1. F[l-3] = T[c-3] /\ F[l-4] = T[c-4] /\ F[l-5] = T[c-5]
      BY <1>3, <2>2, <2>b, Sizes
    <3> QED
      BY <1>7, <1>s, <2>1, <2>b, <3>1 DEF Contents
  <2>c. CASE m \in {"imap", "imapindexed"}
    <3>1. F[l-3] = T[c-3] /\ F[l-4] = T[c-4] /\ F[l-5] = T[c-5]
      BY <1>3, <2>2, <2>c, Sizes
    <3> QED
      BY <1>7, <1>s, <2>1, <2>c, <3>1 DEF Contents
  <2>d. CASE m = "imapthread"
    <3>1. F[l-3] = T[c-3] /\ F[l-4] = T[c-4] /\ F[l-5] = T[c-5] /\ F[l-6] = T[c-6]
      BY <1>3, <2>2, <2>d, Sizes
    <3> QED
      BY <1>7, <1>s, <2>1, <2>d, <3>1 DEF Contents
  <2> QED
    BY <1>7, <2>a, <2>b, <2>c, <2>d DEF Contents
<1>13. FrameOk(g, F, l)
  BY <1>7, <1>8, <1>10, <1>11, <1>12 DEF FrameOk
<1>14. \A i \in (n + 1)..(l - 1) : Value(F[i])
  BY <1>6, <1>9, <1>t
<1>15. Len(F) = l /\ F[Len(F)] = Marker(m)
  BY <1>4, <1>5, <1>7
<1>16. Whole(g, F)
  BY <1>2, <1>4, <1>6, <1>7, <1>8, <1>13, <1>14, <1>15, PushFrame
<1>17. F # <<>>
  BY <1>4, <1>6, <1>15, StackLength
<1> QED
  BY <1>15, <1>16, <1>17 DEF Top

-----------------------------------------------------------------------------
(* Programs *)

LEMMA ProgramParts ==
    ASSUME program \in Programs
    PROVE  /\ DOMAIN program.body = Procedures
           /\ \A p \in Procedures : Values(program.body[p]) /\ Len(program.body[p]) \in Nat
           /\ IsStack(program.input)
           /\ \A i \in 1..Len(program.input) :
                 program.input[i] = BadSyntax \/ Value(program.input[i])
           /\ program.signals \in Nat /\ program.backtrace \in BOOLEAN
<1>1. /\ DOMAIN program.body = Procedures
      /\ \A p \in Procedures : program.body[p] \in Seq(Range(program.body[p]))
      /\ program.input \in Seq(Range(program.input))
      /\ program.signals \in Nat /\ program.backtrace \in BOOLEAN
  BY ProgramsAssumption
<1>2. Range(program.input) \subseteq Literals \cup {BadSyntax}
  <2>1. Range(program.input) \subseteq UNION {Range(g.input) : g \in Programs}
    OBVIOUS
  <2> QED
    BY <2>1, ProgramsAssumption
<1>3. \A p \in Procedures : Range(program.body[p]) \subseteq Literals
  <2>1. \A p \in Procedures :
           Range(program.body[p]) \subseteq UNION {Range(g.body[q]) : g \in Programs, q \in Procedures}
    OBVIOUS
  <2> QED
    BY <2>1, ProgramsAssumption
<1>4. ASSUME NEW s, s \in Seq(Range(s))
      PROVE  IsStack(s) /\ \A i \in 1..Len(s) : s[i] \in Range(s)
  BY <1>4 DEF IsStack
<1>5. ASSUME NEW p \in Procedures
      PROVE  Values(program.body[p]) /\ Len(program.body[p]) \in Nat
  <2>1. PICK s : s = program.body[p]
    OBVIOUS
  <2>2. s \in Seq(Range(s)) /\ Range(s) \subseteq Literals
    BY <1>1, <1>3, <2>1
  <2>3. IsStack(s) /\ \A i \in 1..Len(s) : s[i] \in Range(s)
    BY <1>4, <2>2
  <2>4. \A i \in 1..Len(s) : Value(s[i])
    BY <2>2, <2>3, LiteralIsValue
  <2> QED
    BY <2>1, <2>3, <2>4, StackLength DEF Values
<1>6. /\ IsStack(program.input)
      /\ \A i \in 1..Len(program.input) : program.input[i] = BadSyntax \/ Value(program.input[i])
  <2>1. PICK s : s = program.input
    OBVIOUS
  <2>2. s \in Seq(Range(s)) /\ Range(s) \subseteq Literals \cup {BadSyntax}
    BY <1>1, <1>2, <2>1
  <2>3. IsStack(s) /\ \A i \in 1..Len(s) : s[i] \in Range(s)
    BY <1>4, <2>2
  <2>4. \A i \in 1..Len(s) : s[i] = BadSyntax \/ Value(s[i])
    BY <2>2, <2>3, LiteralIsValue
  <2> QED
    BY <2>1, <2>3, <2>4
<1> QED
  BY <1>1, <1>5, <1>6

\* Only ::parse means the parser.
LEMMA ResolveKinds ==
    ASSUME program \in Programs, NEW n
    PROVE  \/ Resolve(n) = Unbound
           \/ Value(Resolve(n))
           \/ n = Parse /\ Resolve(n) = Marker("iparse")
<1>1. \A x \in DOMAIN Tries : Value(Trie(x))
  BY AtomsAreValues
<1>2. \A x \in Operators : Value(Fn(x))
  BY AtomsAreValues
<1>3. \A x \in DOMAIN program.body : Value(Proc(x))
  BY AtomsAreValues, ProgramParts
<1>4. \A x \in DOMAIN ConstNames : Value(ConstNames[x])
  BY ConstantIsValue
<1>5. Value(Bool(FALSE)) /\ Value(Marker("quit"))
  BY AtomsAreValues
<1>a. CASE n \in DOMAIN Tries
  BY <1>1, <1>a DEF Resolve
<1>b. CASE n \notin DOMAIN Tries /\ n \in Operators
  BY <1>2, <1>b DEF Resolve
<1>c. CASE n \notin DOMAIN Tries /\ n \notin Operators /\ n \in DOMAIN program.body
  BY <1>3, <1>c DEF Resolve
<1>d. CASE /\ n \notin DOMAIN Tries /\ n \notin Operators /\ n \notin DOMAIN program.body
           /\ n \in DOMAIN ConstNames
  BY <1>4, <1>d DEF Resolve
<1>e. CASE /\ n \notin DOMAIN Tries /\ n \notin Operators /\ n \notin DOMAIN program.body
           /\ n \notin DOMAIN ConstNames
  BY <1>5, <1>e DEF Resolve, Stopped, Parse
<1> QED
  BY <1>a, <1>b, <1>c, <1>d, <1>e

LEMMA OperatorIsValue ==
    ASSUME program \in Programs, NEW t, Value(t)
    PROVE  Value(Operator(t))
<1>1. Tag(Resolve(Data(t))) \in {"function", "trie"} => Value(Resolve(Data(t)))
  BY ResolveKinds, TokenParts
<1> QED
  BY <1>1 DEF Operator

\* bind keeps the length of a body.
LEMMA BodyParts ==
    ASSUME program \in Programs, NEW p \in Procedures
    PROVE  /\ Values(Body(p)) /\ IsStack(Body(p))
           /\ Len(Body(p)) = Len(program.body[p]) /\ Len(Body(p)) \in Nat
<1>1. PICK s : s = program.body[p]
  OBVIOUS
<1>2. Values(s) /\ Len(s) \in Nat /\ DOMAIN s = 1..Len(s)
  BY <1>1, ProgramParts, StackLength DEF Values
<1>3. \A i \in 1..Len(s) : Value(Operator(s[i]))
  BY <1>2, OperatorIsValue DEF Values
<1>4. PICK b : b = [i \in 1..Len(s) |-> Operator(s[i])]
  OBVIOUS
<1>5. b \in Seq({Operator(s[i]) : i \in 1..Len(s)}) /\ Len(b) = Len(s)
  BY <1>2, <1>4
<1>6. Values(b)
  BY <1>3, <1>4, <1>5 DEF Values, IsStack
<1>7. Body(p) = b \/ Body(p) = s
  BY <1>1, <1>2, <1>4 DEF Body
<1> QED
  BY <1>1, <1>2, <1>5, <1>6, <1>7 DEF Values

-----------------------------------------------------------------------------
(* The operators that push *)

\* What the steps keep of the dictionary stack and of errordict.
Recorded == "newerror" \in DOMAIN error /\ error.newerror \in BOOLEAN
Fine == Values(ostack) /\ Recorded /\ dlevel \in Int /\ dlevel >= 3
Kept == Whole(program, estack) /\ Fine

LEMMA StacksKeep ==
    ASSUME NEW E, NEW O, Fine, Whole(program, E), Values(O), Stacks(E, O), UNCHANGED program
    PROVE  Kept'
BY DEF Stacks, Fine, Kept, Recorded

LEMMA RaiseKeeps ==
    ASSUME NEW E, NEW O, NEW f, NEW e, Fine, Whole(program, E), Values(O), Raise(E, O, f, e),
           UNCHANGED <<program, dlevel>>
    PROVE  Kept' /\ estack' # <<>> /\ Last(estack') = Fn("stop")
<1>1. estack' = Append(E, Fn("stop"))
  BY DEF Raise
<1>2. Whole(program, estack')
  BY <1>1, PushStop
<1>3. Values(ostack')
  BY ValuesAppend, AtomsAreValues DEF Raise
<1>4. Recorded'
  <2>a. CASE error' = [newerror |-> TRUE, errorname |-> e, commandname |-> f]
    BY <2>a DEF Recorded
  <2>b. CASE error' = [error EXCEPT !.newerror = FALSE]
    BY <2>b DEF Recorded, Fine
  <2> QED
    BY <2>a, <2>b DEF Raise
<1>5. estack' # <<>> /\ Last(estack') = Fn("stop")
  <2>1. Len(estack') = Len(E) + 1 /\ estack'[Len(E) + 1] = Fn("stop") /\ Len(E) \in Nat
    BY <1>1, WholeStack, StackAppend
  <2>2. Len(estack') > 0
    BY <2>1
  <2> QED
    BY <1>2, <2>1, <2>2, WholeStack DEF Last
<1> QED
  BY <1>2, <1>3, <1>4, <1>5 DEF Kept, Fine

LEMMA RaiseInKeeps ==
    ASSUME NEW E, NEW f, NEW e, Fine, Whole(program, E), RaiseIn(E, f, e), UNCHANGED program
    PROVE  Kept'
BY RaiseKeeps DEF RaiseIn, Fine

LEMMA OperandsOf ==
    ASSUME NEW f \in Operators, Values(ostack), Loaded(f), Typed(f)
    PROVE  /\ f \in {"pop", "exec", "stopped", "print_error", "bind_", "begin"} => Len(ostack) >= 1
           /\ f \in {"if", "case", "forall", "forallindexed", "raiseerror", "add_ii"} => Len(ostack) >= 2
           /\ f = "ifelse" => Len(ostack) >= 3
           /\ f = "loop" => Len(ostack) >= 1 /\ Tag(Last(ostack)) = "procedure"
           /\ f = "repeat" =>
                 Len(ostack) >= 2 /\ Tag(Last(ostack)) = "procedure" /\ Tag(Pick(ostack, 1)) = "integer"
           /\ f = "for" =>
                 /\ Len(ostack) >= 4 /\ Tag(Last(ostack)) = "procedure" /\ Tag(Pick(ostack, 1)) = "integer"
                 /\ Tag(Pick(ostack, 2)) = "integer" /\ Tag(Pick(ostack, 3)) = "integer"
           /\ f \in {"Map", "MapIndexed", "MapThread"} =>
                 Len(ostack) >= 2 /\ Tag(Last(ostack)) = "procedure" /\ Tag(Pick(ostack, 1)) = "array"
<1>1. Len(ostack) \in Nat /\ Last(ostack) = Pick(ostack, 0)
  <2>1. Len(ostack) \in Nat
    BY StackLength DEF Values
  <2> QED
    BY <2>1 DEF Last, Pick
<1>2. Len(ostack) >= Len(Requires[f])
  BY DEF Loaded
<1>3. \A i \in DOMAIN Requires[f] : Tag(Pick(ostack, i - 1)) \in Requires[f][i]
  BY DEF Typed
<1>a. CASE f \in {"pop", "exec", "stopped", "print_error", "bind_", "begin"}
  <2>1. Len(Requires[f]) = 1
    BY <1>a DEF Requires
  <2> QED
    BY <1>1, <1>2, <1>a, <2>1
<1>b. CASE f \in {"if", "case", "forall", "forallindexed", "raiseerror", "add_ii"}
  <2>1. Len(Requires[f]) = 2
    BY <1>b DEF Requires
  <2> QED
    BY <1>1, <1>2, <1>b, <2>1
<1>c. CASE f = "ifelse"
  <2>1. Len(Requires[f]) = 3
    BY <1>c DEF Requires
  <2> QED
    BY <1>1, <1>2, <1>c, <2>1
<1>d. CASE f = "loop"
  <2>1. Requires[f] = <<{"procedure"}>>
    BY <1>d DEF Requires, IsProc
  <2>2. 1 \in DOMAIN Requires[f] /\ 1 - 1 = 0
    BY <2>1
  <2>3. Tag(Pick(ostack, 0)) \in Requires[f][1]
    BY <1>3, <2>2
  <2> QED
    BY <1>1, <1>2, <1>d, <2>1, <2>3
<1>e. CASE f = "repeat"
  <2>1. Requires[f] = <<{"procedure"}, {"integer"}>>
    BY <1>e DEF Requires, IsProc, IsInt
  <2>2. 1 \in DOMAIN Requires[f] /\ 1 - 1 = 0 /\ 2 \in DOMAIN Requires[f] /\ 2 - 1 = 1
    BY <2>1
  <2>3. Tag(Pick(ostack, 0)) \in Requires[f][1] /\ Tag(Pick(ostack, 1)) \in Requires[f][2]
    BY <1>3, <2>2
  <2> QED
    BY <1>1, <1>2, <1>e, <2>1, <2>3
<1>f. CASE f = "for"
  <2>1. Requires[f] = <<{"procedure"}, {"integer"}, {"integer"}, {"integer"}>>
    BY <1>f DEF Requires, IsProc, IsInt
  <2>2. /\ 1 \in DOMAIN Requires[f] /\ 1 - 1 = 0 /\ 2 \in DOMAIN Requires[f] /\ 2 - 1 = 1
        /\ 3 \in DOMAIN Requires[f] /\ 3 - 1 = 2 /\ 4 \in DOMAIN Requires[f] /\ 4 - 1 = 3
    BY <2>1
  <2>3. /\ Tag(Pick(ostack, 0)) \in Requires[f][1] /\ Tag(Pick(ostack, 1)) \in Requires[f][2]
        /\ Tag(Pick(ostack, 2)) \in Requires[f][3] /\ Tag(Pick(ostack, 3)) \in Requires[f][4]
    BY <1>3, <2>2
  <2> QED
    BY <1>1, <1>2, <1>f, <2>1, <2>3
<1>g. CASE f \in {"Map", "MapIndexed", "MapThread"}
  <2>1. Requires[f] = <<{"procedure"}, {"array"}>>
    BY <1>g DEF Requires, IsProc
  <2>2. 1 \in DOMAIN Requires[f] /\ 1 - 1 = 0 /\ 2 \in DOMAIN Requires[f] /\ 2 - 1 = 1
    BY <2>1
  <2>3. Tag(Pick(ostack, 0)) \in Requires[f][1] /\ Tag(Pick(ostack, 1)) \in Requires[f][2]
    BY <1>3, <2>2
  <2> QED
    BY <1>1, <1>2, <1>g, <2>1, <2>3
<1> QED
  BY <1>a, <1>b, <1>c, <1>d, <1>e, <1>f, <1>g

\* The operands of an operator that pushes, and the stack it pushes on.
Pushing(E) ==
    /\ program \in Programs /\ UNCHANGED program
    /\ Fine /\ Whole(program, E) /\ Ready(program, E)

LEMMA TakeOperands ==
    ASSUME NEW k \in Nat, Values(ostack), Len(ostack) >= k
    PROVE  Values(Drop(ostack, k)) /\ Len(Drop(ostack, k)) = Len(ostack) - k
<1>1. Len(ostack) \in Nat /\ k \in 0..Len(ostack)
  BY StackLength DEF Values
<1> QED
  BY <1>1, ValuesDrop

LEMMA OperandValues ==
    ASSUME NEW k \in Nat, Values(ostack), Len(ostack) > k
    PROVE  Value(Pick(ostack, k)) /\ Value(Last(ostack)) /\ Last(ostack) = Pick(ostack, 0)
<1>1. Len(ostack) \in Nat /\ k \in 0..(Len(ostack) - 1) /\ 0 \in 0..(Len(ostack) - 1)
  BY StackLength DEF Values
<1> QED
  BY <1>1, PickValue

LEMMA ExecKeeps ==
    ASSUME NEW E, Pushing(E), Len(ostack) >= 1, Exec(E)
    PROVE  Kept'
<1>1. Value(Last(ostack)) /\ Values(Drop(ostack, 1))
  BY OperandValues, TakeOperands DEF Pushing, Fine
<1>2. Whole(program, Append(E, Last(ostack)))
  BY <1>1, PushValue DEF Pushing
<1> QED
  BY <1>1, <1>2, StacksKeep DEF Exec, Pushing

LEMMA IfKeeps ==
    ASSUME NEW E, Pushing(E), Len(ostack) >= 2, If(E)
    PROVE  Kept'
<1>1. Value(Last(ostack)) /\ Values(Drop(ostack, 2))
  BY OperandValues, TakeOperands DEF Pushing, Fine
<1>2. Whole(program, Append(E, Last(ostack))) /\ Whole(program, E)
  BY <1>1, PushValue DEF Pushing
<1> QED
  BY <1>1, <1>2, StacksKeep DEF If, Pushing

LEMMA IfelseKeeps ==
    ASSUME NEW E, Pushing(E), Len(ostack) >= 3, Ifelse(E)
    PROVE  Kept'
<1>1. Value(Pick(ostack, 0)) /\ Value(Pick(ostack, 1)) /\ Values(Drop(ostack, 3))
  <2>1. Len(ostack) \in Nat /\ Values(ostack)
    BY StackLength DEF Pushing, Fine, Values
  <2> QED
    BY <2>1, OperandValues, TakeOperands
<1>2. Whole(program, Append(E, Pick(ostack, 0))) /\ Whole(program, Append(E, Pick(ostack, 1)))
  BY <1>1, PushValue DEF Pushing
<1> QED
  BY <1>1, <1>2, StacksKeep DEF Ifelse, Pushing

LEMMA CaseKeeps ==
    ASSUME NEW E, Pushing(E), Len(ostack) >= 2, Case(E)
    PROVE  Kept'
<1>1. Value(Last(ostack)) /\ Values(Drop(ostack, 2))
  BY OperandValues, TakeOperands DEF Pushing, Fine
<1>2. Values(Append(Drop(ostack, 2), Last(ostack)))
  BY <1>1, ValuesAppend
<1> QED
  BY <1>1, <1>2, StacksKeep, RaiseInKeeps DEF Case, Pushing

\* ::stopped and the token over it.
LEMMA StoppedKeeps ==
    ASSUME NEW E, Pushing(E), Len(ostack) >= 1, StoppedOp(E)
    PROVE  Kept'
<1>1. PICK t : t = Last(ostack)
  OBVIOUS
<1>2. Value(t) /\ Values(Drop(ostack, 1))
  BY <1>1, OperandValues, TakeOperands DEF Pushing, Fine
<1>3. PICK s : s = NameTok(Stopped)
  OBVIOUS
<1>4. Value(s) /\ Tag(s) = "name"
  BY <1>3, AtomsAreValues, TokenParts DEF Stopped, Parse
<1>5. PICK F : F = Append(E, s)
  OBVIOUS
<1>6. Whole(program, F) /\ Len(F) = Len(E) + 1 /\ F[Len(E) + 1] = s /\ IsStack(E)
  BY <1>4, <1>5, PushValue, WholeStack, StackAppend DEF Pushing
<1>7. Ready(program, F)
  BY <1>4, <1>6 DEF Ready, Unspent
<1>8. Whole(program, Append(F, t))
  BY <1>2, <1>6, <1>7, PushValue
<1>9. E \o <<s, t>> = Append(F, t)
  <2>1. PICK S : E \in Seq(S)
    BY <1>6 DEF IsStack
  <2>2. E \in Seq(S \cup {s, t})
    BY <2>1
  <2> QED
    BY <1>5, <2>2
<1> QED
  BY <1>1, <1>2, <1>3, <1>8, <1>9, StacksKeep DEF StoppedOp, Pushing

\* The operators that push a frame.
LEMMA FrameKeeps ==
    ASSUME NEW E, Pushing(E), NEW m \in IterMarkers, NEW T, NEW z,
           NewSlots(program, T, m, z), NEW O, Values(O), Stacks(E \o T, O)
    PROVE  Kept'
<1>1. Joined(E \o T, E, T)
  BY ConcatJoins DEF Pushing, NewSlots, Whole
<1>2. Whole(program, E \o T)
  BY <1>1, NewFrame DEF Pushing
<1> QED
  BY <1>2, StacksKeep DEF Pushing

LEMMA ProcedureOperand ==
    ASSUME NEW E, Pushing(E), NEW p, Value(p), Tag(p) = "procedure"
    PROVE  /\ Data(p) \in Procedures
           /\ 0 \in 0..Len(program.body[Data(p)])
           /\ Value(AtEnd(p)) /\ Tag(AtEnd(p)) = "integer"
           /\ Data(AtEnd(p)) \in 0..Len(program.body[Data(p)])
<1>1. Data(p) \in Procedures
  BY ValueIsPlain DEF Plain
<1>2. Len(Body(Data(p))) = Len(program.body[Data(p)]) /\ Len(Body(Data(p))) \in Nat
  BY <1>1, BodyParts DEF Pushing
<1> QED
  BY <1>1, <1>2, AtomsAreValues, TokenParts DEF AtEnd

LEMMA LoopKeeps ==
    ASSUME NEW E, Pushing(E), Len(ostack) >= 1, Tag(Last(ostack)) = "procedure", Loop(E)
    PROVE  Kept'
<1>1. PICK p : p = Last(ostack)
  OBVIOUS
<1>2. Value(p) /\ Tag(p) = "procedure" /\ Values(Drop(ostack, 1))
  BY <1>1, OperandValues, TakeOperands DEF Pushing, Fine
<1>3. PICK T : T = <<MarkTok, p, IntTok(0), Marker("iloop")>>
  OBVIOUS
<1>4. /\ IsStack(T) /\ Len(T) = 4
      /\ T[1] = MarkTok /\ T[2] = p /\ T[3] = IntTok(0) /\ T[4] = Marker("iloop")
  BY <1>3, Tuple4
<1>5. NewSlots(program, T, "iloop", 3)
  <2>1. \A k \in 1..3 : k = 1 \/ k = 2 \/ k = 3
    OBVIOUS
  <2>2. \A k \in 1..3 : Tag(T[k]) = Layout["iloop"][k] /\ Value(T[k])
    BY <1>2, <1>4, <2>1, LayoutOf, TokenParts, AtomsAreValues
  <2>3. Contents(T, 4)
    BY <1>4, TokenParts DEF Contents
  <2>4. Data(T[3]) \in 0..Len(program.body[Data(T[2])])
    BY <1>2, <1>4, ProcedureOperand, TokenParts
  <2> QED
    BY <1>4, <2>2, <2>3, <2>4, Sizes DEF NewSlots
<1>6. "iloop" \in IterMarkers
  BY DEF IterMarkers, LoopMarkers
<1>7. Stacks(E \o T, Drop(ostack, 1))
  BY <1>1, <1>3 DEF Loop
<1> QED
  BY <1>2, <1>5, <1>6, <1>7, FrameKeeps

LEMMA RepeatKeeps ==
    ASSUME NEW E, Pushing(E), Len(ostack) >= 2, Tag(Last(ostack)) = "procedure",
           Tag(Pick(ostack, 1)) = "integer", Repeat(E)
    PROVE  Kept'
<1>1. PICK p : p = Last(ostack)
  OBVIOUS
<1>2. PICK a : a = Pick(ostack, 1)
  OBVIOUS
<1>3. Value(p) /\ Tag(p) = "procedure" /\ Value(a) /\ Tag(a) = "integer" /\ Values(Drop(ostack, 2))
  <2>1. Len(ostack) \in Nat /\ Values(ostack)
    BY StackLength DEF Pushing, Fine, Values
  <2> QED
    BY <1>1, <1>2, <2>1, OperandValues, TakeOperands
<1>4. PICK T : T = <<MarkTok, a, p, AtEnd(p), Marker("irepeat")>>
  OBVIOUS
<1>5. /\ IsStack(T) /\ Len(T) = 5
      /\ T[1] = MarkTok /\ T[2] = a /\ T[3] = p /\ T[4] = AtEnd(p) /\ T[5] = Marker("irepeat")
  BY <1>4, Tuple5
<1>6. NewSlots(program, T, "irepeat", 4)
  <2>0. /\ Value(AtEnd(p)) /\ Tag(AtEnd(p)) = "integer"
        /\ Data(AtEnd(p)) \in 0..Len(program.body[Data(p)])
    BY <1>3, ProcedureOperand
  <2>1. \A k \in 1..4 : k = 1 \/ k = 2 \/ k = 3 \/ k = 4
    OBVIOUS
  <2>2. \A k \in 1..4 : Tag(T[k]) = Layout["irepeat"][k] /\ Value(T[k])
    BY <1>3, <1>5, <2>0, <2>1, LayoutOf, TokenParts, AtomsAreValues
  <2>3. Contents(T, 5)
    BY <1>5, TokenParts DEF Contents
  <2> QED
    BY <1>5, <2>0, <2>2, <2>3, Sizes DEF NewSlots
<1>7. "irepeat" \in IterMarkers
  BY DEF IterMarkers, LoopMarkers
<1>8. Stacks(E \o T, Drop(ostack, 2))
  BY <1>1, <1>2, <1>4 DEF Repeat
<1> QED
  BY <1>3, <1>6, <1>7, <1>8, FrameKeeps

LEMMA ForKeeps ==
    ASSUME NEW E, Pushing(E), Len(ostack) >= 4, Tag(Last(ostack)) = "procedure",
           Tag(Pick(ostack, 1)) = "integer", Tag(Pick(ostack, 2)) = "integer",
           Tag(Pick(ostack, 3)) = "integer", For(E)
    PROVE  Kept'
<1>1. PICK p : p = Last(ostack)
  OBVIOUS
<1>2. PICK a : a = Pick(ostack, 1)
  OBVIOUS
<1>3. PICK b : b = Pick(ostack, 2)
  OBVIOUS
<1>4. PICK c : c = Pick(ostack, 3)
  OBVIOUS
<1>5. /\ Value(p) /\ Tag(p) = "procedure" /\ Value(a) /\ Tag(a) = "integer"
      /\ Value(b) /\ Tag(b) = "integer" /\ Value(c) /\ Tag(c) = "integer"
      /\ Values(Drop(ostack, 4))
  <2>1. Len(ostack) \in Nat /\ Values(ostack)
    BY StackLength DEF Pushing, Fine, Values
  <2> QED
    BY <1>1, <1>2, <1>3, <1>4, <2>1, OperandValues, TakeOperands
<1>6. PICK T : T = <<MarkTok, b, a, c, p, AtEnd(p), Marker("ifor")>>
  OBVIOUS
<1>7. /\ IsStack(T) /\ Len(T) = 7
      /\ T[1] = MarkTok /\ T[2] = b /\ T[3] = a /\ T[4] = c /\ T[5] = p
      /\ T[6] = AtEnd(p) /\ T[7] = Marker("ifor")
  BY <1>6, Tuple7
<1>8. NewSlots(program, T, "ifor", 6)
  <2>0. /\ Value(AtEnd(p)) /\ Tag(AtEnd(p)) = "integer"
        /\ Data(AtEnd(p)) \in 0..Len(program.body[Data(p)])
    BY <1>5, ProcedureOperand
  <2>1. \A k \in 1..6 : k = 1 \/ k = 2 \/ k = 3 \/ k = 4 \/ k = 5 \/ k = 6
    OBVIOUS
  <2>2. \A k \in 1..6 : Tag(T[k]) = Layout["ifor"][k] /\ Value(T[k])
    BY <1>5, <1>7, <2>0, <2>1, LayoutOf, TokenParts, AtomsAreValues
  <2>3. Contents(T, 7)
    BY <1>7, TokenParts DEF Contents
  <2> QED
    BY <1>7, <2>0, <2>2, <2>3, Sizes DEF NewSlots
<1>9. "ifor" \in IterMarkers
  BY DEF IterMarkers, LoopMarkers
<1>10. Stacks(E \o T, Drop(ostack, 4))
  BY <1>1, <1>2, <1>3, <1>4, <1>6 DEF For
<1> QED
  BY <1>5, <1>8, <1>9, <1>10, FrameKeeps

\* forall over what has elements.
LEMMA AsArrayIsValue ==
    ASSUME program \in Programs, NEW t, Value(t)
    PROVE  Value(AsArray(t))
<1>1. Tag(t) \in {"procedure", "litprocedure"} => Value(Array(Body(Data(t))))
  BY ValueIsPlain, BodyParts, ArrayIsValue DEF Plain
<1> QED
  BY <1>1 DEF AsArray

LEMMA ForallxKeeps ==
    ASSUME NEW E, Pushing(E), Len(ostack) >= 2, Tag(Last(ostack)) = "procedure",
           NEW m \in {"iforall", "iforallstring"},
           Tag(AsArray(Pick(ostack, 1))) = Layout[m][2], Forall_x(E, m)
    PROVE  Kept'
<1>1. PICK p : p = Last(ostack)
  OBVIOUS
<1>2. PICK a : a = AsArray(Pick(ostack, 1))
  OBVIOUS
<1>3. /\ Value(p) /\ Tag(p) = "procedure" /\ Value(a) /\ Tag(a) = Layout[m][2]
      /\ Values(Drop(ostack, 2))
  <2>1. Len(ostack) \in Nat /\ Values(ostack)
    BY StackLength DEF Pushing, Fine, Values
  <2>2. Value(p) /\ Value(Pick(ostack, 1)) /\ Values(Drop(ostack, 2))
    BY <1>1, <2>1, OperandValues, TakeOperands
  <2> QED
    BY <1>1, <1>2, <2>2, AsArrayIsValue DEF Pushing
<1>4. PICK T : T = <<MarkTok, a, IntTok(0), p, AtEnd(p), Marker(m)>>
  OBVIOUS
<1>5. /\ IsStack(T) /\ Len(T) = 6 /\ T[1] = MarkTok /\ T[2] = a /\ T[3] = IntTok(0)
      /\ T[4] = p /\ T[5] = AtEnd(p) /\ T[6] = Marker(m)
  BY <1>4, Tuple6
<1>6. NewSlots(program, T, m, 5)
  <2>0. /\ Value(AtEnd(p)) /\ Tag(AtEnd(p)) = "integer"
        /\ Data(AtEnd(p)) \in 0..Len(program.body[Data(p)])
    BY <1>3, ProcedureOperand
  <2>1. \A k \in 1..5 : k = 1 \/ k = 2 \/ k = 3 \/ k = 4 \/ k = 5
    OBVIOUS
  <2>l. /\ Layout[m][1] = "mark" /\ Layout[m][3] = "integer"
        /\ Layout[m][4] = "procedure" /\ Layout[m][5] = "integer"
    BY LayoutOf
  <2>2. \A k \in 1..5 : Tag(T[k]) = Layout[m][k] /\ Value(T[k])
    BY <1>3, <1>5, <2>0, <2>1, <2>l, TokenParts, AtomsAreValues
  <2>3. Contents(T, 6)
    BY <1>5, TokenParts DEF Contents
  <2> QED
    BY <1>5, <2>0, <2>2, <2>3, Sizes DEF NewSlots
<1>7. m \in IterMarkers
  BY DEF IterMarkers, LoopMarkers
<1>8. Stacks(E \o T, Drop(ostack, 2))
  BY <1>1, <1>2, <1>4 DEF Forall_x
<1> QED
  BY <1>3, <1>6, <1>7, <1>8, FrameKeeps

LEMMA ForallKeeps ==
    ASSUME NEW E, Pushing(E), Len(ostack) >= 2, Forall(E)
    PROVE  Kept'
<1>1. PICK c : c = Tag(AsArray(Pick(ostack, 1)))
  OBVIOUS
<1>a. CASE Tag(Last(ostack)) = "procedure" /\ c = "array"
  <2>1. Forall_x(E, "iforall")
    BY <1>1, <1>a DEF Forall, Forall_a
  <2> QED
    BY <1>1, <1>a, <2>1, ForallxKeeps, LayoutOf
<1>b. CASE Tag(Last(ostack)) = "procedure" /\ c = "string"
  <2>1. Forall_x(E, "iforallstring")
    BY <1>1, <1>b DEF Forall, Forall_s
  <2> QED
    BY <1>1, <1>b, <2>1, ForallxKeeps, LayoutOf
<1>c. CASE Tag(Last(ostack)) = "procedure" /\ c = "dictionary"
  <2>1. PICK t : t = Proc(Forall_di)
    OBVIOUS
  <2>2. Value(t)
    BY <2>1, AtomsAreValues, ProgramsAssumption
  <2>3. Stacks(Append(E, t), ostack)
    BY <1>1, <1>c, <2>1 DEF Forall
  <2>4. Whole(program, Append(E, t))
    BY <2>2, PushValue DEF Pushing
  <2> QED
    BY <2>3, <2>4, StacksKeep DEF Pushing, Fine
<1>d. CASE ~(Tag(Last(ostack)) = "procedure" /\ (c = "array" \/ c = "string" \/ c = "dictionary"))
  <2>1. RaiseIn(E, "forall", "ArgumentType")
    BY <1>1, <1>d DEF Forall
  <2> QED
    BY <2>1, RaiseInKeeps DEF Pushing
<1> QED
  BY <1>a, <1>b, <1>c, <1>d

LEMMA ForallindexedxKeeps ==
    ASSUME NEW E, Pushing(E), Len(ostack) >= 2, Tag(Last(ostack)) = "procedure",
           NEW m \in {"iforallindexedarray", "iforallindexedstring"},
           Tag(Pick(ostack, 1)) = Layout[m][2], Forallindexed_x(E, m)
    PROVE  Kept'
<1>1. PICK p : p = Last(ostack)
  OBVIOUS
<1>2. PICK c : c = Pick(ostack, 1)
  OBVIOUS
<1>3. /\ Value(p) /\ Tag(p) = "procedure" /\ Value(c) /\ Tag(c) = Layout[m][2]
      /\ Values(Drop(ostack, 2))
  <2>1. Len(ostack) \in Nat /\ Values(ostack)
    BY StackLength DEF Pushing, Fine, Values
  <2> QED
    BY <1>1, <1>2, <2>1, OperandValues, TakeOperands
<1>l. /\ Layout[m][1] = "mark" /\ Layout[m][2] \in {"array", "string"} /\ Layout[m][3] = "integer"
      /\ Layout[m][4] = "integer" /\ Layout[m][5] = "procedure" /\ Layout[m][6] = "integer"
  BY LayoutOf
<1>4. PICK n : n = Len(Data(c))
  OBVIOUS
<1>5. n \in Nat /\ n <= Len(Data(c))
  <2>1. Values(Data(c))
    BY <1>3, <1>l, ElementsAreValues DEF HasElements
  <2>2. n \in Nat
    BY <1>4, <2>1, StackLength DEF Values
  <2> QED
    BY <1>4, <2>2
<1>6. PICK T : T = <<MarkTok, c, IntTok(n), IntTok(0), p, AtEnd(p), Marker(m)>>
  OBVIOUS
<1>7. /\ IsStack(T) /\ Len(T) = 7 /\ T[1] = MarkTok /\ T[2] = c /\ T[3] = IntTok(n)
      /\ T[4] = IntTok(0) /\ T[5] = p /\ T[6] = AtEnd(p) /\ T[7] = Marker(m)
  BY <1>6, Tuple7
<1>8. NewSlots(program, T, m, 6)
  <2>0. /\ Value(AtEnd(p)) /\ Tag(AtEnd(p)) = "integer"
        /\ Data(AtEnd(p)) \in 0..Len(program.body[Data(p)])
    BY <1>3, ProcedureOperand
  <2>1. \A k \in 1..6 : k = 1 \/ k = 2 \/ k = 3 \/ k = 4 \/ k = 5 \/ k = 6
    OBVIOUS
  <2>2. \A k \in 1..6 : Tag(T[k]) = Layout[m][k] /\ Value(T[k])
    BY <1>3, <1>7, <2>0, <2>1, <1>l, TokenParts, AtomsAreValues
  <2>3. Contents(T, 7)
    <3>1. Tag(T[7]) = m /\ Data(T[4]) = 0 /\ Data(T[3]) = n /\ T[2] = c
      BY <1>7, TokenParts
    <3> QED
      BY <1>5, <3>1 DEF Contents
  <2> QED
    BY <1>7, <2>0, <2>2, <2>3, Sizes DEF NewSlots
<1>9. m \in IterMarkers
  BY DEF IterMarkers, LoopMarkers
<1>10. Stacks(E \o T, Drop(ostack, 2))
  BY <1>1, <1>2, <1>4, <1>6 DEF Forallindexed_x
<1> QED
  BY <1>3, <1>8, <1>9, <1>10, FrameKeeps

LEMMA ForallindexedKeeps ==
    ASSUME NEW E, Pushing(E), Len(ostack) >= 2, Forallindexed(E)
    PROVE  Kept'
<1>1. PICK c : c = Tag(Pick(ostack, 1))
  OBVIOUS
<1>a. CASE Tag(Last(ostack)) = "procedure" /\ c = "array"
  <2>1. Forallindexed_x(E, "iforallindexedarray")
    BY <1>1, <1>a DEF Forallindexed, Forallindexed_a
  <2> QED
    BY <1>1, <1>a, <2>1, ForallindexedxKeeps, LayoutOf
<1>b. CASE Tag(Last(ostack)) = "procedure" /\ c = "string"
  <2>1. Forallindexed_x(E, "iforallindexedstring")
    BY <1>1, <1>b DEF Forallindexed, Forallindexed_s
  <2> QED
    BY <1>1, <1>b, <2>1, ForallindexedxKeeps, LayoutOf
<1>c. CASE ~(Tag(Last(ostack)) = "procedure" /\ (c = "array" \/ c = "string"))
  <2>1. RaiseIn(E, "forallindexed", "ArgumentType")
    BY <1>1, <1>c DEF Forallindexed
  <2> QED
    BY <2>1, RaiseInKeeps DEF Pushing
<1> QED
  BY <1>a, <1>b, <1>c

\* The Map family saves how many operands there are, which is at least one.
LEMMA NotEmpty ==
    ASSUME NEW c, Value(c), Tag(c) = "array"
    PROVE  Values(Data(c)) /\ IsStack(Data(c)) /\ Len(Data(c)) \in Nat
           /\ (Data(c) # <<>> => Len(Data(c)) > 0)
<1>1. PICK s : s = Data(c)
  OBVIOUS
<1>2. Values(s)
  BY <1>1, ElementsAreValues DEF HasElements
<1>3. IsStack(s) /\ Len(s) \in Nat /\ (s = <<>> <=> Len(s) = 0)
  BY <1>2, StackLength DEF Values
<1> QED
  BY <1>1, <1>2, <1>3

LEMMA MapKeeps ==
    ASSUME NEW E, Pushing(E), Len(ostack) >= 2, Tag(Last(ostack)) = "procedure",
           Tag(Pick(ostack, 1)) = "array", NEW m \in {"imap", "imapindexed"}, MapOp(E, m)
    PROVE  Kept'
<1>1. PICK p : p = Last(ostack)
  OBVIOUS
<1>2. PICK c : c = Pick(ostack, 1)
  OBVIOUS
<1>o. PICK n : n = Len(ostack) - 1
  OBVIOUS
<1>3. /\ Value(p) /\ Tag(p) = "procedure" /\ Value(c) /\ Tag(c) = "array"
      /\ Values(Drop(ostack, 1)) /\ n \in Nat \ {0}
  <2>1. Len(ostack) \in Nat /\ Values(ostack)
    BY StackLength DEF Pushing, Fine, Values
  <2>2. n \in Nat \ {0}
    BY <1>o, <2>1
  <2>3. Value(Pick(ostack, 1)) /\ Value(Last(ostack)) /\ Values(Drop(ostack, 1))
    BY <2>1, OperandValues, TakeOperands
  <2> QED
    BY <1>1, <1>2, <2>2, <2>3
<1>a. CASE Body(Data(p)) = <<>> \/ Data(c) = <<>>
  <2>1. Stacks(E, Drop(ostack, 1))
    BY <1>1, <1>2, <1>a DEF MapOp
  <2> QED
    BY <1>3, <2>1, StacksKeep DEF Pushing
<1>b. CASE ~(Body(Data(p)) = <<>> \/ Data(c) = <<>>)
  <2>4. PICK T : T = <<MarkTok, IntTok(n), c, IntTok(0), p, AtEnd(p), Marker(m)>>
    OBVIOUS
  <2>5. /\ IsStack(T) /\ Len(T) = 7 /\ T[1] = MarkTok /\ T[2] = IntTok(n) /\ T[3] = c
        /\ T[4] = IntTok(0) /\ T[5] = p /\ T[6] = AtEnd(p) /\ T[7] = Marker(m)
    BY <2>4, Tuple7
  <2>l. /\ Layout[m][1] = "mark" /\ Layout[m][2] = "integer" /\ Layout[m][3] = "array"
        /\ Layout[m][4] = "integer" /\ Layout[m][5] = "procedure" /\ Layout[m][6] = "integer"
    BY LayoutOf
  <2>6. NewSlots(program, T, m, 6)
    <3>0. /\ Value(AtEnd(p)) /\ Tag(AtEnd(p)) = "integer"
          /\ Data(AtEnd(p)) \in 0..Len(program.body[Data(p)])
      BY <1>3, ProcedureOperand
    <3>1. \A k \in 1..6 : k = 1 \/ k = 2 \/ k = 3 \/ k = 4 \/ k = 5 \/ k = 6
      OBVIOUS
    <3>2. \A k \in 1..6 : Tag(T[k]) = Layout[m][k] /\ Value(T[k])
      BY <1>3, <2>5, <3>0, <3>1, <2>l, TokenParts, AtomsAreValues
    <3>3. Contents(T, 7)
      <4>1. Tag(T[7]) = m /\ Data(T[4]) = 0 /\ Data(T[2]) = n /\ T[3] = c
        BY <2>5, TokenParts
      <4>2. Len(Data(c)) > 0
        BY <1>3, <1>b, NotEmpty
      <4> QED
        BY <1>3, <4>1, <4>2 DEF Contents
    <3> QED
      BY <2>5, <3>0, <3>2, <3>3, Sizes DEF NewSlots
  <2>7. m \in IterMarkers
    BY DEF IterMarkers, LoopMarkers
  <2>8. Stacks(E \o T, Drop(ostack, 1))
    BY <1>1, <1>2, <1>o, <1>b, <2>4 DEF MapOp
  <2> QED
    BY <1>3, <2>6, <2>7, <2>8, FrameKeeps
<1> QED
  BY <1>a, <1>b

\* MapThread starts only when its rows are arrays of one length.
LEMMA MapThreadKeeps ==
    ASSUME NEW E, Pushing(E), Len(ostack) >= 2, Tag(Last(ostack)) = "procedure",
           Tag(Pick(ostack, 1)) = "array", MapThread(E)
    PROVE  Kept'
<1>1. PICK p : p = Last(ostack)
  OBVIOUS
<1>2. PICK a : a = Pick(ostack, 1)
  OBVIOUS
<1>c. PICK c : c = Data(a)
  OBVIOUS
<1>o. PICK n : n = Len(ostack) - 1
  OBVIOUS
<1>3. /\ Value(p) /\ Tag(p) = "procedure" /\ Value(a) /\ Tag(a) = "array"
      /\ Values(Drop(ostack, 1)) /\ n \in Nat \ {0}
  <2>1. Len(ostack) \in Nat /\ Values(ostack)
    BY StackLength DEF Pushing, Fine, Values
  <2>2. n \in Nat \ {0}
    BY <1>o, <2>1
  <2>3. Value(Pick(ostack, 1)) /\ Value(Last(ostack)) /\ Values(Drop(ostack, 1))
    BY <2>1, OperandValues, TakeOperands
  <2> QED
    BY <1>1, <1>2, <2>2, <2>3
<1>4. /\ Values(c) /\ IsStack(c) /\ Len(c) \in Nat /\ DOMAIN c = 1..Len(c)
      /\ (c # <<>> => Len(c) > 0) /\ Value(Array(c))
  BY <1>3, <1>c, NotEmpty, ArrayIsValue, StackLength
<1>m. DEFINE go == Stacks(E \o <<MarkTok, IntTok(n), Array(c), c[1], IntTok(0),
                                p, AtEnd(p), Marker("imapthread")>>, Drop(ostack, 1))
             good == c # <<>> /\ Tag(c[1]) = "array" /\ OddRows(c) = {} /\ Data(c[1]) # <<>>
<1>5. \/ Stacks(E, Drop(ostack, 1))
      \/ \E e : RaiseIn(E, "MapThread", e)
      \/ good /\ go
  BY <1>1, <1>2, <1>c, <1>o DEF MapThread
<1> HIDE DEF go
<1>a. CASE Stacks(E, Drop(ostack, 1))
  BY <1>3, <1>a, StacksKeep DEF Pushing
<1>b. CASE \E e : RaiseIn(E, "MapThread", e)
  BY <1>b, RaiseInKeeps DEF Pushing
<1>d. CASE good /\ go
  <2>1. PICK d : d = c[1]
    OBVIOUS
  <2>2. Value(d) /\ Tag(d) = "array" /\ Data(d) # <<>>
    <3>1. 1 \in 1..Len(c)
      BY <1>4, <1>d
    <3> QED
      BY <1>4, <1>d, <2>1, <3>1 DEF Values
  <2>3. Len(Data(d)) > 0
    BY <2>2, NotEmpty
  <2>4. Rows(c, Data(d))
    <3>1. \A i \in 1..Len(c) : i \notin OddRows(c)
      BY <1>d
    <3> QED
      BY <1>4, <2>1, <3>1 DEF OddRows, Rows
  <2>5. PICK b : b = Array(c)
    OBVIOUS
  <2>6. PICK T : T = <<MarkTok, IntTok(n), b, d, IntTok(0), p, AtEnd(p), Marker("imapthread")>>
    OBVIOUS
  <2>7. /\ IsStack(T) /\ Len(T) = 8 /\ T[1] = MarkTok /\ T[2] = IntTok(n) /\ T[3] = b
        /\ T[4] = d /\ T[5] = IntTok(0) /\ T[6] = p /\ T[7] = AtEnd(p)
        /\ T[8] = Marker("imapthread")
    BY <2>6, Tuple8
  <2>8. NewSlots(program, T, "imapthread", 7)
    <3>0. /\ Value(AtEnd(p)) /\ Tag(AtEnd(p)) = "integer"
          /\ Data(AtEnd(p)) \in 0..Len(program.body[Data(p)])
      BY <1>3, ProcedureOperand
    <3>1. \A k \in 1..7 : k = 1 \/ k = 2 \/ k = 3 \/ k = 4 \/ k = 5 \/ k = 6 \/ k = 7
      OBVIOUS
    <3>b. Value(b) /\ Tag(b) = "array" /\ Data(b) = c
      BY <1>4, <2>5, TokenParts
    <3>2. \A k \in 1..7 : Tag(T[k]) = Layout["imapthread"][k] /\ Value(T[k])
      BY <1>3, <2>2, <2>7, <3>b, <3>0, <3>1, LayoutOf, TokenParts, AtomsAreValues
    <3>3. Contents(T, 8)
      <4>1. /\ Tag(T[8]) = "imapthread" /\ Data(T[5]) = 0 /\ Data(T[2]) = n
            /\ T[3] = b /\ T[4] = d
        BY <2>7, TokenParts
      <4> QED
        BY <1>3, <2>3, <2>4, <3>b, <4>1 DEF Contents
    <3> QED
      BY <2>7, <3>0, <3>2, <3>3, Sizes DEF NewSlots
  <2>9. "imapthread" \in IterMarkers
    BY DEF IterMarkers, LoopMarkers
  <2>10. Stacks(E \o T, Drop(ostack, 1))
    BY <1>d, <2>1, <2>5, <2>6 DEF go
  <2> QED
    BY <1>3, <2>8, <2>9, <2>10, FrameKeeps
<1> QED
  BY <1>5, <1>a, <1>b, <1>d

-----------------------------------------------------------------------------
(* The operators that unwind *)

\* They may find anything on the top: a mark that switch left, or a
\* procedure that has nothing left to run.
Unwinding(E) ==
    /\ program \in Programs /\ UNCHANGED program
    /\ Fine /\ Whole(program, E)

LEMMA CutKeeps ==
    ASSUME NEW E, Unwinding(E), NEW m \in 0..Len(E), Clean(E, m), NEW O, Values(O),
           Stacks(SubSeq(E, 1, m), O)
    PROVE  Kept'
<1>1. Whole(program, SubSeq(E, 1, m))
  BY PrefixIsWhole DEF Unwinding
<1> QED
  BY <1>1, StacksKeep DEF Unwinding

LEMMA LastMatch ==
    ASSUME NEW E, IsStack(E), NEW B, B \subseteq 1..Len(E), B # {}
    PROVE  Max(B) \in B /\ Max(B) \in 1..Len(E) /\ Max(B) - 1 \in 0..Len(E)
<1>1. Len(E) \in Nat
  BY StackLength
<1>2. B \subseteq 0..Len(E)
  BY <1>1
<1>3. Max(B) \in B
  BY <1>1, <1>2, GreatestExists
<1>4. Max(B) \in 1..Len(E)
  BY <1>3
<1> QED
  BY <1>1, <1>3, <1>4

\* exit cuts below a mark, which is the bottom of a frame or in none.
LEMMA ExitKeeps ==
    ASSUME NEW E, Unwinding(E), Exit(E)
    PROVE  Kept'
<1> DEFINE B == {i \in 1..Len(E) : IsMark(E[i])}
<1>1. SelectLastInSeq(E, IsMark) = IF B # {} THEN Max(B) ELSE 0
  BY DEF SelectLastInSeq
<1>2. IsStack(E) /\ Frames(program, E)
  BY DEF Unwinding, Whole
<1>a. CASE B = {}
  <2>1. RaiseIn(E, "exit", "EStackUnderflow")
    BY <1>1, <1>a DEF Exit
  <2> QED
    BY <2>1, RaiseInKeeps DEF Unwinding
<1>b. CASE B # {}
  <2>1. PICK m : m = Max(B)
    OBVIOUS
  <2>2. m \in B /\ m \in 1..Len(E) /\ m - 1 \in 0..Len(E)
    BY <1>2, <1>b, <2>1, LastMatch
  <2>3. Tag(E[m]) = "mark"
    BY <2>2 DEF IsMark
  <2>4. Clean(E, m - 1)
    BY <1>2, <2>2, <2>3, CutBelow
  <2>5. m # 0
    BY <2>2
  <2>6. Stacks(SubSeq(E, 1, m - 1), ostack)
    <3>1. SelectLastInSeq(E, IsMark) = m
      BY <1>1, <1>b, <2>1
    <3> HIDE DEF B
    <3> QED
      BY <2>5, <3>1 DEF Exit
  <2> QED
    BY <2>2, <2>4, <2>6, CutKeeps DEF Unwinding, Fine
<1> QED
  BY <1>a, <1>b

\* stop cuts below ::stopped, which is in no frame.
LEMMA StopKeeps ==
    ASSUME NEW E, Unwinding(E), Stop(E)
    PROVE  Kept'
<1> DEFINE B == {i \in 1..Len(E) : IsStopped(E[i])}
<1>1. SelectLastInSeq(E, IsStopped) = IF B # {} THEN Max(B) ELSE 0
  BY DEF SelectLastInSeq
<1>2. IsStack(E) /\ Frames(program, E)
  BY DEF Unwinding, Whole
<1>a. CASE B = {}
  <2>1. Stacks(<<>>, ostack)
    BY <1>1, <1>a DEF Stop
  <2>2. Whole(program, <<>>)
    BY DEF Whole, IsStack, Frames, Marks, Waiting, Parsers
  <2> QED
    BY <2>1, <2>2, StacksKeep DEF Unwinding, Fine
<1>b. CASE B # {}
  <2>1. PICK m : m = Max(B)
    OBVIOUS
  <2>2. m \in B /\ m \in 1..Len(E) /\ m - 1 \in 0..Len(E)
    BY <1>2, <1>b, <2>1, LastMatch
  <2>3. Tag(E[m]) = "name"
    BY <2>2, TokenParts DEF IsStopped
  <2>4. Clean(E, m - 1)
    BY <1>2, <2>2, <2>3, CutBelow DEF SlotTags, IterMarkers, LoopMarkers
  <2>5. m # 0
    BY <2>2
  <2>6. Stacks(SubSeq(E, 1, m - 1), Append(ostack, Bool(TRUE)))
    <3>1. SelectLastInSeq(E, IsStopped) = m
      BY <1>1, <1>b, <2>1
    <3> HIDE DEF B
    <3> QED
      BY <2>5, <3>1 DEF Stop
  <2>7. Values(Append(ostack, Bool(TRUE)))
    BY ValuesAppend, AtomsAreValues DEF Unwinding, Fine
  <2> QED
    BY <2>2, <2>4, <2>6, <2>7, CutKeeps
<1> QED
  BY <1>a, <1>b

LEMMA StartAlone == Whole(program, <<NameTok("start")>>)
<1>1. PICK s : s = NameTok("start")
  OBVIOUS
<1>2. Value(s) /\ Tag(s) = "name" /\ s # NameTok(Parse) /\ Tag(s) \notin IterMarkers /\ Slot(s)
  <2>1. Value(s)
    BY <1>1, AtomsAreValues DEF Parse
  <2> QED
    BY <1>1, <2>1, ValueTags, TokenParts
<1>3. PICK E : E = <<s>>
  OBVIOUS
<1>4. IsStack(E) /\ Len(E) = 1 /\ E[1] = s
  BY <1>3, Tuple1
<1>5. \A i \in 1..1 : i = 1
  OBVIOUS
<1>6. Frames(program, E) /\ Marks(E) /\ Parsers(E) /\ \A i \in 1..Len(E) : Slot(E[i])
  BY <1>2, <1>4, <1>5 DEF Frames, Marks, Parsers
<1>7. Waiting(program, E)
  BY <1>2, <1>4 DEF Waiting
<1> QED
  BY <1>1, <1>3, <1>4, <1>6, <1>7 DEF Whole

LEMMA CloseinputKeeps ==
    ASSUME NEW E, Unwinding(E), Closeinput(E)
    PROVE  Kept'
<1> DEFINE B == {i \in 1..Len(E) : IsStream(E[i])}
<1>1. SelectLastInSeq(E, IsStream) = IF B # {} THEN Max(B) ELSE 0
  BY DEF SelectLastInSeq
<1>2. IsStack(E) /\ Frames(program, E)
  BY DEF Unwinding, Whole
<1>a. CASE B = {}
  <2>1. Stacks(<<NameTok("start")>>, ostack)
    BY <1>1, <1>a DEF Closeinput
  <2> QED
    BY <2>1, StartAlone, StacksKeep DEF Unwinding, Fine
<1>b. CASE B # {}
  <2>1. PICK m : m = Max(B)
    OBVIOUS
  <2>2. m \in B /\ m \in 1..Len(E) /\ m - 1 \in 0..Len(E)
    BY <1>2, <1>b, <2>1, LastMatch
  <2>3. Tag(E[m]) = "xistream"
    BY <2>2 DEF IsStream
  <2>4. Clean(E, m - 1)
    BY <1>2, <2>2, <2>3, CutBelow DEF SlotTags, IterMarkers, LoopMarkers
  <2>5. m # 0
    BY <2>2
  <2>6. Stacks(SubSeq(E, 1, m - 1), ostack)
    <3>1. SelectLastInSeq(E, IsStream) = m
      BY <1>1, <1>b, <2>1
    <3> HIDE DEF B
    <3> QED
      BY <2>5, <3>1 DEF Closeinput
  <2> QED
    BY <2>2, <2>4, <2>6, CutKeeps DEF Unwinding, Fine
<1> QED
  BY <1>a, <1>b

\* return steps over the loops that are above the procedure it leaves: the
\* recursion over their sizes ends, and what it cuts is whole.
OverLoop(E, h) ==
    [n \in Nat |->
        IF n < Len(E) /\ Tag(Pick(E, n)) \in LoopMarkers
        THEN h[n + ReturnSize[Tag(Pick(E, n))]]
        ELSE n]

LEMMA ReturnGoesOn ==
    ASSUME NEW m \in LoopMarkers
    PROVE  ReturnSize[m] \in Nat /\ ReturnSize[m] > 0
<1>1. m \in IterMarkers
  BY DEF IterMarkers
<1>2. Size(m) \in 2..7
  BY <1>1, LayoutShape
<1> QED
  BY <1>2, ReturnSizes

LEMMA StepOverDefined ==
    ASSUME NEW E, IsStack(E)
    PROVE  \E over : over = OverLoop(E, over) /\ StepOver(E) = over[0]
<1> DEFINE Loops(n) == n < Len(E) /\ Tag(Pick(E, n)) \in LoopMarkers
           On(n) == n + ReturnSize[Tag(Pick(E, n))]
           Upto(k) == \E h : \A n \in Nat :
                         n >= k => h[n] = IF Loops(n) THEN h[On(n)] ELSE n
           T == {k \in Nat : Upto(k)}
<1>1. Len(E) \in Nat
  BY StackLength
<1>2. \A n \in Nat : Loops(n) => On(n) \in Nat /\ On(n) > n
  BY ReturnGoesOn
<1>3. Len(E) \in T
  <2>1. PICK h : h = [n \in Nat |-> n]
    OBVIOUS
  <2>2. \A n \in Nat : n >= Len(E) => h[n] = n /\ ~ Loops(n)
    BY <1>1, <2>1
  <2>3. Upto(Len(E))
    BY <2>2
  <2> QED
    BY <1>1, <2>3
<1> HIDE DEF Loops, On
<1>4. PICK k \in T : \A x \in T : k <= x
  <2>1. T \subseteq Nat /\ T # {}
    BY <1>3
  <2> HIDE DEF T
  <2> QED
    BY <2>1, LeastExists
<1>5. k \in Nat /\ Upto(k)
  OBVIOUS
<1>6. k = 0
  <2> SUFFICES ASSUME k # 0 PROVE FALSE
    OBVIOUS
  <2>1. PICK h : \A n \in Nat : n >= k => h[n] = IF Loops(n) THEN h[On(n)] ELSE n
    BY <1>5
  <2>2. PICK i : i = k - 1
    OBVIOUS
  <2>3. i \in Nat /\ k = i + 1
    BY <1>5, <2>2
  <2>4. PICK f : f = [n \in Nat |-> IF n = i THEN (IF Loops(i) THEN h[On(i)] ELSE i) ELSE h[n]]
    OBVIOUS
  <2>5. \A n \in Nat : n >= i => f[n] = IF Loops(n) THEN f[On(n)] ELSE n
    <3> TAKE n \in Nat
    <3> HAVE n >= i
    <3>1. Loops(n) => On(n) \in Nat /\ On(n) # i
      BY <1>2, <2>3
    <3>2. Loops(n) => f[On(n)] = h[On(n)]
      BY <2>4, <3>1
    <3>a. CASE n = i
      BY <2>3, <2>4, <3>2, <3>a
    <3>b. CASE n # i
      <4>1. n >= k
        BY <2>3, <3>b
      <4>2. h[n] = IF Loops(n) THEN h[On(n)] ELSE n
        BY <2>1, <4>1
      <4>3. f[n] = h[n]
        BY <2>4, <3>b
      <4> QED
        BY <3>2, <4>2, <4>3
    <3> QED
      BY <3>a, <3>b
  <2>6. i \in T
    BY <2>3, <2>5
  <2>7. k <= i
    BY <1>4, <2>6
  <2> QED
    BY <2>3, <2>7
<1>7. PICK h : \A n \in Nat : h[n] = IF Loops(n) THEN h[On(n)] ELSE n
  BY <1>5, <1>6
<1>8. PICK f : f = [n \in Nat |-> h[n]]
  OBVIOUS
<1>9. f = OverLoop(E, f)
  <2>1. \A n \in Nat : Loops(n) => f[On(n)] = h[On(n)]
    BY <1>2, <1>8
  <2>2. \A n \in Nat : h[n] = IF Loops(n) THEN f[On(n)] ELSE n
    BY <1>7, <2>1
  <2>3. f = [n \in Nat |-> IF Loops(n) THEN f[On(n)] ELSE n]
    BY <1>8, <2>2
  <2> QED
    BY <2>3 DEF OverLoop, Loops, On
<1>10. PICK o : o = CHOOSE over : over = OverLoop(E, over)
  OBVIOUS
<1>11. o = OverLoop(E, o)
  BY <1>9, <1>10
<1>12. StepOver(E) = o[0]
  BY <1>10 DEF StepOver, OverLoop
<1> QED
  BY <1>11, <1>12

LEMMA StepOverIsClean ==
    ASSUME NEW g, NEW E, IsStack(E), Frames(g, E)
    PROVE  /\ StepOver(E) \in 0..Len(E) /\ Clean(E, Len(E) - StepOver(E))
           /\ StepOver(E) < Len(E) => Tag(Pick(E, StepOver(E))) \notin LoopMarkers
<1>1. PICK over : over = OverLoop(E, over) /\ StepOver(E) = over[0]
  BY StepOverDefined
<1>2. PICK l : l = Len(E)
  OBVIOUS
<1>3. l \in Nat
  BY <1>2, StackLength
<1> DEFINE Loops(n) == n < l /\ Tag(Pick(E, n)) \in LoopMarkers
           On(n) == n + ReturnSize[Tag(Pick(E, n))]
           Ends(n) == \E d : over[n] = d /\ d \in 0..l /\ Clean(E, l - d) /\ ~ Loops(d)
           B == {n \in 0..l : Clean(E, l - n) /\ ~ Ends(n)}
<1>4. \A n \in Nat : over[n] = IF Loops(n) THEN over[On(n)] ELSE n
  <2>1. over = [n \in Nat |-> IF Loops(n) THEN over[On(n)] ELSE n]
    BY <1>1, <1>2 DEF OverLoop
  <2> HIDE DEF Loops, On
  <2> QED
    BY <2>1
<1>5. \A n \in 0..l : Loops(n) => On(n) \in 0..l /\ On(n) > n /\ Clean(E, l - On(n))
  <2> SUFFICES ASSUME NEW n \in 0..l, Loops(n)
               PROVE  On(n) \in 0..l /\ On(n) > n /\ Clean(E, l - On(n))
    OBVIOUS
  <2>1. PICK j : j = l - n
    OBVIOUS
  <2>2. j \in 1..Len(E) /\ Pick(E, n) = E[j] /\ Tag(E[j]) \in LoopMarkers
    BY <1>2, <1>3, <2>1 DEF Pick
  <2>3. Tag(E[j]) \in IterMarkers
    BY <2>2 DEF IterMarkers
  <2>4. Start(E, j) \in 1..(j-2) /\ Start(E, j) = j - Size(Tag(E[j]))
    BY <2>2, <2>3, FrameSlots DEF Frames
  <2>5. Clean(E, Start(E, j) - 1)
    BY <2>2, <2>3, CutBelowFrame
  <2>6. PICK s : s = Size(Tag(E[j]))
    OBVIOUS
  <2>7. On(n) = n + (s + 1)
    BY <2>2, <2>6, ReturnSizes
  <2>8. s \in 2..7
    BY <2>3, <2>6, LayoutShape
  <2>9. PICK o : o = On(n)
    OBVIOUS
  <2> HIDE DEF On
  <2>10. l - o = Start(E, j) - 1 /\ o \in 0..l /\ o > n
    BY <1>3, <2>1, <2>4, <2>6, <2>7, <2>8, <2>9
  <2> QED
    BY <2>5, <2>9, <2>10
<1>6. B = {}
  <2> SUFFICES ASSUME B # {} PROVE FALSE
    OBVIOUS
  <2>1. PICK n : n = Max(B)
    OBVIOUS
  <2>2. n \in B /\ \A i \in B : i <= n
    <3>1. B \subseteq 0..l
      OBVIOUS
    <3> HIDE DEF B
    <3> QED
      BY <1>3, <2>1, <3>1, GreatestExists
  <2>3. n \in 0..l /\ n \in Nat /\ Clean(E, l - n) /\ ~ Ends(n)
    BY <1>3, <2>2
  <2> HIDE DEF Loops, On
  <2>a. CASE Loops(n)
    <3>1. PICK o : o = On(n)
      OBVIOUS
    <3>2. o \in 0..l /\ o > n /\ Clean(E, l - o)
      BY <1>5, <2>3, <2>a, <3>1
    <3>3. o \notin B
      BY <2>2, <2>3, <3>2
    <3>4. Ends(o)
      BY <3>2, <3>3
    <3>5. over[n] = over[o]
      BY <1>4, <2>3, <2>a, <3>1
    <3>6. Ends(n)
      BY <3>4, <3>5
    <3> QED
      BY <2>3, <3>6
  <2>b. CASE ~ Loops(n)
    <3>1. over[n] = n
      BY <1>4, <2>3, <2>b
    <3>2. Ends(n)
      BY <2>3, <2>b, <3>1
    <3> QED
      BY <2>3, <3>2
  <2> QED
    BY <2>a, <2>b
<1>7. Clean(E, l - 0)
  <2>1. \A j \in 1..Len(E) : j <= l - 0
    BY <1>2, <1>3
  <2> QED
    BY <2>1 DEF Clean
<1>8. Ends(0)
  <2>1. 0 \in 0..l
    BY <1>3
  <2> HIDE DEF Ends
  <2> QED
    BY <1>6, <1>7, <2>1
<1>9. PICK d : over[0] = d /\ d \in 0..l /\ Clean(E, l - d) /\ ~ Loops(d)
  BY <1>8
<1> QED
  BY <1>1, <1>2, <1>9

LEMMA DropClean ==
    ASSUME NEW E, Unwinding(E), NEW n \in 0..Len(E), Clean(E, Len(E) - n), Stacks(Drop(E, n), ostack)
    PROVE  Kept'
<1>1. PICK m : m = Len(E) - n
  OBVIOUS
<1>2. Len(E) \in Nat
  BY WholeStack DEF Unwinding
<1>3. m \in 0..Len(E) /\ Clean(E, m)
  BY <1>1, <1>2
<1>4. Stacks(SubSeq(E, 1, m), ostack)
  BY <1>1 DEF Drop
<1> QED
  BY <1>3, <1>4, CutKeeps DEF Unwinding, Fine

LEMMA ReturnKeeps ==
    ASSUME NEW E, Unwinding(E), Return(E)
    PROVE  Kept'
<1>1. PICK n : n = StepOver(E)
  OBVIOUS
<1>2. IsStack(E) /\ Frames(program, E) /\ Len(E) \in Nat
  BY WholeStack DEF Unwinding
<1>3. n \in 0..Len(E) /\ Clean(E, Len(E) - n)
  BY <1>1, <1>2, StepOverIsClean
<1>4. \/ RaiseIn(E, "return", "InvalidReturn")
      \/ n < Len(E) /\ Tag(Pick(E, n)) = "iiterate" /\ Stacks(Drop(E, n + 3), ostack)
      \/ Stacks(Drop(E, n), ostack)
  <2>1. n >= Len(E) \/ n < Len(E)
    BY <1>2, <1>3
  <2> QED
    BY <1>1, <2>1 DEF Return
<1>a. CASE RaiseIn(E, "return", "InvalidReturn")
  BY <1>a, RaiseInKeeps DEF Unwinding
<1>b. CASE n < Len(E) /\ Tag(Pick(E, n)) = "iiterate" /\ Stacks(Drop(E, n + 3), ostack)
  <2>1. PICK j : j = Len(E) - n
    OBVIOUS
  <2>2. j \in 1..Len(E) /\ Tag(E[j]) = "iiterate"
    BY <1>2, <1>3, <1>b, <2>1 DEF Pick
  <2>3. Tag(E[j]) \in IterMarkers
    BY <2>2 DEF IterMarkers
  <2>4. Start(E, j) = j - 2 /\ Start(E, j) \in 1..(j-2)
    BY <1>2, <2>2, <2>3, FrameSlots DEF Frames
  <2>5. Clean(E, Start(E, j) - 1)
    BY <1>2, <2>2, <2>3, CutBelowFrame
  <2>6. PICK o : o = n + 3
    OBVIOUS
  <2>7. o \in 0..Len(E) /\ Len(E) - o = Start(E, j) - 1
    BY <1>2, <1>3, <2>1, <2>2, <2>4, <2>6
  <2> QED
    BY <1>b, <2>5, <2>6, <2>7, DropClean
<1>c. CASE Stacks(Drop(E, n), ostack)
  BY <1>3, <1>c, DropClean
<1> QED
  BY <1>4, <1>a, <1>b, <1>c

-----------------------------------------------------------------------------
(* The other operators *)

LEMMA RaiseerrorKeeps ==
    ASSUME NEW E, Unwinding(E), Len(ostack) >= 2, Raiseerror(E)
    PROVE  Kept'
<1>1. Values(Drop(ostack, 2))
  BY TakeOperands DEF Unwinding, Fine
<1> QED
  BY <1>1, RaiseKeeps DEF Raiseerror, Unwinding

LEMMA RaiseagainKeeps ==
    ASSUME NEW E, Unwinding(E), Raiseagain(E)
    PROVE  Kept'
<1>a. CASE error.commandname # NoOp
  <2>1. /\ estack' = Append(E, Fn("stop")) /\ ostack' = Append(ostack, Lit(error.commandname))
        /\ error' = [error EXCEPT !.newerror = TRUE] /\ UNCHANGED <<dlevel, bound>>
    BY <1>a DEF Raiseagain
  <2>2. Whole(program, estack')
    BY <2>1, PushStop DEF Unwinding
  <2>3. Values(ostack')
    BY <2>1, ValuesAppend, AtomsAreValues DEF Unwinding, Fine
  <2>4. Recorded'
    BY <2>1 DEF Unwinding, Fine, Recorded
  <2> QED
    BY <2>1, <2>2, <2>3, <2>4 DEF Unwinding, Fine, Kept
<1>b. CASE ~(error.commandname # NoOp)
  BY <1>b, RaiseInKeeps DEF Raiseagain, Unwinding
<1> QED
  BY <1>a, <1>b

LEMMA HandleerrorKeeps ==
    ASSUME NEW E, Unwinding(E), Handleerror(E)
    PROVE  Kept'
<1>a. CASE error.newerror /\ ostack = <<>>
  BY <1>a, RaiseInKeeps DEF Handleerror, Unwinding
<1>b. CASE ~(error.newerror /\ ostack = <<>>)
  <2>1. /\ estack' = E /\ ostack' = IF error.newerror THEN Drop(ostack, 1) ELSE ostack
        /\ error' = [error EXCEPT !.newerror = FALSE] /\ UNCHANGED <<dlevel, bound>>
    BY <1>b DEF Handleerror
  <2>2. Values(ostack')
    <3>1. Values(ostack)
      BY DEF Unwinding, Fine
    <3>2. error.newerror => Len(ostack) >= 1
      <4>1. Len(ostack) \in Nat /\ (ostack = <<>> <=> Len(ostack) = 0)
        BY <3>1, StackLength DEF Values
      <4> QED
        BY <1>b, <4>1
    <3>3. error.newerror => Values(Drop(ostack, 1))
      BY <3>1, <3>2, TakeOperands
    <3> QED
      BY <2>1, <3>1, <3>3
  <2>3. Recorded'
    BY <2>1 DEF Unwinding, Fine, Recorded
  <2> QED
    BY <2>1, <2>2, <2>3 DEF Unwinding, Fine, Kept
<1> QED
  BY <1>a, <1>b

LEMMA BindKeeps ==
    ASSUME NEW E, Unwinding(E), Bind(E)
    PROVE  Kept'
BY RaiseInKeeps DEF Bind, Unwinding, Kept, Fine, Recorded

LEMMA BeginKeeps ==
    ASSUME NEW E, Unwinding(E), Len(ostack) >= 1, Begin(E)
    PROVE  Kept'
<1>1. Values(Drop(ostack, 1))
  BY TakeOperands DEF Unwinding, Fine
<1> QED
  BY <1>1 DEF Begin, Unwinding, Kept, Fine, Recorded

LEMMA EndKeeps ==
    ASSUME NEW E, Unwinding(E), End(E)
    PROVE  Kept'
<1>a. CASE OnlyPermanent
  BY <1>a, RaiseInKeeps DEF End, Unwinding
<1>b. CASE ~ OnlyPermanent
  <2>1. dlevel' \in Int /\ dlevel' >= 3
    BY <1>b DEF End, OnlyPermanent, Unwinding, Fine
  <2> QED
    BY <1>b, <2>1 DEF End, Unwinding, Kept, Fine, Recorded
<1> QED
  BY <1>a, <1>b

LEMMA AddKeeps ==
    ASSUME NEW E, Unwinding(E), Len(ostack) >= 2, Add(E)
    PROVE  Kept'
<1>1. PICK n : n = Data(Pick(ostack, 1)) + Data(Pick(ostack, 0))
  OBVIOUS
<1>2. Values(Append(Drop(ostack, 2), IntTok(n)))
  BY TakeOperands, ValuesAppend, AtomsAreValues DEF Unwinding, Fine
<1>3. RaiseIn(E, "add_ii", "RangeCheck") \/ Stacks(E, Append(Drop(ostack, 2), IntTok(n)))
  BY <1>1 DEF Add
<1> QED
  BY <1>2, <1>3, RaiseInKeeps, StacksKeep DEF Unwinding

LEMMA PopKeeps ==
    ASSUME NEW E, Unwinding(E), Len(ostack) >= 1, Stacks(E, Drop(ostack, 1))
    PROVE  Kept'
<1>1. Values(Drop(ostack, 1))
  BY TakeOperands DEF Unwinding, Fine
<1> QED
  BY <1>1, StacksKeep DEF Unwinding

-----------------------------------------------------------------------------
(* Executing an operator *)

LEMMA EffectKeeps ==
    ASSUME NEW f \in Operators, NEW E, Unwinding(E), f = "stop" \/ Ready(program, E),
           Loaded(f), Typed(f), Effect(f, E)
    PROVE  Kept'
<1>1. Values(ostack)
  BY DEF Unwinding, Fine
<1>2. f # "stop" => Pushing(E)
  BY DEF Unwinding, Pushing
<1>a. CASE f = "pop" /\ Stacks(E, Drop(ostack, 1))
  BY <1>1, <1>a, OperandsOf, PopKeeps
<1>b. CASE f = "exec" /\ Exec(E)
  BY <1>1, <1>2, <1>b, OperandsOf, ExecKeeps
<1>c. CASE f = "if" /\ If(E)
  BY <1>1, <1>2, <1>c, OperandsOf, IfKeeps
<1>d. CASE f = "ifelse" /\ Ifelse(E)
  BY <1>1, <1>2, <1>d, OperandsOf, IfelseKeeps
<1>e. CASE f = "case" /\ Case(E)
  BY <1>1, <1>2, <1>e, OperandsOf, CaseKeeps
<1>f. CASE f = "stopped" /\ StoppedOp(E)
  BY <1>1, <1>2, <1>f, OperandsOf, StoppedKeeps
<1>g. CASE f = "loop" /\ Loop(E)
  BY <1>1, <1>2, <1>g, OperandsOf, LoopKeeps
<1>h. CASE f = "repeat" /\ Repeat(E)
  BY <1>1, <1>2, <1>h, OperandsOf, RepeatKeeps
<1>i. CASE f = "for" /\ For(E)
  BY <1>1, <1>2, <1>i, OperandsOf, ForKeeps
<1>j. CASE f = "forall" /\ Forall(E)
  BY <1>1, <1>2, <1>j, OperandsOf, ForallKeeps
<1>k. CASE f = "forallindexed" /\ Forallindexed(E)
  BY <1>1, <1>2, <1>k, OperandsOf, ForallindexedKeeps
<1>l. CASE f = "Map" /\ MapOp(E, "imap")
  BY <1>1, <1>2, <1>l, OperandsOf, MapKeeps
<1>m. CASE f = "MapIndexed" /\ MapOp(E, "imapindexed")
  BY <1>1, <1>2, <1>m, OperandsOf, MapKeeps
<1>n. CASE f = "MapThread" /\ MapThread(E)
  BY <1>1, <1>2, <1>n, OperandsOf, MapThreadKeeps
<1>o. CASE f = "exit" /\ Exit(E)
  BY <1>o, ExitKeeps
<1>p. CASE f = "return" /\ Return(E)
  BY <1>p, ReturnKeeps
<1>q. CASE f = "stop" /\ Stop(E)
  BY <1>q, StopKeeps
<1>r. CASE f = "closeinput" /\ Closeinput(E)
  BY <1>r, CloseinputKeeps
<1>s. CASE f = "raiseerror" /\ Raiseerror(E)
  BY <1>1, <1>s, OperandsOf, RaiseerrorKeeps
<1>t. CASE f = "raiseagain" /\ Raiseagain(E)
  BY <1>t, RaiseagainKeeps
<1>u. CASE f = "handleerror" /\ Handleerror(E)
  BY <1>u, HandleerrorKeeps
<1>v. CASE f = "print_error" /\ Print_error(E)
  BY <1>1, <1>v, OperandsOf, PopKeeps DEF Print_error
<1>w. CASE f = "bind_" /\ Bind(E)
  BY <1>w, BindKeeps
<1>x. CASE f = "begin" /\ Begin(E)
  BY <1>1, <1>x, OperandsOf, BeginKeeps
<1>y. CASE f = "end" /\ End(E)
  BY <1>y, EndKeeps
<1>z. CASE f = "add_ii" /\ Add(E)
  BY <1>1, <1>z, OperandsOf, AddKeeps
<1> QED
  BY <1>a, <1>b, <1>c, <1>d, <1>e, <1>f, <1>g, <1>h, <1>i, <1>j, <1>k, <1>l, <1>m, <1>n,
     <1>o, <1>p, <1>q, <1>r, <1>s, <1>t, <1>u, <1>v, <1>w, <1>x, <1>y, <1>z DEF Effect

\* What an operator that throws leaves behind, until stop runs.
Thrown(f) == pc = "dispatch" /\ current_op = f /\ estack # <<>> /\ Last(estack) = Fn("stop")

LEMMA ThrowFromKeeps ==
    ASSUME NEW f, NEW E, NEW e, Unwinding(E), ThrowFrom(f, E, e)
    PROVE  Kept' /\ Thrown(f)'
<1>1. Raise(E, ostack, f, e) /\ UNCHANGED <<dlevel, bound>> /\ pc' = "dispatch" /\ current_op' = f
  BY DEF ThrowFrom, Throw
<1>2. Kept' /\ estack' # <<>> /\ Last(estack') = Fn("stop")
  BY <1>1, RaiseKeeps DEF Unwinding, Fine
<1> QED
  BY <1>1, <1>2 DEF Thrown

LEMMA SwitchKeeps ==
    ASSUME NEW f, NEW E, Pushing(E), Switch(f, E) \/ Switchdefault(f, E)
    PROVE  Kept' /\ Thrown(f)'
<1>1. Whole(program, Append(E, MarkTok))
  BY PushValue, AtomsAreValues DEF Pushing
<1>2. Unwinding(Append(E, MarkTok))
  BY <1>1 DEF Unwinding, Pushing
<1> QED
  BY <1>2, ThrowFromKeeps DEF Switch, Switchdefault

LEMMA StopIsLoaded == Loaded("stop") <=> Len(ostack) >= 0
<1>1. Requires["stop"] = <<>>
  BY DEF Requires
<1>2. Len(Requires["stop"]) = 0
  BY <1>1
<1> QED
  BY <1>2 DEF Loaded

LEMMA StopIsTyped == Typed("stop")
<1>1. Requires["stop"] = <<>>
  BY DEF Requires
<1>2. DOMAIN Requires["stop"] = {}
  BY <1>1
<1> QED
  BY <1>2 DEF Typed

\* An operator returns, or it throws; stop never throws.
LEMMA ExecuteKeeps ==
    ASSUME NEW f \in Operators, NEW E, NEW next, Unwinding(E), f = "stop" \/ Ready(program, E),
           Execute(f, E, next)
    PROVE  Kept' /\ (Thrown(f)' \/ (pc' = next /\ current_op' = NoOp))
<1>a. CASE \E e : ThrowFrom(f, E, e)
  BY <1>a, ThrowFromKeeps
<1>b. CASE Switch(f, E) \/ Switchdefault(f, E)
  <2>1. f # "stop"
    BY <1>b DEF Switch, Switchdefault
  <2>2. Pushing(E)
    BY <2>1 DEF Unwinding, Pushing
  <2> QED
    BY <1>b, <2>2, SwitchKeeps
<1>c. CASE Loaded(f) /\ Typed(f) /\ Effect(f, E) /\ pc' = next /\ current_op' = Cleared(f)
  BY <1>c, EffectKeeps DEF Cleared
<1> QED
  BY <1>a, <1>b, <1>c DEF Execute

LEMMA StopReturns ==
    ASSUME NEW E, NEW next, Unwinding(E), Execute("stop", E, next)
    PROVE  pc' = next /\ current_op' = NoOp
<1>1. Loaded("stop") /\ Typed("stop")
  <2>1. Len(ostack) \in Nat
    BY StackLength DEF Unwinding, Fine, Values
  <2> QED
    BY <2>1, StopIsLoaded, StopIsTyped
<1> QED
  BY <1>1 DEF Execute, Switch, Switchdefault, Cleared

-----------------------------------------------------------------------------
(* The invariant *)

\* What is left of the input, and the signals.
Supply(s) == IsStack(s) /\ \A i \in 1..Len(s) : s[i] = BadSyntax \/ Value(s[i])
Settled ==
    /\ program \in Programs /\ Supply(input)
    /\ signalflag \in BOOLEAN /\ signals \in 0..program.signals

\* Where the dispatcher is, and what it finds on the top there.
AtFrame == estack # <<>> /\ Tag(Top(estack)) \in IterMarkers
Places == {"dispatch", "walk", "exhausted", "resume", "halted", "wild"}
Placed ==
    /\ pc \in Places
    /\ pc \in {"walk", "exhausted"} => AtFrame
    /\ pc \in {"halted", "wild"} => (estack # <<>> => Tag(Top(estack)) = "quit")
    /\ current_op \in Operators \cup {NoOp}
    /\ StaleOpIsUnwinding

Sound == Settled /\ Kept /\ Placed

\* The ends of a step.
Continues == pc \in {"dispatch", "resume"} /\ current_op = NoOp
Walks == pc \in {"walk", "exhausted"} /\ AtFrame /\ current_op = NoOp

LEMMA ContinuesIsPlaced == Continues' => Placed'
BY DEF Continues, Placed, Places, StaleOpIsUnwinding

LEMMA WalksIsPlaced == Walks' => Placed'
BY DEF Walks, Placed, Places, StaleOpIsUnwinding

LEMMA ThrownIsPlaced == ASSUME NEW f \in Operators \cup {NoOp} PROVE Thrown(f)' => Placed'
BY DEF Thrown, Placed, Places, StaleOpIsUnwinding

LEMMA SettledStays ==
    ASSUME Settled, Quiet
    PROVE  Settled'
BY DEF Settled, Quiet, setting

\* current_op_ is set only while the stop it has scheduled is on the top.
LEMMA OpIsUnset ==
    ASSUME Sound, pc # "dispatch" \/ estack = <<>> \/ Tag(Top(estack)) # "function"
    PROVE  current_op = NoOp
<1>1. estack # <<>> => Last(estack) = Top(estack)
  BY WholeStack DEF Sound, Kept
<1> QED
  BY <1>1, TokenParts DEF Sound, Placed, StaleOpIsUnwinding

LEMMA SoundParts ==
    ASSUME Sound, UNCHANGED setting
    PROVE  /\ program \in Programs /\ UNCHANGED program /\ Fine /\ Whole(program, estack)
           /\ Values(ostack) /\ Unwinding(estack)
           /\ estack # <<>> => Last(estack) = Top(estack) /\ Slot(Top(estack)) /\ Len(estack) >= 1
           /\ Len(estack) \in Nat
<1>1. /\ program \in Programs /\ UNCHANGED program /\ Fine /\ Whole(program, estack)
      /\ Values(ostack)
  BY DEF Sound, Settled, Kept, Fine, setting
<1> QED
  BY <1>1, WholeStack DEF Unwinding

-----------------------------------------------------------------------------
(* The switch *)

LEMMA TakeSignalIsSound ==
    ASSUME Sound, TakeSignal
    PROVE  Sound'
<1>1. pc' = "dispatch" /\ UNCHANGED current_op /\ current_op \in Operators \cup {NoOp}
  BY DEF TakeSignal, Sound, Placed
<1>2. Kept' /\ estack' # <<>> /\ Last(estack') = Fn("stop")
  <2>1. \E f, e : Raise(estack, ostack, f, e) /\ UNCHANGED <<dlevel, bound>>
    BY DEF TakeSignal, RaiseIn
  <2>2. Fine /\ Whole(program, estack) /\ Values(ostack) /\ UNCHANGED program
    BY SoundParts DEF TakeSignal
  <2> QED
    BY <2>1, <2>2, RaiseKeeps
<1>3. Placed'
  BY <1>1, <1>2 DEF Placed, Places, StaleOpIsUnwinding
<1>4. Settled'
  BY DEF TakeSignal, Sound, Settled, setting
<1> QED
  BY <1>2, <1>3, <1>4 DEF Sound

LEMMA HaltIsSound ==
    ASSUME Sound, Halt
    PROVE  Sound'
<1>1. current_op = NoOp /\ estack = <<>>
  BY OpIsUnset DEF Halt
<1>2. Placed'
  BY <1>1 DEF Halt, Goto, Placed, Places, StaleOpIsUnwinding
<1>3. Kept'
  BY DEF Halt, Quiet, setting, Sound, Kept, Fine, Recorded
<1>4. Settled'
  BY SettledStays DEF Halt, Sound
<1> QED
  BY <1>2, <1>3, <1>4 DEF Sound

\* The token at the top, when it is no operator.
LEMMA DispatchingParts ==
    ASSUME Sound, NEW S, Dispatching(S)
    PROVE  /\ program \in Programs /\ UNCHANGED program /\ Fine /\ Whole(program, estack)
           /\ Values(ostack) /\ Unwinding(estack) /\ Len(estack) \in Nat
           /\ estack # <<>> /\ Tag(Top(estack)) \in S /\ Last(estack) = Top(estack)
           /\ Slot(Top(estack)) /\ Settled' /\ Len(estack) >= 1 /\ pc = "dispatch"
           /\ Tag(Top(estack)) # "function" => current_op = NoOp
<1>1. UNCHANGED setting /\ Quiet
  BY DEF Dispatching, Quiet
<1>2. Settled'
  BY <1>1, SettledStays DEF Sound
<1>3. estack # <<>> /\ pc = "dispatch" /\ Tag(Last(estack)) \in S
  BY DEF Dispatching
<1>4. Last(estack) = Top(estack)
  BY <1>1, <1>3, SoundParts
<1>5. Tag(Top(estack)) \in S
  BY <1>3, <1>4
<1>6. Tag(Top(estack)) # "function" => current_op = NoOp
  BY OpIsUnset
<1> QED
  BY <1>1, <1>2, <1>3, <1>4, <1>5, <1>6, SoundParts

\* What may lie under a token that is no frame's.
LEMMA TopToken ==
    ASSUME NEW g, NEW E, Whole(g, E), E # <<>>,
           Tag(Top(E)) \notin IterMarkers \cup {"iparse", "xistream", "name"}
    PROVE  /\ Value(Top(E)) /\ Whole(g, Drop(E, 1))
           /\ Data(Top(E)) # "stop" \/ Tag(Top(E)) # "function" => Ready(g, Drop(E, 1))
<1>1. Slot(Top(E))
  BY WholeStack
<1>2. Value(Top(E))
  BY <1>1, SlotIsValue
<1>3. Data(Top(E)) # "stop" \/ Tag(Top(E)) # "function" => Top(E) # Fn("stop")
  BY TokenParts
<1> QED
  BY <1>2, <1>3, UnderIsWhole

LEMMA DispatchDataIsSound ==
    ASSUME Sound, DispatchData
    PROVE  Sound'
<1>1. Dispatching(DataTags)
  BY DEF DispatchData
<1>2. /\ Whole(program, estack) /\ estack # <<>> /\ Tag(Top(estack)) \in DataTags
      /\ Last(estack) = Top(estack) /\ Fine /\ UNCHANGED program /\ Values(ostack) /\ Settled'
      /\ (Tag(Top(estack)) # "function" => current_op = NoOp)
  BY <1>1, DispatchingParts
<1>3. Tag(Top(estack)) \notin IterMarkers \cup {"iparse", "xistream", "name", "function"}
  BY <1>2 DEF DataTags, IterMarkers, LoopMarkers
<1>4. Value(Top(estack)) /\ Whole(program, Drop(estack, 1))
  BY <1>2, <1>3, TopToken
<1>5. Values(Append(ostack, Last(estack)))
  BY <1>2, <1>4, ValuesAppend
<1>6. Kept'
  BY <1>2, <1>4, <1>5, StacksKeep DEF DispatchData
<1>7. Placed'
  BY <1>2, <1>3, ContinuesIsPlaced DEF DispatchData, Goto, Continues
<1> QED
  BY <1>2, <1>6, <1>7 DEF Sound

LEMMA DispatchLitprocIsSound ==
    ASSUME Sound, DispatchLitproc
    PROVE  Sound'
<1>1. Dispatching({"litprocedure"})
  BY DEF DispatchLitproc
<1>2. /\ Whole(program, estack) /\ estack # <<>> /\ Tag(Top(estack)) = "litprocedure"
      /\ Last(estack) = Top(estack) /\ Fine /\ UNCHANGED program /\ Values(ostack) /\ Settled'
      /\ (Tag(Top(estack)) # "function" => current_op = NoOp)
  BY <1>1, DispatchingParts
<1>3. Tag(Top(estack)) \notin IterMarkers \cup {"iparse", "xistream", "name", "function"}
  BY <1>2 DEF IterMarkers, LoopMarkers
<1>4. Value(Top(estack)) /\ Whole(program, Drop(estack, 1))
  BY <1>2, <1>3, TopToken
<1>5. Values(Append(ostack, Proc(Data(Last(estack)))))
  <2>1. Data(Top(estack)) \in Procedures
    BY <1>2, <1>4, ValueIsPlain DEF Plain
  <2> QED
    BY <1>2, <2>1, AtomsAreValues, ValuesAppend
<1>6. Kept'
  BY <1>2, <1>4, <1>5, StacksKeep DEF DispatchLitproc
<1>7. Placed'
  BY <1>2, <1>3, ContinuesIsPlaced DEF DispatchLitproc, Goto, Continues
<1> QED
  BY <1>2, <1>6, <1>7 DEF Sound

LEMMA DispatchFunctionIsSound ==
    ASSUME Sound, DispatchFunction
    PROVE  Sound'
<1>1. Dispatching({"function"})
  BY DEF DispatchFunction
<1>2. /\ Whole(program, estack) /\ estack # <<>> /\ Tag(Top(estack)) = "function"
      /\ Last(estack) = Top(estack) /\ Fine /\ UNCHANGED program /\ Settled'
      /\ program \in Programs
  BY <1>1, DispatchingParts
<1>3. Tag(Top(estack)) \notin IterMarkers \cup {"iparse", "xistream", "name"}
  BY <1>2 DEF IterMarkers, LoopMarkers
<1>4. /\ Value(Top(estack)) /\ Whole(program, Drop(estack, 1))
      /\ (Data(Top(estack)) # "stop" => Ready(program, Drop(estack, 1)))
  BY <1>2, <1>3, TopToken
<1>5. PICK f : f = Data(Top(estack))
  OBVIOUS
<1>6. PICK E : E = Drop(estack, 1)
  OBVIOUS
<1>7. f \in Operators
  BY <1>2, <1>4, <1>5, ValueIsPlain DEF Plain
<1>8. Unwinding(E) /\ (f = "stop" \/ Ready(program, E))
  BY <1>2, <1>4, <1>5, <1>6 DEF Unwinding
<1>9. Execute(f, E, "dispatch")
  BY <1>2, <1>5, <1>6 DEF DispatchFunction
<1>10. Kept' /\ (Thrown(f)' \/ (pc' = "dispatch" /\ current_op' = NoOp))
  BY <1>7, <1>8, <1>9, ExecuteKeeps
<1>11. Placed'
  BY <1>7, <1>10, ThrownIsPlaced, ContinuesIsPlaced DEF Continues
<1> QED
  BY <1>2, <1>10, <1>11 DEF Sound

LEMMA DispatchIterIsSound ==
    ASSUME Sound, DispatchIter
    PROVE  Sound'
<1>1. Dispatching(IterMarkers)
  BY DEF DispatchIter
<1>2. /\ Whole(program, estack) /\ estack # <<>> /\ Tag(Top(estack)) \in IterMarkers
      /\ Fine /\ UNCHANGED program /\ Values(ostack) /\ Settled'
      /\ (Tag(Top(estack)) # "function" => current_op = NoOp)
  BY <1>1, DispatchingParts
<1>3. Kept'
  BY <1>2, StacksKeep DEF DispatchIter
<1>4. current_op = NoOp
  BY <1>2 DEF IterMarkers, LoopMarkers
<1>5. Placed'
  BY <1>2, <1>4, WalksIsPlaced DEF DispatchIter, Stacks, Goto, Walks, AtFrame, Top
<1> QED
  BY <1>2, <1>3, <1>5 DEF Sound

LEMMA QuitIsSound ==
    ASSUME Sound, Quit
    PROVE  Sound'
<1>1. Dispatching({"quit"})
  BY DEF Quit
<1>2. /\ Whole(program, estack) /\ estack # <<>> /\ Tag(Top(estack)) = "quit"
      /\ Fine /\ UNCHANGED program /\ Values(ostack) /\ Settled'
      /\ (Tag(Top(estack)) # "function" => current_op = NoOp)
  BY <1>1, DispatchingParts
<1>3. Kept'
  BY <1>2, StacksKeep DEF Quit
<1>4. Placed'
  BY <1>2 DEF Quit, Stacks, Goto, Placed, Places, StaleOpIsUnwinding, Top
<1> QED
  BY <1>2, <1>3, <1>4 DEF Sound

\* The token at the top gives its place to another.
LEMMA ReplaceTop ==
    ASSUME NEW E, NEW t, IsStack(E), Len(E) >= 1
    PROVE  SetPick(E, 0, t) = Append(Drop(E, 1), t)
<1>1. PICK n : n = Len(E)
  OBVIOUS
<1>2. n \in Nat /\ n >= 1 /\ 0 \in 0..(n - 1) /\ n - 0 = n /\ 1 \in 0..n
  BY <1>1, StackLength
<1>3. PICK F : F = SetPick(E, 0, t)
  OBVIOUS
<1>4. PICK D : D = Drop(E, 1)
  OBVIOUS
<1>5. PICK G : G = Append(D, t)
  OBVIOUS
<1>6. IsStack(F) /\ Len(F) = n /\ F[n] = t /\ \A i \in 1..n : i # n => F[i] = E[i]
  <2>1. /\ IsStack(F) /\ Len(F) = Len(E) /\ F[Len(E) - 0] = t
        /\ \A i \in 1..Len(E) : i # Len(E) - 0 => F[i] = E[i]
    BY <1>1, <1>2, <1>3, StackSetPick
  <2> QED
    BY <1>1, <1>2, <2>1
<1>7. IsStack(D) /\ Len(D) = n - 1 /\ \A i \in 1..(n - 1) : D[i] = E[i]
  BY <1>1, <1>2, <1>4, StackDrop
<1>8. PICK m : m = n - 1
  OBVIOUS
<1>9. m \in Nat /\ n = m + 1
  BY <1>2, <1>8
<1>10. IsStack(G) /\ Len(G) = m + 1 /\ G[m + 1] = t /\ \A i \in 1..m : G[i] = D[i]
  BY <1>5, <1>7, <1>8, StackAppend
<1>11. \A i \in 1..n : i = n \/ (i \in 1..m /\ i # n)
  BY <1>9
<1>12. \A i \in 1..n : F[i] = G[i]
  BY <1>6, <1>7, <1>8, <1>9, <1>10, <1>11
<1>13. F = G
  BY <1>6, <1>9, <1>10, <1>12, SameStack
<1> QED
  BY <1>3, <1>4, <1>5, <1>13

LEMMA ComplainKeeps ==
    ASSUME Fine, program \in Programs, UNCHANGED program, current_op = NoOp,
           NEW E, Whole(program, E), NEW e, Complain(E, e)
    PROVE  Kept' /\ Placed'
<1>1. /\ \E f : Raise(E, ostack, f, e) /\ UNCHANGED <<dlevel, bound>>
      /\ pc' = "dispatch" /\ UNCHANGED current_op
  BY DEF Complain, Throw
<1>2. Kept'
  BY <1>1, RaiseKeeps DEF Fine
<1> QED
  BY <1>1, <1>2, ContinuesIsPlaced DEF Continues

\* A name is replaced by what it means, and ::parse alone by the parser.
LEMMA NamedTop ==
    ASSUME program \in Programs, NEW E, Whole(program, E), E # <<>>, Tag(Top(E)) = "name",
           NEW t, t = Resolve(Data(Top(E))), t # Unbound
    PROVE  Whole(program, SetPick(E, 0, t))
<1>1. PICK D : D = Drop(E, 1)
  OBVIOUS
<1>2. Tag(Top(E)) \notin IterMarkers /\ Top(E) # Fn("stop")
  BY TokenParts DEF IterMarkers, LoopMarkers
<1>3. /\ Whole(program, D) /\ Ready(program, D) /\ Len(D) = Len(E) - 1
      /\ \A i \in 1..(Len(E) - 1) : D[i] = E[i]
  BY <1>1, <1>2, UnderIsWhole
<1>4. IsStack(E) /\ Len(E) \in Nat /\ Len(E) >= 1 /\ Slot(Top(E)) /\ Parsers(E) /\ Len(E) \in 1..Len(E)
  <2>1. IsStack(E) /\ Len(E) \in Nat /\ (E = <<>> <=> Len(E) = 0)
    BY WholeStack
  <2>2. Len(E) > 0 /\ Len(E) >= 1
    BY <2>1
  <2>3. Slot(Top(E)) /\ Len(E) \in 1..Len(E)
    BY <2>2, WholeStack
  <2> QED
    BY <2>1, <2>2, <2>3 DEF Whole
<1>5. SetPick(E, 0, t) = Append(D, t)
  BY <1>1, <1>4, ReplaceTop
<1>6. Value(t) \/ (Data(Top(E)) = Parse /\ t = Marker("iparse"))
  BY ResolveKinds
<1>a. CASE Value(t)
  BY <1>3, <1>5, <1>a, PushValue
<1>b. CASE Data(Top(E)) = Parse /\ t = Marker("iparse")
  <2>1. Top(E) = NameTok(Parse)
    <3>1. ~ Value(Top(E))
      BY <1>b, ValueIsPlain DEF Plain
    <3> QED
      BY <1>2, <1>4, <3>1 DEF Slot
  <2>2. Len(E) > 1 /\ Tag(E[Len(E) - 1]) = "xistream"
    BY <1>4, <2>1 DEF Parsers, Top
  <2>3. PICK l : l = Len(E) - 1
    OBVIOUS
  <2>4. l \in 1..(Len(E) - 1) /\ l > 0
    BY <1>4, <2>2, <2>3
  <2>5. Len(D) > 0 /\ Tag(D[Len(D)]) = "xistream"
    BY <1>3, <2>2, <2>3, <2>4
  <2>6. Tag(t) = "iparse" /\ Tag(t) \notin IterMarkers /\ Slot(t)
    <3>1. Tag(t) = "iparse"
      BY <1>b, TokenParts
    <3> QED
      BY <3>1 DEF Slot, IterMarkers, LoopMarkers
  <2>7. Whole(program, Append(D, t))
    BY <1>3, <2>5, <2>6, PushIsWhole
  <2> QED
    BY <1>5, <2>7
<1> QED
  BY <1>6, <1>a, <1>b

LEMMA DispatchNameIsSound ==
    ASSUME Sound, DispatchName
    PROVE  Sound'
<1>1. Dispatching({"name"})
  BY DEF DispatchName
<1>2. /\ Whole(program, estack) /\ estack # <<>> /\ Tag(Top(estack)) = "name"
      /\ Last(estack) = Top(estack) /\ Fine /\ UNCHANGED program /\ Values(ostack) /\ Settled'
      /\ program \in Programs /\ (Tag(Top(estack)) # "function" => current_op = NoOp)
  BY <1>1, DispatchingParts
<1>3. PICK t : t = Resolve(Data(Top(estack)))
  OBVIOUS
<1>4. current_op = NoOp
  BY <1>2
<1>5. \/ t = Unbound /\ Complain(estack, "UndefinedName")
      \/ IsExecutable(t) /\ Stacks(SetPick(estack, 0, t), ostack) /\ Goto("dispatch")
      \/ t # Unbound /\ ~ IsExecutable(t) /\ Stacks(Drop(estack, 1), Append(ostack, t)) /\ Goto("dispatch")
  BY <1>2, <1>3 DEF DispatchName
<1>a. CASE t = Unbound /\ Complain(estack, "UndefinedName")
  BY <1>2, <1>4, <1>a, ComplainKeeps DEF Sound
<1>b. CASE IsExecutable(t) /\ Stacks(SetPick(estack, 0, t), ostack) /\ Goto("dispatch")
  <2>1. t # Unbound
    BY <1>b, TokenParts DEF IsExecutable, ExecTags, IterMarkers, LoopMarkers
  <2>2. Whole(program, SetPick(estack, 0, t))
    BY <1>2, <1>3, <2>1, NamedTop
  <2>3. Kept'
    BY <1>2, <1>b, <2>2, StacksKeep
  <2>4. Placed'
    BY <1>4, <1>b, ContinuesIsPlaced DEF Goto, Continues
  <2> QED
    BY <1>2, <2>3, <2>4 DEF Sound
<1>c. CASE /\ t # Unbound /\ ~ IsExecutable(t)
           /\ Stacks(Drop(estack, 1), Append(ostack, t)) /\ Goto("dispatch")
  <2>1. Tag(Top(estack)) \notin IterMarkers
    BY <1>2 DEF IterMarkers, LoopMarkers
  <2>2. Whole(program, Drop(estack, 1))
    BY <1>2, <2>1, UnderIsWhole
  <2>3. Value(t)
    <3>1. ~(t = Marker("iparse"))
      BY <1>c, TokenParts DEF IsExecutable, ExecTags
    <3> QED
      BY <1>2, <1>3, <1>c, <3>1, ResolveKinds
  <2>4. Values(Append(ostack, t))
    BY <1>2, <2>3, ValuesAppend
  <2>5. Kept'
    BY <1>2, <1>c, <2>2, <2>4, StacksKeep
  <2>6. Placed'
    BY <1>4, <1>c, ContinuesIsPlaced DEF Goto, Continues
  <2> QED
    BY <1>2, <2>5, <2>6 DEF Sound
<1> QED
  BY <1>5, <1>a, <1>b, <1>c

LEMMA DispatchTrieIsSound ==
    ASSUME Sound, DispatchTrie
    PROVE  Sound'
<1>1. Dispatching({"trie"})
  BY DEF DispatchTrie
<1>2. /\ Whole(program, estack) /\ estack # <<>> /\ Tag(Top(estack)) = "trie"
      /\ Last(estack) = Top(estack) /\ Fine /\ UNCHANGED program /\ Values(ostack) /\ Settled'
      /\ program \in Programs /\ (Tag(Top(estack)) # "function" => current_op = NoOp)
      /\ Len(estack) >= 1
  BY <1>1, DispatchingParts
<1>3. PICK f : f = Data(Top(estack))
  OBVIOUS
<1>4. current_op = NoOp
  BY <1>2
<1>5. PICK t : t = Fn(Tries[f].leaf)
  OBVIOUS
<1>6. \/ \E e : Complain(estack, e)
      \/ Stacks(SetPick(estack, 0, t), ostack) /\ Goto("dispatch")
  BY <1>2, <1>3, <1>5 DEF DispatchTrie
<1>a. CASE \E e : Complain(estack, e)
  BY <1>2, <1>4, <1>a, ComplainKeeps DEF Sound
<1>b. CASE Stacks(SetPick(estack, 0, t), ostack) /\ Goto("dispatch")
  <2>1. Tag(Top(estack)) \notin IterMarkers \cup {"iparse", "xistream", "name"}
    BY <1>2 DEF IterMarkers, LoopMarkers
  <2>2. Value(Top(estack)) /\ Whole(program, Drop(estack, 1)) /\ Ready(program, Drop(estack, 1))
    BY <1>2, <2>1, TopToken
  <2>3. f \in DOMAIN Tries
    BY <1>2, <1>3, <2>2, ValueIsPlain DEF Plain
  <2>4. Value(t)
    BY <1>5, <2>3, LiteralsAssumption, AtomsAreValues
  <2>5. Whole(program, SetPick(estack, 0, t))
    <3>1. IsStack(estack)
      BY <1>2, WholeStack
    <3>2. SetPick(estack, 0, t) = Append(Drop(estack, 1), t)
      BY <1>2, <3>1, ReplaceTop
    <3> QED
      BY <2>2, <2>4, <3>2, PushValue
  <2>6. Kept'
    BY <1>2, <1>b, <2>5, StacksKeep
  <2>7. Placed'
    BY <1>4, <1>b, ContinuesIsPlaced DEF Goto, Continues
  <2> QED
    BY <1>2, <2>6, <2>7 DEF Sound
<1> QED
  BY <1>6, <1>a, <1>b

\* A procedure becomes the bottom of its own frame.
LEMMA EnterProcedure ==
    ASSUME program \in Programs, NEW E, Whole(program, E), E # <<>>, Tag(Top(E)) = "procedure",
           NEW F, F = E \o <<IntTok(0), Marker("iiterate")>>
    PROVE  Whole(program, F) /\ F # <<>> /\ Top(F) = Marker("iiterate")
<1>1. PICK p : p = Top(E)
  OBVIOUS
<1>2. PICK D : D = Drop(E, 1)
  OBVIOUS
<1>3. Tag(Top(E)) \notin IterMarkers \cup {"iparse", "xistream", "name"}
  BY DEF IterMarkers, LoopMarkers
<1>4. Value(p) /\ Tag(p) = "procedure" /\ Whole(program, D) /\ Ready(program, D)
  BY <1>1, <1>2, <1>3, TopToken
<1>5. PICK l : l = Len(D)
  OBVIOUS
<1>6. /\ IsStack(E) /\ l \in Nat /\ Len(E) = l + 1 /\ \A i \in 1..l : D[i] = E[i]
  <2>1. Len(D) = Len(E) - 1 /\ \A i \in 1..(Len(E) - 1) : D[i] = E[i]
    BY <1>2, <1>3, UnderIsWhole
  <2>2. Len(E) \in Nat /\ IsStack(E) /\ (E = <<>> <=> Len(E) = 0)
    BY WholeStack
  <2> QED
    BY <1>5, <2>1, <2>2
<1>7. PICK S : S = <<IntTok(0), Marker("iiterate")>>
  OBVIOUS
<1>8. IsStack(S) /\ Len(S) = 2 /\ S[1] = IntTok(0) /\ S[2] = Marker("iiterate")
  BY <1>7, Tuple2
<1>9. PICK T : T = <<p, IntTok(0), Marker("iiterate")>>
  OBVIOUS
<1>10. IsStack(T) /\ Len(T) = 3 /\ T[1] = p /\ T[2] = IntTok(0) /\ T[3] = Marker("iiterate")
  BY <1>9, Tuple3
<1>11. Joined(F, E, S)
  BY <1>6, <1>7, <1>8, ConcatJoins
<1>12. Joined(F, D, T)
  <2>1. IsStack(F) /\ Len(F) = l + 3
    BY <1>6, <1>8, <1>11 DEF Joined
  <2>2. \A i \in 1..l : F[i] = D[i]
    <3>1. \A i \in 1..l : i \in 1..Len(E)
      BY <1>6
    <3> QED
      BY <1>6, <1>11, <3>1 DEF Joined
  <2>3. F[l + 1] = p
    <3>1. Len(E) \in 1..Len(E)
      BY <1>6
    <3>2. F[Len(E)] = E[Len(E)]
      BY <1>11, <3>1 DEF Joined
    <3> QED
      BY <1>1, <1>6, <3>2 DEF Top
  <2>4. F[l + 2] = IntTok(0) /\ F[l + 3] = Marker("iiterate")
    <3>1. 1 \in 1..Len(S) /\ 2 \in 1..Len(S) /\ Len(E) + 1 = l + 2 /\ Len(E) + 2 = l + 3
      BY <1>6, <1>8
    <3>2. F[Len(E) + 1] = S[1] /\ F[Len(E) + 2] = S[2]
      BY <1>11, <3>1 DEF Joined
    <3> QED
      BY <1>8, <3>1, <3>2
  <2>5. \A i \in 1..3 : i = 1 \/ i = 2 \/ i = 3
    OBVIOUS
  <2>6. \A i \in 1..3 : F[l + i] = T[i]
    BY <1>10, <2>3, <2>4, <2>5
  <2> QED
    BY <1>5, <1>10, <2>1, <2>2, <2>6 DEF Joined
<1>13. NewSlots(program, T, "iiterate", 2)
  <2>1. \A k \in 1..2 : k = 1 \/ k = 2
    OBVIOUS
  <2>2. \A k \in 1..2 : Tag(T[k]) = Layout["iiterate"][k] /\ Value(T[k])
    BY <1>4, <1>10, <2>1, LayoutOf, TokenParts, AtomsAreValues
  <2>3. Contents(T, 3)
    BY <1>10, TokenParts DEF Contents
  <2>4. Data(T[2]) \in 0..Len(program.body[Data(T[1])])
    <3>1. Data(p) \in Procedures
      BY <1>4, ValueIsPlain DEF Plain
    <3>2. Len(program.body[Data(p)]) \in Nat
      BY <3>1, ProgramParts
    <3> QED
      BY <1>10, <3>2, TokenParts
  <2> QED
    BY <1>10, <2>2, <2>3, <2>4, Sizes DEF NewSlots
<1>14. "iiterate" \in IterMarkers
  BY DEF IterMarkers
<1> QED
  BY <1>4, <1>12, <1>13, <1>14, NewFrame

LEMMA DispatchProcedureIsSound ==
    ASSUME Sound, DispatchProcedure
    PROVE  Sound'
<1>1. Dispatching({"procedure"})
  BY DEF DispatchProcedure
<1>2. /\ Whole(program, estack) /\ estack # <<>> /\ Tag(Top(estack)) = "procedure"
      /\ Fine /\ UNCHANGED program /\ Values(ostack) /\ Settled'
      /\ program \in Programs /\ (Tag(Top(estack)) # "function" => current_op = NoOp)
  BY <1>1, DispatchingParts
<1>3. PICK F : F = estack \o <<IntTok(0), Marker("iiterate")>>
  OBVIOUS
<1>4. Whole(program, F) /\ F # <<>> /\ Top(F) = Marker("iiterate")
  BY <1>2, <1>3, EnterProcedure
<1>5. Stacks(F, ostack) /\ Goto("walk") /\ current_op = NoOp
  BY <1>2, <1>3 DEF DispatchProcedure
<1>6. Kept'
  BY <1>2, <1>4, <1>5, StacksKeep
<1>7. estack' = F /\ pc' = "walk" /\ current_op' = NoOp
  BY <1>5 DEF Stacks, Goto
<1>8. AtFrame'
  BY <1>4, <1>7, TokenParts DEF AtFrame, Top, IterMarkers
<1>9. Placed'
  BY <1>7, <1>8, WalksIsPlaced DEF Walks
<1> QED
  BY <1>2, <1>6, <1>9 DEF Sound

LEMMA SupplyParts ==
    ASSUME NEW s, Supply(s), s # <<>>
    PROVE  Supply(Tail(s)) /\ (Head(s) = BadSyntax \/ Value(Head(s)))
<1>1. PICK S : s \in Seq(S)
  BY DEF Supply, IsStack
<1>2. Len(s) \in Nat /\ Len(s) # 0
  BY <1>1
<1>3. Head(s) = s[1] /\ 1 \in 1..Len(s)
  BY <1>1, <1>2
<1>4. PICK t : t = Tail(s)
  OBVIOUS
<1>5. t \in Seq(S) /\ Len(t) = Len(s) - 1 /\ \A i \in 1..(Len(s) - 1) : t[i] = s[i + 1]
  BY <1>1, <1>2, <1>4
<1>6. \A i \in 1..(Len(s) - 1) : \E k \in 1..Len(s) : k = i + 1
  BY <1>2
<1>7. \A i \in 1..Len(t) : t[i] = BadSyntax \/ Value(t[i])
  BY <1>5, <1>6 DEF Supply
<1> QED
  BY <1>3, <1>4, <1>5, <1>7 DEF Supply, IsStack

LEMMA IparseIsSound ==
    ASSUME Sound, Iparse
    PROVE  Sound'
<1>1. /\ pc = "dispatch" /\ estack # <<>> /\ Tag(Last(estack)) = "iparse"
      /\ UNCHANGED <<signalflag, setting>>
  BY DEF Iparse
<1>2. /\ program \in Programs /\ UNCHANGED program /\ Fine /\ Whole(program, estack)
      /\ Values(ostack) /\ Unwinding(estack) /\ Last(estack) = Top(estack)
      /\ Len(estack) \in Nat /\ Len(estack) >= 1
  BY <1>1, SoundParts
<1>3. Tag(Top(estack)) = "iparse"
  BY <1>1, <1>2
<1>4. current_op = NoOp
  BY <1>3, OpIsUnset
<1>5. Supply(input)
  BY DEF Sound, Settled
<1>6. \/ input = <<>> /\ Stacks(Drop(estack, 2), ostack) /\ UNCHANGED input /\ Goto("dispatch")
      \/ input # <<>> /\ input' = Tail(input) /\ \E e : Complain(estack, e)
      \/ /\ input # <<>> /\ input' = Tail(input) /\ Head(input) # BadSyntax
         /\ Stacks(Append(estack, Head(input)), ostack) /\ Goto("dispatch")
  BY DEF Iparse
<1>7. Supply(input')
  BY <1>5, <1>6, SupplyParts
<1>8. Settled'
  BY <1>1, <1>7 DEF Sound, Settled, setting
<1>a. CASE input = <<>> /\ Stacks(Drop(estack, 2), ostack) /\ UNCHANGED input /\ Goto("dispatch")
  <2>1. Len(estack) > 1 /\ Tag(estack[Len(estack) - 1]) = "xistream"
    <3>1. Len(estack) \in 1..Len(estack)
      BY <1>2
    <3> QED
      BY <1>2, <1>3, <3>1 DEF Whole, Parsers, Top
  <2>2. PICK m : m = Len(estack) - 1
    OBVIOUS
  <2>3. m \in 1..Len(estack) /\ Tag(estack[m]) = "xistream" /\ m - 1 = Len(estack) - 2
        /\ 2 \in 0..Len(estack)
    BY <1>2, <2>1, <2>2
  <2>4. IsStack(estack) /\ Frames(program, estack)
    BY <1>2, WholeStack
  <2>5. Clean(estack, m - 1)
    BY <2>3, <2>4, CutBelow DEF SlotTags, IterMarkers, LoopMarkers
  <2>6. Kept'
    BY <1>2, <1>a, <2>3, <2>5, DropClean
  <2>7. Placed'
    BY <1>4, <1>a, ContinuesIsPlaced DEF Goto, Continues
  <2> QED
    BY <1>8, <2>6, <2>7 DEF Sound
<1>b. CASE input # <<>> /\ input' = Tail(input) /\ \E e : Complain(estack, e)
  BY <1>2, <1>4, <1>8, <1>b, ComplainKeeps DEF Sound
<1>c. CASE /\ input # <<>> /\ input' = Tail(input) /\ Head(input) # BadSyntax
           /\ Stacks(Append(estack, Head(input)), ostack) /\ Goto("dispatch")
  <2>1. Value(Head(input))
    BY <1>5, <1>c, SupplyParts
  <2>2. Ready(program, estack)
    BY <1>3 DEF Ready, Unspent, Top
  <2>3. Whole(program, Append(estack, Head(input)))
    BY <1>2, <2>1, <2>2, PushValue
  <2>4. Kept'
    BY <1>2, <1>c, <2>3, StacksKeep
  <2>5. Placed'
    BY <1>4, <1>c, ContinuesIsPlaced DEF Goto, Continues
  <2> QED
    BY <1>8, <2>4, <2>5 DEF Sound
<1> QED
  BY <1>6, <1>a, <1>b, <1>c

-----------------------------------------------------------------------------
(* body_walk *)

LEMMA FrameParts ==
    ASSUME Sound, pc \in {"walk", "exhausted"}, Quiet
    PROVE  /\ program \in Programs /\ UNCHANGED program /\ Fine /\ Whole(program, estack)
           /\ Values(ostack) /\ Unwinding(estack) /\ Len(estack) \in Nat
           /\ estack # <<>> /\ Tag(Top(estack)) \in IterMarkers /\ Last(estack) = Top(estack)
           /\ Settled' /\ current_op = NoOp /\ AtFrame
           /\ Data(Pick(estack, 2)) \in Procedures
           /\ Values(Walked) /\ Len(Walked) \in Nat
           /\ Len(Walked) = Len(program.body[Data(Pick(estack, 2))])
           /\ Pos \in 0..Len(Walked)
<1>1. UNCHANGED setting
  BY DEF Quiet
<1>2. AtFrame /\ current_op = NoOp
  BY OpIsUnset DEF Sound, Placed
<1>3. /\ program \in Programs /\ UNCHANGED program /\ Fine /\ Whole(program, estack)
      /\ Values(ostack) /\ Unwinding(estack) /\ Len(estack) \in Nat
      /\ Last(estack) = Top(estack)
  BY <1>1, <1>2, SoundParts DEF AtFrame
<1>4. Settled'
  BY SettledStays DEF Sound
<1>5. /\ Data(Pick(estack, 2)) \in Procedures
      /\ Data(Pick(estack, 1)) \in 0..Len(program.body[Data(Pick(estack, 2))])
  BY <1>2, <1>3, TopFrame DEF AtFrame
<1>6. /\ Values(Walked) /\ Len(Walked) \in Nat
      /\ Len(Walked) = Len(program.body[Data(Pick(estack, 2))])
  BY <1>3, <1>5, BodyParts DEF Walked
<1>7. Pos \in 0..Len(Walked)
  BY <1>5, <1>6 DEF Pos
<1> QED
  BY <1>2, <1>3, <1>4, <1>5, <1>6, <1>7 DEF AtFrame

\* The token at the position, and the frame as it is once it is fetched.
LEMMA FetchedParts ==
    ASSUME Sound, pc = "walk", Quiet, Pos < Len(Walked)
    PROVE  /\ Value(Fetched) /\ Whole(program, Advanced) /\ Advanced # <<>>
           /\ Tag(Top(Advanced)) \in IterMarkers
           /\ Unwinding(Advanced) /\ (~ TailCall => Ready(program, Advanced))
<1>1. /\ program \in Programs /\ UNCHANGED program /\ Fine /\ Whole(program, estack)
      /\ estack # <<>> /\ Tag(Top(estack)) \in IterMarkers /\ Last(estack) = Top(estack)
      /\ Values(Walked) /\ Len(Walked) \in Nat /\ Pos \in 0..Len(Walked)
      /\ Len(Walked) = Len(program.body[Data(Pick(estack, 2))])
  BY FrameParts
<1>2. PICK n : n = Len(Walked)
  OBVIOUS
<1>3. PICK p : p = Pos + 1
  OBVIOUS
<1>4. p \in 0..n /\ p \in 1..n /\ n \in Nat
  BY <1>1, <1>2, <1>3
<1>5. Value(Fetched)
  <2>1. Value(Walked[p])
    BY <1>1, <1>2, <1>4 DEF Values
  <2> QED
    BY <1>3, <2>1 DEF Fetched
<1>6. PICK F : F = SetPick(estack, 1, IntTok(p))
  OBVIOUS
<1>7. /\ Whole(program, F) /\ F # <<>> /\ Top(F) = Top(estack)
      /\ (Tag(Top(estack)) \in LoopMarkers \/ p < n => Ready(program, F))
      /\ Len(F) = Len(estack)
  BY <1>1, <1>2, <1>4, <1>6, MovePosition
<1>8. Advanced = F
  BY <1>3, <1>6 DEF Advanced
<1>9. ~ TailCall => Ready(program, F)
  <2> SUFFICES ASSUME ~ TailCall PROVE Ready(program, F)
    OBVIOUS
  <2>1. p < n \/ Tag(Top(estack)) # "iiterate" \/ program.backtrace
    BY <1>1, <1>2, <1>3 DEF TailCall, More
  <2>2. Tag(Top(F)) # "mark"
    BY <1>1, <1>7 DEF IterMarkers, LoopMarkers
  <2>a. CASE program.backtrace
    BY <2>2, <2>a DEF Ready, Top
  <2>b. CASE p < n \/ Tag(Top(estack)) # "iiterate"
    BY <1>1, <1>7, <2>b DEF IterMarkers
  <2> QED
    BY <2>1, <2>a, <2>b
<1>10. Unwinding(F)
  BY <1>1, <1>7 DEF Unwinding
<1> QED
  BY <1>1, <1>5, <1>7, <1>8, <1>9, <1>10

LEMMA WalkEndIsSound ==
    ASSUME Sound, WalkEnd
    PROVE  Sound'
<1>1. pc = "walk" /\ Quiet
  BY DEF WalkEnd
<1>2. Settled' /\ current_op = NoOp /\ AtFrame
  BY <1>1, FrameParts
<1>3. Kept'
  BY DEF WalkEnd, Quiet, setting, Sound, Kept, Fine, Recorded
<1>4. Placed'
  BY <1>2, WalksIsPlaced DEF WalkEnd, Goto, Walks, AtFrame, Top
<1> QED
  BY <1>2, <1>3, <1>4 DEF Sound

LEMMA WalkingParts ==
    ASSUME Sound, NEW S, Walking(S)
    PROVE  /\ program \in Programs /\ UNCHANGED program /\ Fine /\ Values(ostack) /\ Settled'
           /\ current_op = NoOp /\ Tag(Fetched) \in S /\ Value(Fetched)
           /\ Whole(program, Advanced) /\ Unwinding(Advanced)
           /\ Advanced # <<>> /\ Tag(Top(Advanced)) \in IterMarkers
           /\ ~ TailCall => Ready(program, Advanced)
<1>1. pc = "walk" /\ Quiet /\ Pos < Len(Walked) /\ Tag(Fetched) \in S
  BY DEF Walking
<1>2. /\ program \in Programs /\ UNCHANGED program /\ Fine /\ Values(ostack) /\ Settled'
      /\ current_op = NoOp
  BY <1>1, FrameParts
<1> QED
  BY <1>1, <1>2, FetchedParts

\* A step that goes on in the body.
LEMMA WalksOn ==
    ASSUME Fine, UNCHANGED program, Whole(program, Advanced), Advanced # <<>>,
           Tag(Top(Advanced)) \in IterMarkers, current_op = NoOp, Settled',
           NEW O, Values(O), Stacks(Advanced, O),
           NEW l \in {"walk", "exhausted"}, Goto(l)
    PROVE  Sound'
<1>1. PICK F : F = Advanced
  OBVIOUS
<1>2. Whole(program, F) /\ F # <<>> /\ Tag(Top(F)) \in IterMarkers /\ Stacks(F, O)
  BY <1>1
<1>3. Kept'
  BY <1>2, StacksKeep
<1>4. estack' = F /\ pc' = l /\ current_op' = NoOp
  BY <1>2 DEF Stacks, Goto
<1>5. AtFrame'
  BY <1>2, <1>4 DEF AtFrame, Top
<1>6. Placed'
  BY <1>4, <1>5, WalksIsPlaced DEF Walks
<1> QED
  BY <1>3, <1>6 DEF Sound

LEMMA WalkDataIsSound ==
    ASSUME Sound, WalkData
    PROVE  Sound'
<1>1. Walking(DataTags) /\ Stacks(Advanced, Append(ostack, Fetched)) /\ Goto(NextInBody)
  BY DEF WalkData
<1>2. Values(Append(ostack, Fetched))
  BY <1>1, WalkingParts, ValuesAppend
<1>3. NextInBody \in {"walk", "exhausted"}
  BY DEF NextInBody
<1> QED
  BY <1>1, <1>2, <1>3, WalkingParts, WalksOn

LEMMA WalkLitprocIsSound ==
    ASSUME Sound, WalkLitproc
    PROVE  Sound'
<1>1. /\ Walking({"litprocedure"}) /\ Goto(NextInBody)
      /\ Stacks(Advanced, Append(ostack, Proc(Data(Fetched))))
  BY DEF WalkLitproc
<1>2. Values(Append(ostack, Proc(Data(Fetched))))
  <2>1. Value(Fetched) /\ Tag(Fetched) = "litprocedure" /\ Values(ostack)
    BY <1>1, WalkingParts
  <2>2. Data(Fetched) \in Procedures
    BY <2>1, ValueIsPlain DEF Plain
  <2> QED
    BY <2>1, <2>2, AtomsAreValues, ValuesAppend
<1>3. NextInBody \in {"walk", "exhausted"}
  BY DEF NextInBody
<1> QED
  BY <1>1, <1>2, <1>3, WalkingParts, WalksOn

\* A step that pushes something to run.
LEMMA PushesIsSound ==
    ASSUME Fine, UNCHANGED program, NEW E, Whole(program, E), Ready(program, E),
           current_op = NoOp, Settled', NEW t, Value(t), Stacks(Append(E, t), ostack),
           Goto("dispatch")
    PROVE  Sound'
<1>1. Whole(program, Append(E, t))
  BY PushValue
<1>2. Kept'
  BY <1>1, StacksKeep DEF Fine
<1>3. Placed'
  BY ContinuesIsPlaced DEF Goto, Continues
<1> QED
  BY <1>2, <1>3 DEF Sound

LEMMA WalkPushIsSound ==
    ASSUME Sound, WalkPush
    PROVE  Sound'
<1>1. /\ Walking(ExecTags \ {"function", "name", "litprocedure"}) /\ ~ TailCall
      /\ Stacks(Append(Advanced, Fetched), ostack) /\ Goto("dispatch")
  BY DEF WalkPush
<1> QED
  BY <1>1, WalkingParts, PushesIsSound

\* The tail call takes the frame away before it pushes.
LEMMA WalkTailIsSound ==
    ASSUME Sound, WalkTail
    PROVE  Sound'
<1>1. /\ Walking(ExecTags) /\ TailCall
      /\ Stacks(Append(Drop(estack, 3), Fetched), ostack) /\ Goto("dispatch")
  BY DEF WalkTail
<1>2. pc = "walk" /\ Quiet
  BY <1>1 DEF Walking
<1>3. /\ Whole(program, estack) /\ estack # <<>> /\ Tag(Top(estack)) \in IterMarkers
      /\ Last(estack) = Top(estack)
  BY <1>2, FrameParts
<1>4. Tag(Top(estack)) = "iiterate"
  BY <1>1, <1>3 DEF TailCall
<1>5. 3 = Size(Tag(Top(estack))) + 1
  BY <1>4, Sizes
<1>6. Whole(program, Drop(estack, 3)) /\ Ready(program, Drop(estack, 3))
  BY <1>3, <1>5, UnderFrame
<1>7. /\ UNCHANGED program /\ Fine /\ Settled' /\ current_op = NoOp /\ Value(Fetched)
  BY <1>1, WalkingParts
<1> QED
  BY <1>1, <1>6, <1>7, PushesIsSound

\* An operator in the body runs on top of its own frame.
LEMMA CallsIsSound ==
    ASSUME NEW f \in Operators, NEW E, Unwinding(E), Ready(program, E), Settled', Execute(f, E, "resume")
    PROVE  Sound'
<1>1. Kept' /\ (Thrown(f)' \/ (pc' = "resume" /\ current_op' = NoOp))
  BY ExecuteKeeps
<1>2. Placed'
  BY <1>1, ThrownIsPlaced, ContinuesIsPlaced DEF Continues
<1> QED
  BY <1>1, <1>2 DEF Sound

LEMMA WalkFunctionIsSound ==
    ASSUME Sound, WalkFunction
    PROVE  Sound'
<1>1. Walking({"function"}) /\ ~ TailCall /\ Execute(Data(Fetched), Advanced, "resume")
  BY DEF WalkFunction
<1>2. /\ Value(Fetched) /\ Tag(Fetched) = "function" /\ Unwinding(Advanced)
      /\ Ready(program, Advanced) /\ Settled'
  BY <1>1, WalkingParts
<1>3. Data(Fetched) \in Operators
  BY <1>2, ValueIsPlain DEF Plain
<1> QED
  BY <1>1, <1>2, <1>3, CallsIsSound

LEMMA WalkNameIsSound ==
    ASSUME Sound, WalkName
    PROVE  Sound'
<1>1. Walking({"name"}) /\ ~ TailCall
  BY DEF WalkName
<1>2. PICK t : t = Resolve(Data(Fetched))
  OBVIOUS
<1>3. \/ t = Unbound /\ Complain(Advanced, "UndefinedName")
      \/ Tag(t) = "function" /\ Execute(Data(t), Advanced, "resume")
      \/ IsExecutable(t) /\ Stacks(Append(Advanced, t), ostack) /\ Goto("dispatch")
      \/ t # Unbound /\ Stacks(Advanced, Append(ostack, t)) /\ Goto("walk")
  BY <1>2 DEF WalkName
<1>4. /\ program \in Programs /\ UNCHANGED program /\ Fine /\ Values(ostack) /\ Settled'
      /\ current_op = NoOp /\ Tag(Fetched) = "name" /\ Value(Fetched)
      /\ Whole(program, Advanced) /\ Unwinding(Advanced) /\ Ready(program, Advanced)
      /\ Advanced # <<>> /\ Tag(Top(Advanced)) \in IterMarkers
  BY <1>1, WalkingParts
<1>5. t = Unbound \/ Value(t)
  <2>1. Data(Fetched) # Parse
    BY <1>4, ValueIsPlain DEF Plain
  <2> QED
    BY <1>2, <1>4, <2>1, ResolveKinds
<1>a. CASE t = Unbound /\ Complain(Advanced, "UndefinedName")
  BY <1>4, <1>a, ComplainKeeps DEF Sound
<1>b. CASE Tag(t) = "function" /\ Execute(Data(t), Advanced, "resume")
  <2>1. Value(t)
    BY <1>5, <1>b, TokenParts
  <2>2. Data(t) \in Operators
    BY <1>b, <2>1, ValueIsPlain DEF Plain
  <2> QED
    BY <1>4, <1>b, <2>2, CallsIsSound
<1>c. CASE IsExecutable(t) /\ Stacks(Append(Advanced, t), ostack) /\ Goto("dispatch")
  <2>1. Value(t)
    BY <1>5, <1>c, TokenParts DEF IsExecutable, ExecTags, IterMarkers, LoopMarkers
  <2> QED
    BY <1>4, <1>c, <2>1, PushesIsSound
<1>d. CASE t # Unbound /\ Stacks(Advanced, Append(ostack, t)) /\ Goto("walk")
  <2>1. Values(Append(ostack, t))
    BY <1>4, <1>5, <1>d, ValuesAppend
  <2> QED
    BY <1>4, <1>d, <2>1, WalksOn
<1> QED
  BY <1>3, <1>a, <1>b, <1>c, <1>d

-----------------------------------------------------------------------------
(* body_exhausted *)

\* Another token in a slot of the frame at the top.
Replaced(F, E, n, k, t) ==
    /\ IsStack(F) /\ Len(F) = n /\ F[n - k] = t
    /\ \A i \in 1..n : i # n - k => F[i] = E[i]

LEMMA SetPickReplaces ==
    ASSUME NEW E, NEW n, n = Len(E), IsStack(E), NEW k, k \in 0..(n - 1), NEW t
    PROVE  Replaced(SetPick(E, k, t), E, n, k, t)
BY StackSetPick DEF Replaced

LEMMA ReplacedFrame ==
    ASSUME NEW g, NEW E, NEW F, NEW n, NEW k, NEW t, Whole(g, E), E # <<>>, n = Len(E),
           Tag(Top(E)) \in IterMarkers, k \in 3..Size(Tag(Top(E))), Replaced(F, E, n, k, t),
           Value(t), Tag(t) = Tag(E[n - k]), Contents(F, n)
    PROVE  Whole(g, F) /\ F # <<>> /\ Len(F) = n /\ Top(F) = Top(E)
<1>1. PICK lo : lo = Start(E, n)
  OBVIOUS
<1>2. PICK j : j = n - k
  OBVIOUS
<1>3. /\ n \in Nat /\ lo = n - Size(Tag(Top(E))) /\ lo \in 1..(n - 2) /\ n \in 1..n
      /\ \A i \in lo..(n - 1) : Value(E[i])
  BY <1>1, TopFrame, WholeStack
<1>4. Size(Tag(Top(E))) \in 2..7
  BY LayoutShape
<1>5. j \in lo..(n - 3) /\ j \in 1..n /\ n # j /\ n - 1 # j /\ n - 2 # j /\ n - 1 \in 1..n /\ n - 2 \in 1..n
  <2>1. PICK z \in 2..7 : z = Size(Tag(Top(E)))
    BY <1>4
  <2>2. k \in 3..z /\ lo = n - z /\ lo \in 1..(n - 2) /\ n \in Nat
    BY <1>3, <2>1
  <2> QED
    BY <1>2, <2>1, <2>2
<1>6. IsStack(F) /\ Len(F) = n /\ F[j] = t /\ \A i \in 1..n : i # j => F[i] = E[i]
  BY <1>2 DEF Replaced
<1>7. F[n] = E[n] /\ F[n-1] = E[n-1] /\ F[n-2] = E[n-2]
  BY <1>3, <1>5, <1>6
<1>8. \A i \in 1..(lo - 1) : F[i] = E[i]
  <2>1. \A i \in 1..(lo - 1) : i \in 1..n /\ i # j
    BY <1>3, <1>5
  <2> QED
    BY <1>6, <2>1
<1>9. \A i \in lo..(n-1) : Tag(F[i]) = Tag(E[i]) /\ Value(F[i])
  <2>1. \A i \in lo..(n-1) : i \in 1..n
    BY <1>3
  <2>2. Tag(F[j]) = Tag(E[j]) /\ Value(F[j])
    BY <1>2, <1>6
  <2> QED
    BY <1>3, <1>6, <2>1, <2>2
<1>10. Data(F[n-1]) \in 0..Len(g.body[Data(F[n-2])])
  <2>1. FrameOk(g, E, n)
    BY TopFrame
  <2> QED
    BY <1>7, <2>1 DEF FrameOk
<1>11. Whole(g, F)
  BY <1>1, <1>6, <1>7, <1>8, <1>9, <1>10, ChangeFrame
<1>12. F # <<>>
  BY <1>3, <1>6, StackLength
<1> QED
  BY <1>6, <1>7, <1>11, <1>12 DEF Top

\* The counter that all frames but loop's have at the same place.
LEMMA SetCounter ==
    ASSUME NEW g, NEW E, Whole(g, E), E # <<>>, Tag(Top(E)) \in LoopMarkers \ {"iloop"},
           NEW x, x \in Nat \/ Tag(Top(E)) \in {"irepeat", "ifor"},
           NEW F, F = SetPick(E, 3, IntTok(x))
    PROVE  Whole(g, F) /\ F # <<>> /\ Len(F) = Len(E) /\ Top(F) = Top(E)
<1>1. PICK n : n = Len(E)
  OBVIOUS
<1>2. PICK m : m = Tag(Top(E))
  OBVIOUS
<1>3. m \in IterMarkers /\ m \in LoopMarkers \ {"iloop"}
  BY <1>2 DEF IterMarkers
<1>4. /\ n \in Nat /\ Tag(E[n-3]) = "integer" /\ FrameOk(g, E, n) /\ IsStack(E)
      /\ Start(E, n) = n - Size(m) /\ Start(E, n) \in 1..(n - 2)
  BY <1>1, <1>2, <1>3, KindSlots, TopFrame, WholeStack
<1>5. 3 \in 3..Size(m)
  BY <1>3, Sizes DEF LoopMarkers
<1>6. n > 3 /\ 3 \in 0..(n - 1)
  <2>1. PICK z : z = Size(m)
    OBVIOUS
  <2>2. z \in 2..7 /\ 3 \in 3..z
    BY <1>3, <1>5, <2>1, LayoutShape
  <2>3. n \in Nat /\ n - z \in 1..(n - 2)
    BY <1>4, <2>1
  <2> QED
    BY <2>2, <2>3
<1>7. Replaced(F, E, n, 3, IntTok(x))
  BY <1>1, <1>4, <1>6, SetPickReplaces
<1>8. PICK t : t = IntTok(x)
  OBVIOUS
<1>9. Value(t) /\ Tag(t) = "integer" /\ Data(t) = x
  BY <1>8, AtomsAreValues, TokenParts
<1>10. F[n-3] = t /\ \A i \in 1..n : i # n - 3 => F[i] = E[i]
  BY <1>7, <1>8 DEF Replaced
<1>11. F[n] = E[n]
  BY <1>4, <1>6, <1>10
<1>12. Contents(F, n)
  <2>1. Contents(E, n) /\ Tag(E[n]) = m
    BY <1>1, <1>2, <1>4 DEF FrameOk, Top
  <2>2. PICK z : z = Size(m)
    OBVIOUS
  <2>3. z <= n - 1 /\ n \in Nat
    BY <1>4, <2>2, LayoutShape, <1>3
  <2>a. CASE m \in {"irepeat", "ifor"}
    BY <1>11, <2>1, <2>a DEF Contents
  <2>b. CASE m \in {"iforall", "iforallstring"}
    BY <1>2, <1>9, <1>10, <1>11, <2>1, <2>b DEF Contents
  <2>c. CASE m \in {"iforallindexedarray", "iforallindexedstring"}
    <3>1. z = 6
      BY <2>2, <2>c, Sizes
    <3>2. n - 4 \in 1..n /\ n - 4 # n - 3 /\ n - 5 \in 1..n /\ n - 5 # n - 3
      BY <2>3, <3>1
    <3>3. F[n-4] = E[n-4] /\ F[n-5] = E[n-5]
      BY <1>10, <3>2
    <3> QED
      BY <1>2, <1>9, <1>10, <1>11, <2>1, <2>c, <3>3 DEF Contents
  <2>d. CASE m \in {"imap", "imapindexed"}
    <3>1. z = 6
      BY <2>2, <2>d, Sizes
    <3>2. n - 4 \in 1..n /\ n - 4 # n - 3 /\ n - 5 \in 1..n /\ n - 5 # n - 3
      BY <2>3, <3>1
    <3>3. F[n-4] = E[n-4] /\ F[n-5] = E[n-5]
      BY <1>10, <3>2
    <3> QED
      BY <1>2, <1>9, <1>10, <1>11, <2>1, <2>d, <3>3 DEF Contents
  <2>e. CASE m = "imapthread"
    <3>1. z = 7
      BY <2>2, <2>e, Sizes
    <3>2. /\ n - 4 \in 1..n /\ n - 4 # n - 3 /\ n - 5 \in 1..n /\ n - 5 # n - 3
          /\ n - 6 \in 1..n /\ n - 6 # n - 3
      BY <2>3, <3>1
    <3>3. F[n-4] = E[n-4] /\ F[n-5] = E[n-5] /\ F[n-6] = E[n-6]
      BY <1>10, <3>2
    <3> QED
      BY <1>2, <1>9, <1>10, <1>11, <2>1, <2>e, <3>3 DEF Contents
  <2> QED
    BY <1>3, <2>a, <2>b, <2>c, <2>d, <2>e DEF LoopMarkers
<1>13. Tag(t) = Tag(E[n - 3])
  BY <1>4, <1>9
<1> QED
  BY <1>1, <1>2, <1>3, <1>5, <1>7, <1>8, <1>9, <1>12, <1>13, ReplacedFrame

\* The results so far, in the frames of the Map family.
LEMMA SetResults ==
    ASSUME NEW g, NEW E, Whole(g, E), E # <<>>,
           Tag(Top(E)) \in {"imap", "imapindexed", "imapthread"},
           NEW w, Values(w), Len(w) = Len(Data(E[Len(E) - 4])),
           NEW F, F = SetPick(E, 4, Array(w))
    PROVE  Whole(g, F) /\ F # <<>> /\ Len(F) = Len(E) /\ Top(F) = Top(E)
<1>1. PICK n : n = Len(E)
  OBVIOUS
<1>2. PICK m : m = Tag(Top(E))
  OBVIOUS
<1>3. m \in IterMarkers /\ m \in {"imap", "imapindexed", "imapthread"}
  BY <1>2 DEF IterMarkers, LoopMarkers
<1>4. /\ n \in Nat /\ Tag(E[n-4]) = "array" /\ FrameOk(g, E, n) /\ IsStack(E)
      /\ Start(E, n) = n - Size(m) /\ Start(E, n) \in 1..(n - 2)
  BY <1>1, <1>2, <1>3, KindSlots, TopFrame, WholeStack
<1>5. Size(m) \in {6, 7} /\ 4 \in 3..Size(m)
  BY <1>3, Sizes
<1>6. n > 6 /\ 4 \in 0..(n - 1)
  BY <1>4, <1>5
<1>7. Replaced(F, E, n, 4, Array(w))
  BY <1>1, <1>4, <1>6, SetPickReplaces
<1>8. PICK t : t = Array(w)
  OBVIOUS
<1>9. Value(t) /\ Tag(t) = "array" /\ Data(t) = w
  BY <1>8, ArrayIsValue, TokenParts
<1>10. F[n-4] = t /\ \A i \in 1..n : i # n - 4 => F[i] = E[i]
  BY <1>7, <1>8 DEF Replaced
<1>11. F[n] = E[n] /\ F[n-3] = E[n-3] /\ F[n-5] = E[n-5] /\ F[n-6] = E[n-6]
  <2>1. n \in 1..n /\ n-3 \in 1..n /\ n-5 \in 1..n /\ n-6 \in 1..n
    BY <1>4, <1>6
  <2>2. n # n-4 /\ n-3 # n-4 /\ n-5 # n-4 /\ n-6 # n-4
    BY <1>4
  <2> QED
    BY <1>10, <2>1, <2>2
<1>12. Contents(F, n)
  <2>1. Contents(E, n) /\ Tag(E[n]) = m
    BY <1>1, <1>2, <1>4 DEF FrameOk, Top
  <2>a. CASE m \in {"imap", "imapindexed"}
    BY <1>1, <1>9, <1>10, <1>11, <2>1, <2>a DEF Contents
  <2>b. CASE m = "imapthread"
    <3>1. Rows(Data(E[n-5]), Data(E[n-4])) => Rows(Data(F[n-5]), Data(F[n-4]))
      BY <1>1, <1>9, <1>10, <1>11 DEF Rows
    <3> QED
      BY <1>1, <1>9, <1>10, <1>11, <2>1, <2>b, <3>1 DEF Contents
  <2> QED
    BY <1>3, <2>a, <2>b
<1>13. Tag(t) = Tag(E[n - 4])
  BY <1>4, <1>9
<1> QED
  BY <1>1, <1>2, <1>3, <1>5, <1>7, <1>8, <1>9, <1>12, <1>13, ReplacedFrame

\* A step of the exhausted body goes on to resume_iter.
LEMMA ExhaustedParts ==
    ASSUME Sound, NEW S, Exhausted(S)
    PROVE  /\ program \in Programs /\ UNCHANGED program /\ Fine /\ Whole(program, estack)
           /\ Values(ostack) /\ estack # <<>> /\ Tag(Top(estack)) \in IterMarkers
           /\ Tag(Top(estack)) \in S /\ Last(estack) = Top(estack) /\ Settled' /\ Placed'
<1>1. pc = "exhausted" /\ Tag(Last(estack)) \in S /\ Goto("resume") /\ Quiet
  BY DEF Exhausted
<1>2. /\ program \in Programs /\ UNCHANGED program /\ Fine /\ Whole(program, estack)
      /\ Values(ostack) /\ estack # <<>> /\ Tag(Top(estack)) \in IterMarkers
      /\ Last(estack) = Top(estack) /\ Settled' /\ current_op = NoOp
  BY <1>1, FrameParts
<1>3. Placed'
  BY <1>1, <1>2, ContinuesIsPlaced DEF Goto, Continues
<1> QED
  BY <1>1, <1>2, <1>3

LEMMA LeaveForSignalIsSound ==
    ASSUME Sound, LeaveForSignal
    PROVE  Sound'
<1>1. pc = "exhausted" /\ Quiet
  BY DEF LeaveForSignal
<1>2. Settled' /\ current_op = NoOp
  BY <1>1, FrameParts
<1>3. Kept'
  BY DEF LeaveForSignal, Quiet, setting, Sound, Kept, Fine, Recorded
<1>4. Placed'
  BY <1>2, ContinuesIsPlaced DEF LeaveForSignal, Goto, Continues
<1> QED
  BY <1>2, <1>3, <1>4 DEF Sound

\* The frame is taken away when it is done.
LEMMA FrameEnds ==
    ASSUME Sound, NEW S, Exhausted(S), NEW s, s = Size(Tag(Top(estack))) + 1,
           NEW O, Values(O), Stacks(Drop(estack, s), O)
    PROVE  Sound'
<1>1. /\ program \in Programs /\ UNCHANGED program /\ Fine /\ Whole(program, estack)
      /\ estack # <<>> /\ Tag(Top(estack)) \in IterMarkers /\ Settled' /\ Placed'
  BY ExhaustedParts
<1>2. Whole(program, Drop(estack, s))
  BY <1>1, UnderFrame
<1>3. Kept'
  BY <1>1, <1>2, StacksKeep
<1> QED
  BY <1>1, <1>3 DEF Sound

\* The frame starts another round.
LEMMA RewoundParts ==
    ASSUME Sound, NEW S, Exhausted(S)
    PROVE  /\ Whole(program, Rewound) /\ Rewound # <<>> /\ Len(Rewound) = Len(estack)
           /\ Top(Rewound) = Top(estack)
           /\ \A i \in 1..Len(estack) : i # Len(estack) - 1 => Rewound[i] = estack[i]
<1>1. /\ program \in Programs /\ Whole(program, estack)
      /\ estack # <<>> /\ Tag(Top(estack)) \in IterMarkers
  BY ExhaustedParts
<1>2. Data(Pick(estack, 2)) \in Procedures
  BY <1>1, TopFrame
<1>3. 0 \in 0..Len(program.body[Data(Pick(estack, 2))])
  BY <1>1, <1>2, ProgramParts
<1> QED
  BY <1>1, <1>3, MovePosition DEF Rewound

LEMMA FrameGoesOn ==
    ASSUME Sound, NEW S, Exhausted(S), NEW E, Whole(program, E), NEW O, Values(O), Stacks(E, O)
    PROVE  Sound'
<1>1. UNCHANGED program /\ Fine /\ Settled' /\ Placed'
  BY ExhaustedParts
<1>2. Kept'
  BY <1>1, StacksKeep
<1> QED
  BY <1>1, <1>2 DEF Sound

LEMMA EndProcedureIsSound ==
    ASSUME Sound, EndProcedure
    PROVE  Sound'
<1>1. Exhausted({"iiterate"}) /\ Stacks(Drop(estack, 3), ostack)
  BY DEF EndProcedure
<1>2. Tag(Top(estack)) = "iiterate" /\ Values(ostack)
  BY <1>1, ExhaustedParts
<1>3. 3 = Size(Tag(Top(estack))) + 1
  BY <1>2, Sizes
<1> QED
  BY <1>1, <1>2, <1>3, FrameEnds

LEMMA NextLoopIsSound ==
    ASSUME Sound, NextLoop
    PROVE  Sound'
<1>1. Exhausted({"iloop"}) /\ Stacks(Rewound, ostack)
  BY DEF NextLoop
<1>2. Whole(program, Rewound) /\ Values(ostack)
  BY <1>1, RewoundParts, ExhaustedParts
<1> QED
  BY <1>1, <1>2, FrameGoesOn

LEMMA NextRepeatIsSound ==
    ASSUME Sound, NextRepeat
    PROVE  Sound'
<1>1. Exhausted({"irepeat"})
  BY DEF NextRepeat
<1>2. Tag(Top(estack)) = "irepeat" /\ Values(ostack)
  BY <1>1, ExhaustedParts
<1>3. PICK x : x = SlotInt(3) - 1
  OBVIOUS
<1>4. \/ Stacks(SetPick(Rewound, 3, IntTok(x)), ostack)
      \/ Stacks(Drop(estack, 5), ostack)
  BY <1>3 DEF NextRepeat
<1>a. CASE Stacks(SetPick(Rewound, 3, IntTok(x)), ostack)
  <2>1. Whole(program, Rewound) /\ Rewound # <<>> /\ Top(Rewound) = Top(estack)
    BY <1>1, RewoundParts
  <2>2. Tag(Top(Rewound)) \in LoopMarkers \ {"iloop"} /\ Tag(Top(Rewound)) \in {"irepeat", "ifor"}
    BY <1>2, <2>1 DEF LoopMarkers
  <2>3. Whole(program, SetPick(Rewound, 3, IntTok(x)))
    BY <2>1, <2>2, SetCounter
  <2> QED
    BY <1>1, <1>2, <1>a, <2>3, FrameGoesOn
<1>b. CASE Stacks(Drop(estack, 5), ostack)
  <2>1. 5 = Size(Tag(Top(estack))) + 1
    BY <1>2, Sizes
  <2> QED
    BY <1>1, <1>2, <1>b, <2>1, FrameEnds
<1> QED
  BY <1>4, <1>a, <1>b

\* The slots of the frame are values.
LEMMA SlotValues ==
    ASSUME NEW g, NEW E, Whole(g, E), E # <<>>, Tag(Top(E)) \in IterMarkers,
           NEW k, k \in 1..Size(Tag(Top(E)))
    PROVE  Pick(E, k) = E[Len(E) - k] /\ Value(Pick(E, k))
<1>1. PICK n : n = Len(E)
  OBVIOUS
<1>2. /\ n \in Nat /\ Start(E, n) = n - Size(Tag(Top(E))) /\ Start(E, n) \in 1..(n - 2)
      /\ \A i \in Start(E, n)..(n - 1) : Value(E[i])
  BY <1>1, TopFrame, WholeStack
<1>3. Size(Tag(Top(E))) \in 2..7
  BY LayoutShape
<1>4. n - k \in Start(E, n)..(n - 1)
  BY <1>2, <1>3
<1> QED
  BY <1>1, <1>2, <1>4 DEF Pick

LEMMA NextForIsSound ==
    ASSUME Sound, NextFor
    PROVE  Sound'
<1>1. Exhausted({"ifor"})
  BY DEF NextFor
<1>2. /\ Tag(Top(estack)) = "ifor" /\ Values(ostack) /\ Whole(program, estack) /\ estack # <<>>
      /\ Tag(Top(estack)) \in IterMarkers
  BY <1>1, ExhaustedParts
<1>3. PICK x : x = Wrap(SlotInt(3) + SlotInt(5))
  OBVIOUS
<1>4. \/ Stacks(SetPick(Rewound, 3, IntTok(x)), Append(ostack, Pick(estack, 3)))
      \/ Stacks(Drop(estack, 7), ostack)
  BY <1>3 DEF NextFor
<1>a. CASE Stacks(SetPick(Rewound, 3, IntTok(x)), Append(ostack, Pick(estack, 3)))
  <2>1. Whole(program, Rewound) /\ Rewound # <<>> /\ Top(Rewound) = Top(estack)
    BY <1>1, RewoundParts
  <2>2. Tag(Top(Rewound)) \in LoopMarkers \ {"iloop"} /\ Tag(Top(Rewound)) \in {"irepeat", "ifor"}
    BY <1>2, <2>1 DEF LoopMarkers
  <2>3. Whole(program, SetPick(Rewound, 3, IntTok(x)))
    BY <2>1, <2>2, SetCounter
  <2>4. Value(Pick(estack, 3))
    <3>1. 3 \in 1..Size(Tag(Top(estack)))
      BY <1>2, Sizes
    <3> QED
      BY <1>2, <3>1, SlotValues
  <2>5. Values(Append(ostack, Pick(estack, 3)))
    BY <1>2, <2>4, ValuesAppend
  <2> QED
    BY <1>1, <1>a, <2>3, <2>5, FrameGoesOn
<1>b. CASE Stacks(Drop(estack, 7), ostack)
  <2>1. 7 = Size(Tag(Top(estack))) + 1
    BY <1>2, Sizes
  <2> QED
    BY <1>1, <1>2, <1>b, <2>1, FrameEnds
<1> QED
  BY <1>4, <1>a, <1>b

\* What the counters of the frame at the top count.
LEMMA TopContents ==
    ASSUME NEW g, NEW E, Whole(g, E), E # <<>>, Tag(Top(E)) \in IterMarkers
    PROVE  /\ Contents(E, Len(E)) /\ Tag(E[Len(E)]) = Tag(Top(E)) /\ Len(E) \in Nat
           /\ \A i \in 1..7 : Pick(E, i) = E[Len(E) - i]
<1>1. FrameOk(g, E, Len(E))
  BY TopFrame
<1>2. Len(E) \in Nat
  BY WholeStack
<1> QED
  BY <1>1, <1>2 DEF FrameOk, Top, Pick

LEMMA NextForallIsSound ==
    ASSUME Sound, NextForall
    PROVE  Sound'
<1>1. Exhausted({"iforall", "iforallstring"})
  BY DEF NextForall
<1>2. /\ Tag(Top(estack)) \in {"iforall", "iforallstring"} /\ Values(ostack)
      /\ Whole(program, estack) /\ estack # <<>> /\ Tag(Top(estack)) \in IterMarkers
  BY <1>1, ExhaustedParts
<1>3. PICK c : c = Pick(estack, 4)
  OBVIOUS
<1>4. PICK e : e = Data(c)
  OBVIOUS
<1>5. PICK i : i = SlotInt(3)
  OBVIOUS
<1>6. PICK x : x = i + 1
  OBVIOUS
<1>7. i \in Nat /\ x \in Nat
  <2>1. Contents(estack, Len(estack)) /\ Tag(estack[Len(estack)]) = Tag(Top(estack))
    BY <1>2, TopContents
  <2>2. Pick(estack, 3) = estack[Len(estack) - 3]
    BY <1>2, TopContents
  <2>3. i \in Nat
    BY <1>2, <1>5, <2>1, <2>2 DEF Contents, SlotInt
  <2> QED
    BY <1>6, <2>3
<1>8. Values(e)
  <2>1. 4 \in 1..Size(Tag(Top(estack)))
    BY <1>2, Sizes
  <2>2. Value(c) /\ c = estack[Len(estack) - 4]
    BY <1>2, <1>3, <2>1, SlotValues
  <2>3. HasElements(c)
    BY <1>2, <2>2, KindSlots DEF HasElements
  <2> QED
    BY <1>4, <2>2, <2>3, ElementsAreValues
<1>9. \/ /\ i < Len(e)
         /\ Stacks(SetPick(Rewound, 3, IntTok(x)), Append(ostack, e[x]))
      \/ Stacks(Drop(estack, 6), ostack)
  BY <1>3, <1>4, <1>5, <1>6 DEF NextForall
<1>a. CASE i < Len(e) /\ Stacks(SetPick(Rewound, 3, IntTok(x)), Append(ostack, e[x]))
  <2>1. Whole(program, Rewound) /\ Rewound # <<>> /\ Top(Rewound) = Top(estack)
    BY <1>1, RewoundParts
  <2>2. Tag(Top(Rewound)) \in LoopMarkers \ {"iloop"}
    BY <1>2, <2>1 DEF LoopMarkers
  <2>3. Whole(program, SetPick(Rewound, 3, IntTok(x)))
    BY <1>7, <2>1, <2>2, SetCounter
  <2>4. Value(e[x])
    <3>1. Len(e) \in Nat
      BY <1>8, StackLength DEF Values
    <3>2. x \in 1..Len(e)
      BY <1>6, <1>7, <1>a, <3>1
    <3> QED
      BY <1>8, <3>2 DEF Values
  <2>5. Values(Append(ostack, e[x]))
    BY <1>2, <2>4, ValuesAppend
  <2> QED
    BY <1>1, <1>a, <2>3, <2>5, FrameGoesOn
<1>b. CASE Stacks(Drop(estack, 6), ostack)
  <2>1. 6 = Size(Tag(Top(estack))) + 1
    BY <1>2, Sizes
  <2> QED
    BY <1>1, <1>2, <1>b, <2>1, FrameEnds
<1> QED
  BY <1>9, <1>a, <1>b

LEMMA TwoValues ==
    ASSUME NEW a, NEW b, Value(a), Value(b)
    PROVE  Values(<<a, b>>)
<1>1. PICK t : t = <<a, b>>
  OBVIOUS
<1>2. IsStack(t) /\ Len(t) = 2 /\ t[1] = a /\ t[2] = b
  BY <1>1, Tuple2
<1>3. \A i \in 1..2 : i = 1 \/ i = 2
  OBVIOUS
<1> QED
  BY <1>1, <1>2, <1>3 DEF Values

LEMMA NextForallindexedIsSound ==
    ASSUME Sound, NextForallindexed
    PROVE  Sound'
<1>1. Exhausted({"iforallindexedarray", "iforallindexedstring"})
  BY DEF NextForallindexed
<1>2. /\ Tag(Top(estack)) \in {"iforallindexedarray", "iforallindexedstring"} /\ Values(ostack)
      /\ Whole(program, estack) /\ estack # <<>> /\ Tag(Top(estack)) \in IterMarkers
  BY <1>1, ExhaustedParts
<1>3. PICK c : c = Pick(estack, 5)
  OBVIOUS
<1>4. PICK e : e = Data(c)
  OBVIOUS
<1>5. PICK i : i = SlotInt(3)
  OBVIOUS
<1>6. PICK x : x = i + 1
  OBVIOUS
<1>l. PICK l : l = SlotInt(4)
  OBVIOUS
<1>7. i \in Nat /\ x \in Nat /\ l \in Nat /\ l <= Len(e)
  <2>1. Contents(estack, Len(estack)) /\ Tag(estack[Len(estack)]) = Tag(Top(estack))
    BY <1>2, TopContents
  <2>2. /\ Pick(estack, 3) = estack[Len(estack) - 3] /\ Pick(estack, 4) = estack[Len(estack) - 4]
        /\ Pick(estack, 5) = estack[Len(estack) - 5]
    BY <1>2, TopContents
  <2>3. i \in Nat /\ l \in Nat /\ l <= Len(e)
    BY <1>2, <1>3, <1>4, <1>5, <1>l, <2>1, <2>2 DEF Contents, SlotInt
  <2> QED
    BY <1>6, <2>3
<1>8. Values(e)
  <2>1. 5 \in 1..Size(Tag(Top(estack)))
    BY <1>2, Sizes
  <2>2. Value(c) /\ c = estack[Len(estack) - 5]
    BY <1>2, <1>3, <2>1, SlotValues
  <2>3. HasElements(c)
    BY <1>2, <2>2, KindSlots DEF HasElements
  <2> QED
    BY <1>4, <2>2, <2>3, ElementsAreValues
<1>9. \/ /\ i < l
         /\ Stacks(SetPick(Rewound, 3, IntTok(x)), ostack \o <<e[x], IntTok(i)>>)
      \/ Stacks(Drop(estack, 7), ostack)
  BY <1>3, <1>4, <1>5, <1>6, <1>l DEF NextForallindexed
<1>a. CASE i < l /\ Stacks(SetPick(Rewound, 3, IntTok(x)), ostack \o <<e[x], IntTok(i)>>)
  <2>1. Whole(program, Rewound) /\ Rewound # <<>> /\ Top(Rewound) = Top(estack)
    BY <1>1, RewoundParts
  <2>2. Tag(Top(Rewound)) \in LoopMarkers \ {"iloop"}
    BY <1>2, <2>1 DEF LoopMarkers
  <2>3. Whole(program, SetPick(Rewound, 3, IntTok(x)))
    BY <1>7, <2>1, <2>2, SetCounter
  <2>4. Value(e[x])
    <3>1. Len(e) \in Nat
      BY <1>8, StackLength DEF Values
    <3>2. x \in 1..Len(e)
      BY <1>6, <1>7, <1>a, <3>1
    <3> QED
      BY <1>8, <3>2 DEF Values
  <2>5. Values(<<e[x], IntTok(i)>>)
    BY <2>4, AtomsAreValues, TwoValues
  <2>6. Values(ostack \o <<e[x], IntTok(i)>>)
    BY <1>2, <2>5, ValuesConcat
  <2> QED
    BY <1>1, <1>a, <2>3, <2>6, FrameGoesOn
<1>b. CASE Stacks(Drop(estack, 7), ostack)
  <2>1. 7 = Size(Tag(Top(estack))) + 1
    BY <1>2, Sizes
  <2> QED
    BY <1>1, <1>2, <1>b, <2>1, FrameEnds
<1> QED
  BY <1>9, <1>a, <1>b

LEMMA ValuesExcept ==
    ASSUME NEW s, Values(s), NEW x, Value(x), NEW i
    PROVE  Values([s EXCEPT ![i] = x]) /\ Len([s EXCEPT ![i] = x]) = Len(s)
<1>1. PICK S : s \in Seq(S)
  BY DEF Values, IsStack
<1>2. s \in Seq(S \cup {x})
  BY <1>1
<1>3. PICK w : w = [s EXCEPT ![i] = x]
  OBVIOUS
<1>4. /\ w = [k \in DOMAIN s |-> w[k]] /\ DOMAIN s = 1..Len(s) /\ Len(s) \in Nat
      /\ \A k \in DOMAIN s : w[k] = s[k] \/ w[k] = x
  <2>1. w = [k \in DOMAIN s |-> IF k = i THEN x ELSE s[k]]
    BY <1>3, Zenon
  <2>2. DOMAIN s = 1..Len(s) /\ Len(s) \in Nat
    BY <1>1
  <2>3. \A k \in DOMAIN s : w[k] = IF k = i THEN x ELSE s[k]
    BY <2>1
  <2>4. w = [k \in DOMAIN s |-> w[k]]
    BY <2>1
  <2> QED
    BY <2>2, <2>3, <2>4
<1>5. \A k \in 1..Len(s) : w[k] \in S \cup {x}
  BY <1>2, <1>4
<1>6. w \in Seq(S \cup {x}) /\ Len(w) = Len(s)
  <2>1. w = [k \in 1..Len(s) |-> w[k]]
    BY <1>4
  <2>2. [k \in 1..Len(s) |-> w[k]] \in Seq(S \cup {x}) /\ Len([k \in 1..Len(s) |-> w[k]]) = Len(s)
    BY <1>4, <1>5
  <2> QED
    BY <2>1, <2>2
<1>7. \A k \in 1..Len(w) : Value(w[k])
  BY <1>4, <1>6 DEF Values
<1> QED
  BY <1>3, <1>6, <1>7 DEF Values, IsStack

\* The arms of the Map family.  The operand that holds the array is below
\* the load that the frame has saved.
MapMarkers == {"imap", "imapindexed", "imapthread"}
MapTarget == Data(Pick(estack, 4))

LEMMA MapParts ==
    ASSUME NEW S, S \subseteq MapMarkers, Sound, Exhausted(S)
    PROVE  /\ Values(MapTarget) /\ Len(MapTarget) \in Nat /\ Len(MapTarget) > 0
           /\ DOMAIN MapTarget = 1..Len(MapTarget) /\ SlotInt(3) \in Nat
           /\ MapTarget = Data(estack[Len(estack) - 4]) /\ Len(estack) \in Nat
           /\ Tag(Top(estack)) \in {"imap", "imapindexed"} => SlotInt(5) \in Nat \ {0}
           /\ Tag(Top(estack)) = "imapthread" =>
                 SlotInt(6) \in Nat \ {0} /\ Rows(Data(Pick(estack, 5)), MapTarget)
<1>1. /\ Tag(Top(estack)) \in MapMarkers /\ Whole(program, estack) /\ estack # <<>>
      /\ Tag(Top(estack)) \in IterMarkers
  BY ExhaustedParts
<1>2. /\ Contents(estack, Len(estack)) /\ Tag(estack[Len(estack)]) = Tag(Top(estack))
      /\ Len(estack) \in Nat
      /\ Pick(estack, 3) = estack[Len(estack) - 3] /\ Pick(estack, 4) = estack[Len(estack) - 4]
      /\ Pick(estack, 5) = estack[Len(estack) - 5] /\ Pick(estack, 6) = estack[Len(estack) - 6]
  BY <1>1, TopContents
<1>3. Value(Pick(estack, 4)) /\ Tag(Pick(estack, 4)) = "array"
  <2>1. 4 \in 1..Size(Tag(Top(estack)))
    BY <1>1, Sizes DEF MapMarkers
  <2>2. Value(Pick(estack, 4))
    BY <1>1, <2>1, SlotValues
  <2> QED
    BY <1>1, <1>2, <2>2, KindSlots DEF MapMarkers
<1>4. Values(MapTarget) /\ Len(MapTarget) \in Nat /\ DOMAIN MapTarget = 1..Len(MapTarget)
  <2>1. PICK e : e = Data(Pick(estack, 4))
    OBVIOUS
  <2>2. Values(e)
    BY <1>3, <2>1, ElementsAreValues DEF HasElements
  <2>3. Len(e) \in Nat /\ DOMAIN e = 1..Len(e)
    BY <2>2, StackLength DEF Values
  <2> QED
    BY <2>1, <2>2, <2>3 DEF MapTarget
<1> QED
  BY <1>1, <1>2, <1>4 DEF MapMarkers, Contents, SlotInt, MapTarget

LEMMA NextMappedIsSound ==
    ASSUME NEW S, S \subseteq MapMarkers, Sound, Exhausted(S),
           NEW slot, SlotInt(slot) \in Nat \ {0},
           NEW size, size = Size(Tag(Top(estack))) + 1,
           NEW feed, \A i \in 1..Len(MapTarget) : Values(feed[i]),
           NextMapped(slot, size, feed)
    PROVE  Sound'
<1>1. /\ Tag(Top(estack)) \in MapMarkers /\ Whole(program, estack) /\ estack # <<>>
      /\ Values(ostack) /\ UNCHANGED program /\ Fine /\ Settled' /\ Placed'
  BY ExhaustedParts
<1>2. PICK target : target = MapTarget
  OBVIOUS
<1>3. PICK idx : idx = SlotInt(3)
  OBVIOUS
<1>4. PICK saved : saved = SlotInt(slot)
  OBVIOUS
<1>5. PICK n : n = Len(target)
  OBVIOUS
<1>6. /\ Values(target) /\ n \in Nat /\ n > 0 /\ idx \in Nat /\ saved \in Nat \ {0}
      /\ target = Data(estack[Len(estack) - 4]) /\ Len(estack) \in Nat
  BY <1>2, <1>3, <1>4, <1>5, MapParts
<1>7. PICK written : written = IF idx > 0 THEN [target EXCEPT ![idx] = Last(ostack)] ELSE target
  OBVIOUS
<1>8. PICK rest : rest = IF idx > 0 THEN Drop(ostack, 1) ELSE ostack
  OBVIOUS
<1>9. PICK x : x = idx + 1
  OBVIOUS
<1>10. PICK f : f = feed[x]
  OBVIOUS
<1>11. \/ \E c, e : RaiseIn(estack, c, e)
       \/ /\ idx > 0 => Len(ostack) = saved + 1
          /\ idx < n
          /\ Stacks(SetPick(SetPick(Rewound, 4, Array(written)), 3, IntTok(x)), rest \o f)
       \/ /\ idx > 0 => Len(ostack) = saved + 1
          /\ ~(idx < n)
          /\ Stacks(Drop(estack, size), SetPick(rest, 0, Array(written)))
  BY <1>2, <1>3, <1>4, <1>5, <1>7, <1>8, <1>9, <1>10 DEF NextMapped, OneResult, MapTarget
<1>a. CASE \E c, e : RaiseIn(estack, c, e)
  <2>1. Kept'
    BY <1>1, <1>a, RaiseInKeeps
  <2> QED
    BY <1>1, <2>1 DEF Sound
<1>12. ASSUME idx > 0 => Len(ostack) = saved + 1
       PROVE  /\ Values(written) /\ Len(written) = n
              /\ Values(rest) /\ (idx > 0 => Len(rest) > 0)
  <2>a. CASE idx > 0
    <3>1. Len(ostack) = saved + 1 /\ Len(ostack) >= 1 /\ Len(ostack) > 0
      BY <1>6, <1>12, <2>a
    <3>2. Value(Last(ostack))
      BY <1>1, <3>1, OperandValues
    <3>3. Values(Drop(ostack, 1)) /\ Len(Drop(ostack, 1)) = Len(ostack) - 1
      BY <1>1, <3>1, TakeOperands
    <3>4. Len(ostack) - 1 > 0
      BY <1>6, <3>1
    <3>5. PICK y : y = Last(ostack)
      OBVIOUS
    <3>6. Values([target EXCEPT ![idx] = y]) /\ Len([target EXCEPT ![idx] = y]) = n
      BY <1>5, <1>6, <3>2, <3>5, ValuesExcept
    <3> QED
      BY <1>7, <1>8, <2>a, <3>3, <3>4, <3>5, <3>6
  <2>b. CASE ~(idx > 0)
    BY <1>1, <1>5, <1>6, <1>7, <1>8, <2>b
  <2> QED
    BY <2>a, <2>b
<1>b. CASE /\ idx > 0 => Len(ostack) = saved + 1
           /\ idx < n
           /\ Stacks(SetPick(SetPick(Rewound, 4, Array(written)), 3, IntTok(x)), rest \o f)
  <2>1. /\ Whole(program, Rewound) /\ Rewound # <<>> /\ Top(Rewound) = Top(estack)
        /\ Len(Rewound) = Len(estack)
        /\ \A i \in 1..Len(estack) : i # Len(estack) - 1 => Rewound[i] = estack[i]
    BY RewoundParts
  <2>2. Rewound[Len(estack) - 4] = estack[Len(estack) - 4]
    <3>1. /\ Start(estack, Len(estack)) = Len(estack) - Size(Tag(Top(estack)))
          /\ Start(estack, Len(estack)) \in 1..(Len(estack) - 2)
      BY <1>1, TopFrame DEF MapMarkers, IterMarkers, LoopMarkers
    <3>2. Size(Tag(Top(estack))) \in {6, 7}
      BY <1>1, Sizes DEF MapMarkers
    <3>3. Len(estack) - 4 \in 1..Len(estack) /\ Len(estack) - 4 # Len(estack) - 1
      BY <1>6, <3>1, <3>2
    <3> QED
      BY <2>1, <3>3
  <2>3. Values(written) /\ Len(written) = Len(Data(Rewound[Len(Rewound) - 4]))
    BY <1>5, <1>6, <1>12, <1>b, <2>1, <2>2
  <2>4. PICK G : G = SetPick(Rewound, 4, Array(written))
    OBVIOUS
  <2>5. Whole(program, G) /\ G # <<>> /\ Top(G) = Top(estack)
    BY <1>1, <2>1, <2>3, <2>4, SetResults DEF MapMarkers
  <2>6. x \in Nat /\ x \in 1..n
    BY <1>6, <1>9, <1>b
  <2>7. Whole(program, SetPick(G, 3, IntTok(x)))
    <3>1. Tag(Top(G)) \in LoopMarkers \ {"iloop"}
      BY <1>1, <2>5 DEF MapMarkers, LoopMarkers
    <3> QED
      BY <2>5, <2>6, <3>1, SetCounter
  <2>8. Values(f)
    BY <1>2, <1>5, <1>10, <2>6
  <2>9. Values(rest \o f)
    BY <1>12, <1>b, <2>8, ValuesConcat
  <2>10. Stacks(SetPick(G, 3, IntTok(x)), rest \o f)
    BY <1>b, <2>4
  <2> QED
    BY <2>7, <2>9, <2>10, FrameGoesOn
<1>c. CASE /\ idx > 0 => Len(ostack) = saved + 1
           /\ ~(idx < n)
           /\ Stacks(Drop(estack, size), SetPick(rest, 0, Array(written)))
  <2>1. idx > 0
    BY <1>6, <1>c
  <2>2. Values(written) /\ Values(rest) /\ Len(rest) > 0
    BY <1>12, <1>c, <2>1
  <2>3. Values(SetPick(rest, 0, Array(written)))
    BY <2>2, ArrayIsValue, ValuesSetPick
  <2> QED
    BY <1>c, <2>3, FrameEnds
<1> QED
  BY <1>11, <1>a, <1>b, <1>c

LEMMA OneValue ==
    ASSUME NEW a, Value(a)
    PROVE  Values(<<a>>)
<1>1. PICK t : t = <<a>>
  OBVIOUS
<1>2. IsStack(t) /\ Len(t) = 1 /\ t[1] = a
  BY <1>1, Tuple1
<1>3. \A i \in 1..1 : i = 1
  OBVIOUS
<1> QED
  BY <1>1, <1>2, <1>3 DEF Values

LEMMA NextMapIsSound ==
    ASSUME Sound, NextMap
    PROVE  Sound'
<1>1. Exhausted({"imap"}) /\ {"imap"} \subseteq MapMarkers
  BY DEF NextMap, MapMarkers
<1>2. Tag(Top(estack)) = "imap"
  BY <1>1, ExhaustedParts
<1>3. PICK feed : feed = [i \in MapRounds |-> <<Element(i)>>]
  OBVIOUS
<1>4. \A i \in 1..Len(MapTarget) : Values(feed[i])
  <2> TAKE i \in 1..Len(MapTarget)
  <2>1. i \in MapRounds /\ Value(MapTarget[i])
    BY <1>1, MapParts DEF MapRounds, MapTarget, Values
  <2>2. Values(<<MapTarget[i]>>)
    BY <2>1, OneValue
  <2>3. feed[i] = <<MapTarget[i]>>
    BY <1>3, <2>1 DEF Element, MapTarget
  <2> QED
    BY <2>2, <2>3
<1>5. SlotInt(5) \in Nat \ {0} /\ 7 = Size(Tag(Top(estack))) + 1
  BY <1>1, <1>2, MapParts, Sizes
<1>6. NextMapped(5, 7, feed)
  BY <1>3 DEF NextMap
<1> QED
  BY <1>1, <1>4, <1>5, <1>6, NextMappedIsSound

LEMMA NextMapIndexedIsSound ==
    ASSUME Sound, NextMapIndexed
    PROVE  Sound'
<1>1. Exhausted({"imapindexed"}) /\ {"imapindexed"} \subseteq MapMarkers
  BY DEF NextMapIndexed, MapMarkers
<1>2. Tag(Top(estack)) = "imapindexed"
  BY <1>1, ExhaustedParts
<1>3. PICK feed : feed = [i \in MapRounds |-> <<Element(i), IntTok(i)>>]
  OBVIOUS
<1>4. \A i \in 1..Len(MapTarget) : Values(feed[i])
  <2> TAKE i \in 1..Len(MapTarget)
  <2>1. i \in MapRounds /\ Value(MapTarget[i])
    BY <1>1, MapParts DEF MapRounds, MapTarget, Values
  <2>2. Values(<<MapTarget[i], IntTok(i)>>)
    BY <2>1, TwoValues, AtomsAreValues
  <2>3. feed[i] = <<MapTarget[i], IntTok(i)>>
    BY <1>3, <2>1 DEF Element, MapTarget
  <2> QED
    BY <2>2, <2>3
<1>5. SlotInt(5) \in Nat \ {0} /\ 7 = Size(Tag(Top(estack))) + 1
  BY <1>1, <1>2, MapParts, Sizes
<1>6. NextMapped(5, 7, feed)
  BY <1>3 DEF NextMapIndexed
<1> QED
  BY <1>1, <1>4, <1>5, <1>6, NextMappedIsSound

\* One element of every row.
LEMMA RowElements ==
    ASSUME NEW sources, Values(sources), NEW target, Rows(sources, target), Len(target) \in Nat,
           NEW i, i \in 1..Len(target)
    PROVE  Values([r \in DOMAIN sources |-> Data(sources[r])[i]])
<1>1. PICK l : l = Len(sources)
  OBVIOUS
<1>2. l \in Nat /\ DOMAIN sources = 1..l
  BY <1>1, StackLength DEF Values
<1>3. \A r \in 1..l : Value(Data(sources[r])[i])
  <2> TAKE r \in 1..l
  <2>1. Value(sources[r]) /\ Tag(sources[r]) = "array" /\ Len(Data(sources[r])) = Len(target)
    BY <1>1 DEF Values, Rows
  <2>2. Values(Data(sources[r]))
    BY <2>1, ElementsAreValues DEF HasElements
  <2> QED
    BY <2>1, <2>2 DEF Values
<1>4. PICK w : w = [r \in 1..l |-> Data(sources[r])[i]]
  OBVIOUS
<1>5. w \in Seq({Data(sources[r])[i] : r \in 1..l}) /\ Len(w) = l
  BY <1>2, <1>4
<1>6. \A r \in 1..l : w[r] = Data(sources[r])[i]
  BY <1>4
<1>7. Values(w)
  BY <1>3, <1>5, <1>6 DEF Values, IsStack
<1> QED
  BY <1>2, <1>4, <1>7

LEMMA NextMapThreadIsSound ==
    ASSUME Sound, NextMapThread
    PROVE  Sound'
<1>1. Exhausted({"imapthread"}) /\ {"imapthread"} \subseteq MapMarkers
  BY DEF NextMapThread, MapMarkers
<1>2. /\ Tag(Top(estack)) = "imapthread" /\ Whole(program, estack) /\ estack # <<>>
      /\ Tag(Top(estack)) \in IterMarkers
  BY <1>1, ExhaustedParts
<1>3. PICK sources : sources = Data(Pick(estack, 5))
  OBVIOUS
<1>4. PICK feed : feed = [i \in MapRounds |-> [r \in DOMAIN sources |-> Data(sources[r])[i]]]
  OBVIOUS
<1>5. Values(sources)
  <2>1. 5 \in 1..Size(Tag(Top(estack)))
    BY <1>2, Sizes
  <2>2. Value(Pick(estack, 5)) /\ Pick(estack, 5) = estack[Len(estack) - 5]
    BY <1>2, <2>1, SlotValues
  <2>3. Tag(Pick(estack, 5)) = "array"
    BY <1>2, <2>2, KindSlots
  <2> QED
    BY <1>3, <2>2, <2>3, ElementsAreValues DEF HasElements
<1>6. /\ Rows(sources, MapTarget) /\ SlotInt(6) \in Nat \ {0} /\ Len(MapTarget) \in Nat
      /\ DOMAIN MapTarget = 1..Len(MapTarget)
  BY <1>1, <1>2, <1>3, MapParts
<1>7. \A i \in 1..Len(MapTarget) : Values(feed[i])
  <2> TAKE i \in 1..Len(MapTarget)
  <2>1. i \in MapRounds
    BY <1>6 DEF MapRounds, MapTarget
  <2>2. Values([r \in DOMAIN sources |-> Data(sources[r])[i]])
    BY <1>5, <1>6, RowElements
  <2> QED
    BY <1>4, <2>1, <2>2
<1>8. 8 = Size(Tag(Top(estack))) + 1
  BY <1>2, Sizes
<1>9. NextMapped(6, 8, feed)
  BY <1>3, <1>4 DEF NextMapThread
<1> QED
  BY <1>1, <1>6, <1>7, <1>8, <1>9, NextMappedIsSound

-----------------------------------------------------------------------------
(* Every step *)

LEMMA ResumeIsSound ==
    ASSUME Sound, Resume
    PROVE  Sound'
<1>1. /\ pc = "resume" /\ Quiet /\ UNCHANGED <<estack, ostack, error, dlevel, bound, current_op>>
      /\ \/ estack # <<>> /\ Tag(Last(estack)) \in IterMarkers /\ pc' = "walk"
         \/ pc' = "dispatch"
         \/ estack = <<>> /\ pc' = "wild"
  BY DEF Resume, Goto
<1>2. UNCHANGED setting
  BY <1>1 DEF Quiet
<1>3. current_op = NoOp
  BY <1>1, OpIsUnset
<1>4. estack # <<>> => Last(estack) = Top(estack)
  BY <1>2, SoundParts
<1>5. Settled'
  BY <1>1, SettledStays DEF Sound
<1>6. Kept'
  BY <1>1, <1>2 DEF setting, Sound, Kept, Fine, Recorded
<1>a. CASE estack # <<>> /\ Tag(Last(estack)) \in IterMarkers /\ pc' = "walk"
  <2>1. Placed'
    BY <1>1, <1>3, <1>4, <1>a, WalksIsPlaced DEF Walks, AtFrame, Top
  <2> QED
    BY <1>5, <1>6, <2>1 DEF Sound
<1>b. CASE pc' = "dispatch"
  <2>1. Placed'
    BY <1>1, <1>3, <1>b, ContinuesIsPlaced DEF Continues
  <2> QED
    BY <1>5, <1>6, <2>1 DEF Sound
<1>c. CASE estack = <<>> /\ pc' = "wild"
  <2>1. Placed'
    BY <1>1, <1>3, <1>c DEF Placed, Places, StaleOpIsUnwinding
  <2> QED
    BY <1>5, <1>6, <2>1 DEF Sound
<1> QED
  BY <1>1, <1>a, <1>b, <1>c

LEMMA ArmIsSound ==
    ASSUME Sound, Arm
    PROVE  Sound'
<1>1. CASE TakeSignal
  BY <1>1, TakeSignalIsSound
<1>2. CASE Halt
  BY <1>2, HaltIsSound
<1>3. CASE DispatchData
  BY <1>3, DispatchDataIsSound
<1>4. CASE DispatchName
  BY <1>4, DispatchNameIsSound
<1>5. CASE DispatchTrie
  BY <1>5, DispatchTrieIsSound
<1>6. CASE DispatchLitproc
  BY <1>6, DispatchLitprocIsSound
<1>7. CASE DispatchFunction
  BY <1>7, DispatchFunctionIsSound
<1>8. CASE DispatchProcedure
  BY <1>8, DispatchProcedureIsSound
<1>9. CASE DispatchIter
  BY <1>9, DispatchIterIsSound
<1>10. CASE Quit
  BY <1>10, QuitIsSound
<1>11. CASE Iparse
  BY <1>11, IparseIsSound
<1>12. CASE WalkEnd
  BY <1>12, WalkEndIsSound
<1>13. CASE WalkData
  BY <1>13, WalkDataIsSound
<1>14. CASE WalkTail
  BY <1>14, WalkTailIsSound
<1>15. CASE WalkFunction
  BY <1>15, WalkFunctionIsSound
<1>16. CASE WalkName
  BY <1>16, WalkNameIsSound
<1>17. CASE WalkLitproc
  BY <1>17, WalkLitprocIsSound
<1>18. CASE WalkPush
  BY <1>18, WalkPushIsSound
<1>19. CASE LeaveForSignal
  BY <1>19, LeaveForSignalIsSound
<1>20. CASE EndProcedure
  BY <1>20, EndProcedureIsSound
<1>21. CASE NextRepeat
  BY <1>21, NextRepeatIsSound
<1>22. CASE NextFor
  BY <1>22, NextForIsSound
<1>23. CASE NextLoop
  BY <1>23, NextLoopIsSound
<1>24. CASE NextForall
  BY <1>24, NextForallIsSound
<1>25. CASE NextForallindexed
  BY <1>25, NextForallindexedIsSound
<1>26. CASE NextMap
  BY <1>26, NextMapIsSound
<1>27. CASE NextMapIndexed
  BY <1>27, NextMapIndexedIsSound
<1>28. CASE NextMapThread
  BY <1>28, NextMapThreadIsSound
<1>29. CASE Resume
  BY <1>29, ResumeIsSound
<1> QED
  BY <1>1, <1>2, <1>3, <1>4, <1>5, <1>6, <1>7, <1>8, <1>9, <1>10, <1>11, <1>12, <1>13, <1>14,
     <1>15, <1>16, <1>17, <1>18, <1>19, <1>20, <1>21, <1>22, <1>23, <1>24, <1>25, <1>26,
     <1>27, <1>28, <1>29 DEF Arm

LEMMA SignalArrivesIsSound ==
    ASSUME Sound, SignalArrives
    PROVE  Sound'
<1>1. Kept' /\ Placed'
  BY DEF SignalArrives, Sound, Kept, Fine, Recorded, Placed, Places, AtFrame, Top,
         StaleOpIsUnwinding
<1>2. Settled'
  <2>1. program \in Programs /\ Supply(input) /\ signals \in 0..program.signals
    BY DEF Sound, Settled
  <2>2. program.signals \in Nat
    BY <2>1, ProgramParts
  <2>3. signals' \in 0..program.signals
    BY <2>1, <2>2 DEF SignalArrives
  <2> QED
    BY <2>1, <2>3 DEF SignalArrives, Settled
<1> QED
  BY <1>1, <1>2 DEF Sound

LEMMA StutterIsSound ==
    ASSUME Sound, UNCHANGED vars
    PROVE  Sound'
BY DEF vars, Sound, Settled, Kept, Fine, Recorded, Placed, Places, AtFrame, Top,
       StaleOpIsUnwinding

LEMMA StepIsSound == Sound /\ [Next]_vars => Sound'
<1> SUFFICES ASSUME Sound, [Next]_vars PROVE Sound'
  OBVIOUS
<1>1. CASE Step
  BY <1>1, ArmIsSound DEF Step
<1>2. CASE SignalArrives
  BY <1>2, SignalArrivesIsSound
<1>3. CASE Ended
  BY <1>3, StutterIsSound DEF Ended
<1>4. CASE UNCHANGED vars
  BY <1>4, StutterIsSound
<1> QED
  BY <1>1, <1>2, <1>3, <1>4 DEF Next

-----------------------------------------------------------------------------
(* The start *)

LEMMA BottomIsWhole ==
    ASSUME NEW g, NEW a, NEW b, Slot(a), Value(b) \/ b = NameTok(Parse),
           Tag(a) \in {"xistream", "quit"}, Tag(b) = "name",
           b = NameTok(Parse) => Tag(a) = "xistream", NEW E, E = <<a, b>>
    PROVE  Whole(g, E)
<1>1. IsStack(E) /\ Len(E) = 2 /\ E[1] = a /\ E[2] = b
  BY Tuple2
<1>2. \A i \in 1..2 : i = 1 \/ i = 2
  OBVIOUS
<1>3. \A i \in 1..Len(E) : Tag(E[i]) \in {"xistream", "quit", "name"}
  BY <1>1, <1>2
<1>4. Frames(g, E) /\ Marks(E)
  BY <1>3 DEF Frames, Marks, IterMarkers, LoopMarkers
<1>5. Waiting(g, E)
  <2>1. \A i \in 1..(Len(E) - 1) : i \in 1..Len(E)
    BY <1>1
  <2> QED
    BY <1>3, <2>1 DEF Waiting, Unspent
<1>6. Parsers(E)
  <2> SUFFICES ASSUME NEW i \in 1..Len(E), Tag(E[i]) = "iparse" \/ E[i] = NameTok(Parse)
               PROVE  i > 1 /\ Tag(E[i-1]) = "xistream"
    BY DEF Parsers
  <2>1. Tag(NameTok(Parse)) = "name"
    BY TokenParts
  <2>2. i = 2
    BY <1>1, <1>2, <2>1
  <2>3. b = NameTok(Parse)
    BY <1>1, <2>2
  <2> QED
    BY <1>1, <2>2, <2>3
<1>7. Slot(a) /\ Slot(b)
  BY DEF Slot
<1> QED
  BY <1>1, <1>2, <1>4, <1>5, <1>6, <1>7 DEF Whole

LEMMA InitIsSound == Init => Sound
<1> SUFFICES ASSUME Init PROVE Sound
  OBVIOUS
<1>1. program \in Programs
  BY DEF Init
<1>2. Settled
  <2>1. Supply(input)
    BY <1>1, ProgramParts DEF Init, Supply
  <2>2. program.signals \in Nat
    BY <1>1, ProgramParts
  <2>3. PICK n \in Nat : n = program.signals
    BY <2>2
  <2>4. signals = 0 /\ signalflag = FALSE
    BY DEF Init
  <2>5. 0 \in 0..n
    BY <2>3
  <2>6. signals \in 0..n
    BY <2>4, <2>5, Zenon
  <2>7. signalflag \in BOOLEAN
    BY <2>4, Zenon
  <2> QED
    BY <1>1, <2>1, <2>3, <2>6, <2>7 DEF Settled
<1>3. Whole(program, estack)
  <2>1. PICK a : a = <<"xistream", 0>>
    OBVIOUS
  <2>2. PICK b : b = NameTok(Parse)
    OBVIOUS
  <2>3. PICK c : c = Marker("quit")
    OBVIOUS
  <2>4. PICK d : d = NameTok("start")
    OBVIOUS
  <2>5. Tag(a) = "xistream" /\ Slot(a) /\ Tag(b) = "name" /\ Tag(c) = "quit" /\ Tag(d) = "name"
    <3>1. Tag(a) = "xistream"
      BY <2>1 DEF Tag
    <3>2. Slot(a)
      BY <3>1 DEF Slot
    <3> QED
      BY <2>2, <2>3, <2>4, <3>1, <3>2, TokenParts
  <2>6. Value(c) /\ Value(d)
    BY <2>3, <2>4, AtomsAreValues DEF Parse
  <2>7. Slot(c) /\ d # NameTok(Parse)
    BY <2>6, ValueTags
  <2>8. Whole(program, <<a, b>>)
    BY <2>2, <2>5, BottomIsWhole
  <2>9. Whole(program, <<c, d>>)
    BY <2>5, <2>6, <2>7, BottomIsWhole
  <2>10. estack = <<a, b>> \/ estack = <<c, d>>
    BY <2>1, <2>2, <2>3, <2>4 DEF Init
  <2> QED
    BY <2>8, <2>9, <2>10
<1>4. Fine
  <2>1. Values(ostack)
    <3>1. ostack \in Seq({}) /\ Len(ostack) = 0
      BY DEF Init
    <3> QED
      BY <3>1 DEF Values, IsStack
  <2>2. Recorded
    BY DEF Init, Recorded
  <2> QED
    BY <2>1, <2>2 DEF Init, Fine
<1>5. Placed
  BY DEF Init, Placed, Places, StaleOpIsUnwinding
<1> QED
  BY <1>2, <1>3, <1>4, <1>5 DEF Sound, Kept

\* The dispatcher keeps its stacks as the invariant describes them: frames
\* whole and apart, marks at the bottoms, procedures that wait unspent.
THEOREM DispatcherIsSound == Spec => []Sound
<1>1. Init => Sound
  BY InitIsSound
<1>2. Sound /\ [Next]_vars => Sound'
  BY StepIsSound
<1> QED
  BY <1>1, <1>2, PTL DEF Spec

-----------------------------------------------------------------------------
(* What it implies *)

LEMMA SoundIsTyped == Sound => TypeOK
<1> SUFFICES ASSUME Sound PROVE TypeOK
  OBVIOUS
<1>1. \A i \in DOMAIN estack : Tag(estack[i]) \in Tags
  <2> SUFFICES ASSUME NEW i \in DOMAIN estack PROVE Tag(estack[i]) \in Tags
    OBVIOUS
  <2>1. IsStack(estack) /\ \A k \in 1..Len(estack) : Slot(estack[k])
    BY DEF Sound, Kept, Whole
  <2>2. i \in 1..Len(estack)
    BY <2>1, StackLength
  <2>3. Slot(estack[i])
    BY <2>1, <2>2
  <2>a. CASE Value(estack[i])
    BY <2>a, ValueTags
  <2>b. CASE Tag(estack[i]) \in IterMarkers \cup {"iparse", "xistream"}
    BY <2>b DEF Tags, ExecTags
  <2>c. CASE estack[i] = NameTok(Parse)
    BY <2>c, TokenParts DEF Tags, ExecTags
  <2> QED
    BY <2>3, <2>a, <2>b, <2>c DEF Slot
<1>2. \A i \in DOMAIN ostack : Tag(ostack[i]) \in Tags \ IterMarkers
  <2> SUFFICES ASSUME NEW i \in DOMAIN ostack PROVE Tag(ostack[i]) \in Tags \ IterMarkers
    OBVIOUS
  <2>1. Values(ostack)
    BY DEF Sound, Kept, Fine
  <2>2. i \in 1..Len(ostack)
    BY <2>1, StackLength DEF Values
  <2>3. Value(ostack[i])
    BY <2>1, <2>2 DEF Values
  <2> QED
    BY <2>3, ValueTags
<1> QED
  BY <1>1, <1>2 DEF Sound, Settled, Placed, Places, Kept, Fine, Recorded, TypeOK

\* Every place on the execution and the operand stack holds a token of a kind
\* that may be there, and no iteration marker ever gets among the operands.
THEOREM DispatcherTypes == Spec => []TypeOK
<1>1. Spec => []Sound
  BY DispatcherIsSound
<1>2. Sound => TypeOK
  BY SoundIsTyped
<1> QED
  BY <1>1, <1>2, PTL

LEMMA SoundIsWhole == Sound => FramesWhole
<1> SUFFICES ASSUME Sound PROVE FramesWhole
  OBVIOUS
<1>1. /\ IsStack(estack) /\ Frames(program, estack) /\ Marks(estack)
      /\ \A i \in 1..Len(estack) : Slot(estack[i])
  BY DEF Sound, Kept, Whole
<1>2. program \in Programs
  BY DEF Sound, Settled
<1>3. DOMAIN estack = 1..Len(estack) /\ Len(estack) \in Nat /\ (estack = <<>> <=> Len(estack) = 0)
  BY <1>1, StackLength
<1>4. ASSUME NEW i \in 1..Len(estack), Tag(estack[i]) \in IterMarkers
      PROVE  /\ HasLayout(estack, FrameStart(i), Layout[Tag(estack[i])])
             /\ Data(estack[i-1]) \in 0..Len(Body(Data(estack[i-2])))
  <2>1. FrameOk(program, estack, i)
    BY <1>1, <1>4 DEF Frames
  <2>2. /\ Start(estack, i) \in 1..(i-2) /\ Tag(estack[i-2]) = "procedure"
    BY <1>1, <1>4, <2>1, FrameSlots
  <2>3. PICK k : k = i - 2
    OBVIOUS
  <2>4. k \in 1..Len(estack)
    BY <1>3, <2>2, <2>3
  <2>5. Value(estack[k])
    BY <1>1, <2>2, <2>3, <2>4, SlotIsValue DEF IterMarkers, LoopMarkers
  <2>6. Data(estack[k]) \in Procedures
    BY <2>2, <2>3, <2>5, ValueIsPlain DEF Plain
  <2>7. Len(Body(Data(estack[k]))) = Len(program.body[Data(estack[k])])
    BY <1>2, <2>6, BodyParts
  <2>8. FrameStart(i) = Start(estack, i)
    BY DEF FrameStart, Start, Size
  <2> QED
    BY <2>1, <2>3, <2>7, <2>8 DEF FrameOk
<1>5. ASSUME NEW i \in 1..Len(estack), Tag(estack[i]) = "mark"
      PROVE  \/ \E j \in DOMAIN estack : Tag(estack[j]) \in LoopMarkers /\ FrameStart(j) = i
             \/ i = Len(estack) /\ pc \in {"dispatch", "resume"}
             \/ i < Len(estack) /\ estack[i+1] = Fn("stop")
  <2>1. i = Len(estack) \/ (i # Len(estack) /\ estack[i+1] = Fn("stop")) \/ Begins(estack, i)
    BY <1>1, <1>5 DEF Marks
  <2>a. CASE i = Len(estack)
    <3>1. Tag(Top(estack)) = "mark" /\ estack # <<>>
      BY <1>3, <1>5, <2>a DEF Top
    <3>2. pc \notin {"walk", "exhausted"}
      BY <3>1 DEF Sound, Placed, AtFrame, IterMarkers, LoopMarkers
    <3>3. pc \notin {"halted", "wild"}
      BY <3>1 DEF Sound, Placed
    <3> QED
      BY <2>a, <3>2, <3>3 DEF Sound, Placed, Places
  <2>b. CASE i # Len(estack) /\ estack[i+1] = Fn("stop")
    <3>1. PICK n \in Nat : n = Len(estack)
      BY <1>3
    <3>2. i < n
      BY <2>b, <3>1
    <3> QED
      BY <2>b, <3>1, <3>2
  <2>c. CASE Begins(estack, i)
    BY <1>3, <2>c DEF Begins, FrameStart, Start, Size
  <2> QED
    BY <2>1, <2>a, <2>b, <2>c
<1>6. pc \in {"walk", "exhausted"} => estack # <<>> /\ Tag(Last(estack)) \in IterMarkers
  <2>1. estack # <<>> => Last(estack) = Top(estack)
    BY WholeStack DEF Sound, Kept
  <2> QED
    BY <2>1 DEF Sound, Placed, AtFrame
<1> QED
  BY <1>3, <1>4, <1>5, <1>6 DEF FramesWhole, IsMark

LEMMA SoundIsUnspent == Sound => NoSpentFrame
<1> SUFFICES ASSUME Sound, ~ program.backtrace, NEW i \in 1..(Len(estack) - 1),
                    Tag(estack[i]) = "iiterate"
             PROVE  \/ Data(estack[i-1]) < Len(Body(Data(estack[i-2])))
                    \/ estack[i+1] = Fn("stop")
  BY DEF NoSpentFrame
<1>1. /\ IsStack(estack) /\ Frames(program, estack) /\ Waiting(program, estack)
      /\ \A k \in 1..Len(estack) : Slot(estack[k])
  BY DEF Sound, Kept, Whole
<1>2. program \in Programs
  BY DEF Sound, Settled
<1>3. Len(estack) \in Nat /\ i \in 1..Len(estack)
  BY <1>1, StackLength
<1>4. Tag(estack[i]) \in IterMarkers
  BY DEF IterMarkers
<1>5. FrameOk(program, estack, i)
  BY <1>1, <1>3, <1>4 DEF Frames
<1>6. Start(estack, i) \in 1..(i-2) /\ Tag(estack[i-2]) = "procedure"
  BY <1>1, <1>3, <1>4, <1>5, FrameSlots
<1>7. PICK k : k = i - 2
  OBVIOUS
<1>8. k \in 1..Len(estack)
  BY <1>3, <1>6, <1>7
<1>9. Value(estack[k])
  BY <1>1, <1>6, <1>7, <1>8, SlotIsValue DEF IterMarkers, LoopMarkers
<1>10. Data(estack[k]) \in Procedures
  BY <1>6, <1>7, <1>9, ValueIsPlain DEF Plain
<1>11. Len(Body(Data(estack[k]))) = Len(program.body[Data(estack[k])])
  BY <1>2, <1>10, BodyParts
<1>12. Unspent(program, estack, i) \/ estack[i+1] = Fn("stop")
  BY <1>1 DEF Waiting
<1> QED
  BY <1>7, <1>11, <1>12 DEF Unspent

\* Whatever a program does, and whenever a signal comes: exit, return, stop,
\* closeinput, the tail call and the exhaust arms cut the execution stack
\* between frames, and no procedure that is done waits under another.
THEOREM FramesStayIntact == Spec => []FramesIntact
<1>1. Spec => []Sound
  BY DispatcherIsSound
<1>2. Sound => FramesIntact
  BY SoundIsWhole, SoundIsUnspent DEF FramesIntact
<1> QED
  BY <1>1, <1>2, PTL

\* current_op_ is set only while the stop that its operator's exception has
\* scheduled is still the next thing to run: no later error gets its name.
THEOREM OpIsStaleOnlyUnwinding == Spec => []StaleOpIsUnwinding
<1>1. Spec => []Sound
  BY DispatcherIsSound
<1>2. Sound => StaleOpIsUnwinding
  BY DEF Sound, Placed
<1> QED
  BY <1>1, <1>2, PTL
===============================================================================
