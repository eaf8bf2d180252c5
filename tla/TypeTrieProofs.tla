--------------------------- MODULE TypeTrieProofs ---------------------------
(***************************************************************************)
(* TypeTrie keeps its levels in order, stays the tree of the variants that *)
(* were accepted, and finds what the variants alone say it should, for all *)
(* types, functions, parameter lists and stacks.                           *)
(***************************************************************************)
EXTENDS TypeTrie, TLAPS

-----------------------------------------------------------------------------
(* Sequences *)

\* Reversing keeps the length and the elements.
LEMMA BackwardsType ==
    ASSUME NEW S, NEW s \in Seq(S)
    PROVE  Backwards(s) \in Seq(S) /\ Len(Backwards(s)) = Len(s)
  <1>1. \A i \in 1..Len(s) : Len(s) + 1 - i \in 1..Len(s)
    OBVIOUS
  <1>2. Backwards(s) \in [1..Len(s) -> S]
    BY <1>1 DEF Backwards
  <1> QED
    BY <1>2

\* A list as long as a path it agrees with is that path.
LEMMA AgreeingIsEqual ==
    ASSUME NEW a \in Path, NEW p \in Path, Len(a) = Len(p), Agrees(a, p, Len(p))
    PROVE  a = p
  BY DEF Agrees, Path

\* Replacing an element changes that one only.
LEMMA ReplaceElement ==
    ASSUME NEW S, NEW s \in Seq(S), NEW i \in 1..Len(s), NEW x \in S
    PROVE  LET r == [s EXCEPT ![i] = x]
           IN  /\ r \in Seq(S) /\ Len(r) = Len(s) /\ r[i] = x
               /\ \A j \in 1..Len(s) : j # i => r[j] = s[j]
  OBVIOUS

\* Appending adds one element and changes none.
LEMMA AppendElement ==
    ASSUME NEW S, NEW s \in Seq(S), NEW x \in S
    PROVE  /\ Append(s, x) \in Seq(S) /\ Append(s, x) # <<>>
           /\ Len(Append(s, x)) = Len(s) + 1 /\ Append(s, x)[Len(s) + 1] = x
           /\ \A j \in 1..Len(s) : Append(s, x)[j] = s[j]
  OBVIOUS

-----------------------------------------------------------------------------
(* Levels *)

\* A level whose first node has no type offers none.
LEMMA UntaggedOffersNothing ==
    ASSUME NEW l \in Seq(Nodes), l # <<>>, LevelOK(l), Untagged(l), NEW t \in Param
    PROVE  ~ Offers(l, t)
  BY TypesAssumption DEF LevelOK, Untagged, Offers, Param

\* A level whose first node has a type offers it, and none of its nodes is
\* without one.
LEMMA TaggedOffers ==
    ASSUME NEW l \in Seq(Nodes), l # <<>>, LevelOK(l), ~ Untagged(l)
    PROVE  /\ \E t \in Param : Offers(l, t)
           /\ \A i \in DOMAIN l : l[i].tag \in Param
  <1>1. l[1] \in Nodes /\ 1 \in DOMAIN l
    OBVIOUS
  <1>2. l[1].tag \in Param
    BY <1>1 DEF Untagged, Nodes
  <1>3. ASSUME NEW i \in DOMAIN l PROVE l[i].tag \in Param
    <2>1. l[i] \in Nodes
      OBVIOUS
    <2>2. l[i].tag # NullType
      BY <1>1 DEF LevelOK, Untagged
    <2> QED
      BY <2>1, <2>2 DEF Nodes
  <1> QED
    BY <1>1, <1>2, <1>3 DEF Offers

\* A new alternative joins the types that a level offers, and leaves the
\* wildcard last.
LEMMA NewAlternativeOK ==
    ASSUME NEW l \in Seq(Nodes), l # <<>>, LevelOK(l), ~ Untagged(l),
           NEW t \in Param, ~ HasAlternative(l, t)
    PROVE  LET m == NewAlternative(l, t)
           IN  /\ m \in Seq(Nodes) /\ m # <<>> /\ LevelOK(m)
               /\ \A u \in Param : Offers(m, u) <=> Offers(l, u) \/ u = t
               /\ m[1].tag # NullType
               /\ Taken(m) => Taken(l)
  <1> DEFINE m == NewAlternative(l, t)
             n == Len(l)
  <1>a. n \in Nat /\ n >= 1 /\ DOMAIN l = 1..n
    OBVIOUS
  <1>b. \A i \in 1..n : l[i] \in Nodes
    BY <1>a
  <1>c. Node(t) \in Nodes /\ Node(t).tag = t /\ Node(t).func = NoFunc
    BY DEF Nodes, Node
  <1>d. t # NullType
    BY TypesAssumption DEF Param
  <1>0. /\ n \in Nat /\ n >= 1 /\ DOMAIN l = 1..n
        /\ \A i \in 1..n : l[i] \in Nodes
        /\ Node(t) \in Nodes /\ Node(t).tag = t /\ Node(t).func = NoFunc
        /\ t # NullType
    BY <1>a, <1>b, <1>c, <1>d
  <1>1. ~ Offers(l, t)
    BY <1>0 DEF HasAlternative, LevelOK, Offers
  <1>2. \A i \in 1..n : l[i].tag # t /\ l[i].tag # NullType
    BY <1>0, <1>1, TaggedOffers, TypesAssumption DEF Offers, Param
  <1>3. CASE t # AnyType /\ l[n].tag = AnyType
    <2>1. /\ m \in Seq(Nodes) /\ Len(m) = n + 1
          /\ \A i \in 1..n-1 : m[i] = l[i]
          /\ m[n] = Node(t) /\ m[n + 1] = l[n]
      <3> DEFINE k == [l EXCEPT ![n] = Node(t)]
      <3>1. m = Append(k, l[n])
        BY <1>3 DEF NewAlternative
      <3>2. n \in 1..n /\ l[n] \in Nodes
        BY <1>0
      <3>3. /\ k \in Seq(Nodes) /\ Len(k) = n /\ k[n] = Node(t)
            /\ \A j \in 1..n : j # n => k[j] = l[j]
        BY <1>0, <3>2, ReplaceElement
      <3> HIDE DEF k, m, n
      <3>4. /\ m \in Seq(Nodes) /\ Len(m) = n + 1 /\ m[n + 1] = l[n]
            /\ \A j \in 1..n : m[j] = k[j]
        BY <3>1, <3>2, <3>3, AppendElement
      <3> QED
        BY <1>0, <3>3, <3>4
    <2>2. LevelOK(m)
      <3> SUFFICES ASSUME NEW i \in 1..n+1, NEW j \in 1..n+1
                   PROVE  /\ m[i].tag = m[j].tag => i = j
                          /\ m[i].tag = AnyType => i = n + 1
                          /\ m[i].tag = NullType => n + 1 = 1
        BY <1>0, <2>1 DEF LevelOK
      <3> HIDE DEF m, n
      <3>1. (i \in 1..n-1 \/ i = n \/ i = n + 1) /\ (j \in 1..n-1 \/ j = n \/ j = n + 1)
        BY <1>0
      <3>2. \A k \in 1..n-1 : k \in 1..n /\ l[k].tag # AnyType
        BY <1>0 DEF LevelOK, n
      <3>3. \A k, h \in 1..n-1 : l[k].tag = l[h].tag => k = h
        BY <1>0 DEF LevelOK
      <3> QED
        BY <1>0, <1>2, <1>3, <2>1, <3>1, <3>2, <3>3
    <2>3. ASSUME NEW u \in Param PROVE Offers(m, u) <=> Offers(l, u) \/ u = t
      <3>1. Offers(m, u) => Offers(l, u) \/ u = t
        BY <1>0, <2>1 DEF Offers
      <3>2. Offers(l, u) => Offers(m, u)
        <4> SUFFICES ASSUME NEW i \in 1..n, l[i].tag = u
                     PROVE  \E k \in 1..n+1 : m[k].tag = u
          BY <1>0, <2>1 DEF Offers
        <4> QED
          BY <1>0, <2>1
      <3>3. u = t => Offers(m, u)
        BY <1>0, <2>1 DEF Offers
      <3> QED
        BY <3>1, <3>2, <3>3
    <2>4. m[1].tag # NullType /\ (Taken(m) => Taken(l))
      BY <1>0, <1>2, <2>1 DEF Taken
    <2> QED
      BY <1>0, <2>1, <2>2, <2>3, <2>4
  <1>4. CASE t = AnyType \/ l[n].tag # AnyType
    <2>1. /\ m \in Seq(Nodes) /\ Len(m) = n + 1
          /\ \A i \in 1..n : m[i] = l[i]
          /\ m[n + 1] = Node(t)
      <3>1. m = Append(l, Node(t))
        BY <1>4 DEF NewAlternative
      <3> HIDE DEF m
      <3> QED
        BY <1>0, <3>1
    <2>2. \A i \in 1..n : l[i].tag # AnyType
      BY <1>0, <1>1, <1>4 DEF Offers, LevelOK
    <2>3. LevelOK(m)
      <3> SUFFICES ASSUME NEW i \in 1..n+1, NEW j \in 1..n+1
                   PROVE  /\ m[i].tag = m[j].tag => i = j
                          /\ m[i].tag = AnyType => i = n + 1
                          /\ m[i].tag = NullType => n + 1 = 1
        BY <1>0, <2>1 DEF LevelOK
      <3> QED
        BY <1>0, <1>2, <2>1, <2>2 DEF LevelOK
    <2>4. ASSUME NEW u \in Param PROVE Offers(m, u) <=> Offers(l, u) \/ u = t
      BY <1>0, <2>1 DEF Offers
    <2>5. m[1].tag # NullType /\ (Taken(m) => Taken(l))
      BY <1>0, <1>2, <2>1 DEF Taken
    <2> QED
      BY <1>0, <2>1, <2>3, <2>4, <2>5
  <1> QED
    BY <1>3, <1>4

\* One round of insert adds its type to a level, leaves it in order, and puts
\* no function there.
LEMMA WithTypeOK ==
    ASSUME NEW l \in Seq(Nodes), l # <<>>, LevelOK(l), NEW t \in Param
    PROVE  LET m == WithType(l, t)
           IN  /\ m \in Seq(Nodes) /\ m # <<>> /\ LevelOK(m)
               /\ \A u \in Param : Offers(m, u) <=> Offers(l, u) \/ u = t
               /\ ~ Untagged(m)
               /\ Taken(m) => Taken(l)
  <1>0. /\ Len(l) \in Nat /\ Len(l) >= 1 /\ DOMAIN l = 1..Len(l)
        /\ l[1] \in Nodes /\ t # NullType
    BY TypesAssumption DEF Param
  <1>1. CASE Untagged(l)
    <2> DEFINE x == [l[1] EXCEPT !.tag = t]
    <2>1. x \in Nodes /\ x.tag = t /\ x.func = l[1].func
      BY <1>0 DEF Nodes
    <2>2. WithType(l, t) = [l EXCEPT ![1] = x]
      BY <1>1 DEF WithType
    <2>3. Len(l) = 1
      BY <1>0, <1>1 DEF LevelOK, Untagged
    <2> HIDE DEF x
    <2>4. /\ WithType(l, t) \in Seq(Nodes) /\ Len(WithType(l, t)) = 1
          /\ WithType(l, t)[1] = x
      BY <2>1, <2>2, <2>3, ReplaceElement
    <2>5. \A u \in Param : ~ Offers(l, u)
      BY <1>1, UntaggedOffersNothing
    <2> QED
      BY <1>0, <2>1, <2>3, <2>4, <2>5 DEF LevelOK, Offers, Untagged, Taken
  <1>2. CASE ~ Untagged(l) /\ HasAlternative(l, t)
    <2>1. WithType(l, t) = l
      BY <1>2 DEF WithType
    <2>2. Offers(l, t)
      BY <1>0, <1>2 DEF HasAlternative, Offers
    <2> QED
      BY <1>2, <2>1, <2>2
  <1>3. CASE ~ Untagged(l) /\ ~ HasAlternative(l, t)
    <2>1. WithType(l, t) = NewAlternative(l, t)
      BY <1>3 DEF WithType
    <2> QED
      BY <1>3, <2>1, NewAlternativeOK DEF Untagged
  <1> QED
    BY <1>1, <1>2, <1>3

\* Binding a function touches no type.
LEMMA WithFuncOK ==
    ASSUME NEW l \in Seq(Nodes), l # <<>>, LevelOK(l), NEW f \in Func
    PROVE  LET m == WithFunc(l, f)
           IN  /\ m \in Seq(Nodes) /\ m # <<>> /\ LevelOK(m)
               /\ \A u \in Param : Offers(m, u) <=> Offers(l, u)
               /\ Untagged(m) <=> Untagged(l)
               /\ m[1].func = f
  <1> DEFINE x == [l[1] EXCEPT !.func = f]
             m == WithFunc(l, f)
  <1>0. /\ Len(l) \in Nat /\ Len(l) >= 1 /\ DOMAIN l = 1..Len(l) /\ l[1] \in Nodes
    OBVIOUS
  <1>1. x \in Nodes /\ x.func = f /\ x.tag = l[1].tag
    BY <1>0 DEF Nodes
  <1>2. m = [l EXCEPT ![1] = x]
    BY DEF WithFunc
  <1> HIDE DEF x, m
  <1>3. /\ m \in Seq(Nodes) /\ Len(m) = Len(l) /\ m[1] = x
        /\ \A j \in 1..Len(l) : j # 1 => m[j] = l[j]
    BY <1>0, <1>1, <1>2, ReplaceElement
  <1>4. DOMAIN m = DOMAIN l /\ \A j \in DOMAIN l : m[j].tag = l[j].tag
    BY <1>0, <1>1, <1>3
  <1>5. m \in Seq(Nodes) /\ m # <<>> /\ LevelOK(m)
    BY <1>0, <1>3, <1>4 DEF LevelOK
  <1>6. \A u \in Param : Offers(m, u) <=> Offers(l, u)
    BY <1>4 DEF Offers
  <1>7. (Untagged(m) <=> Untagged(l)) /\ m[1].func = f
    BY <1>1, <1>3 DEF Untagged
  <1> QED
    BY <1>5, <1>6, <1>7 DEF m

\* cva_t and cvt_a keep the types of a level and the function of a leaf.
LEMMA CopiedOK ==
    ASSUME NEW l \in Seq(Nodes), l # <<>>, LevelOK(l)
    PROVE  LET m == Copied(l)
           IN  /\ m \in Seq(Nodes) /\ m # <<>> /\ LevelOK(m)
               /\ \A u \in Param : Offers(m, u) <=> Offers(l, u)
               /\ Untagged(m) <=> Untagged(l)
               /\ Untagged(m) => m = l
               /\ Taken(m) => Taken(l)
  <1>1. CASE Untagged(l)
    BY <1>1 DEF Copied
  <1>2. CASE ~ Untagged(l)
    <2> DEFINE m == [i \in DOMAIN l |-> Node(l[i].tag)]
    <2>0. /\ Len(l) \in Nat /\ Len(l) >= 1 /\ DOMAIN l = 1..Len(l)
          /\ \A i \in DOMAIN l : l[i] \in Nodes
      OBVIOUS
    <2>1. Copied(l) = m
      BY <1>2 DEF Copied
    <2>2. \A i \in DOMAIN l : Node(l[i].tag) \in Nodes
      BY <2>0 DEF Nodes, Node
    <2>3. m \in Seq(Nodes) /\ Len(m) = Len(l)
      BY <2>0, <2>2
    <2>4. DOMAIN m = DOMAIN l /\ \A i \in DOMAIN l : m[i].tag = l[i].tag /\ m[i].func = NoFunc
      BY DEF Node
    <2> HIDE DEF m
    <2>5. m # <<>> /\ LevelOK(m)
      BY <2>0, <2>3, <2>4 DEF LevelOK
    <2>6. \A u \in Param : Offers(m, u) <=> Offers(l, u)
      BY <2>4 DEF Offers
    <2>7. ~ Untagged(m) /\ ~ Taken(m)
      BY <1>2, <2>0, <2>4 DEF Untagged, Taken
    <2> QED
      BY <1>2, <2>1, <2>3, <2>5, <2>6, <2>7
  <1> QED
    BY <1>1, <1>2

\* A new level has no type and no function.
LEMMA NewLevelOK ==
    /\ NewLevel \in Seq(Nodes) /\ NewLevel # <<>> /\ LevelOK(NewLevel)
    /\ Untagged(NewLevel) /\ ~ Taken(NewLevel)
  <1>1. Node(NullType) \in Nodes
    BY DEF Nodes, Node
  <1>2. /\ NewLevel \in Seq(Nodes) /\ Len(NewLevel) = 1
        /\ NewLevel[1].tag = NullType /\ NewLevel[1].func = NoFunc
    BY <1>1 DEF NewLevel, Node
  <1> QED
    BY <1>2, TypesAssumption DEF LevelOK, Untagged, Taken

-----------------------------------------------------------------------------
(* The shape of the trie *)

\* The next_ of every alternative is there.
Linked == \A p \in DOMAIN trie : \A t \in Param :
              Offers(trie[p], t) => Append(p, t) \in DOMAIN trie

Shape ==
    /\ TypeOK /\ WildcardLast /\ Linked
    /\ <<>> \in DOMAIN trie
    /\ pc = "insert" => func \in Func

\* A fresh trie.
LEMMA ShapeInit == Init => Shape
  <1> SUFFICES ASSUME Init PROVE Shape
    OBVIOUS
  <1>1. DOMAIN trie = {<<>>} /\ trie[<<>>] = NewLevel /\ DOMAIN variants = {}
    BY DEF Init
  <1>2. \A t \in Param : ~ Offers(trie[<<>>], t)
    BY <1>1, NewLevelOK, UntaggedOffersNothing
  <1>3. <<>> \in Path
    BY DEF Path
  <1>4. TypeOK
    BY <1>1, <1>3, NewLevelOK DEF Init, TypeOK
  <1> QED
    BY <1>1, <1>2, <1>4, NewLevelOK DEF Shape, WildcardLast, Linked, Init

\* What a round of insert does to the levels, level by level.
LEMMA InsertLevelTrie ==
    ASSUME Shape, InsertLevel
    PROVE  LET t == goal[Len(pos) + 1]
           IN  /\ t \in Param /\ pos' = Append(pos, t) /\ pos' \in Path
               /\ DOMAIN trie' = DOMAIN trie \cup {pos'}
               /\ pos # pos'
               /\ trie'[pos] = WithType(trie[pos], t)
               /\ \A p \in DOMAIN trie : p # pos => trie'[p] = trie[p]
               /\ pos' \notin DOMAIN trie => trie'[pos'] = NewLevel
  <1> DEFINE t == goal[Len(pos) + 1]
  <1>1. pos \in Path /\ pos \in DOMAIN trie /\ goal \in Path
    BY DEF Shape, TypeOK
  <1>2. Len(pos) \in Nat /\ Len(goal) \in Nat /\ Len(pos) < Len(goal)
    BY <1>1 DEF Path, InsertLevel
  <1>3. t \in Param
    BY <1>1, <1>2 DEF Path
  <1>4. pos' = Append(pos, t)
    BY DEF InsertLevel
  <1> HIDE DEF t
  <1>5. pos' \in Path /\ pos # pos'
    BY <1>1, <1>2, <1>3, <1>4, AppendElement DEF Path
  <1>6. trie' = [p \in DOMAIN trie \cup {pos'} |->
                    IF p = pos THEN WithType(trie[p], t)
                    ELSE IF p \in DOMAIN trie THEN trie[p]
                    ELSE NewLevel]
    BY DEF InsertLevel, WithNext, t
  <1>7. /\ DOMAIN trie' = DOMAIN trie \cup {pos'}
        /\ trie'[pos] = WithType(trie[pos], t)
        /\ \A p \in DOMAIN trie : p # pos => trie'[p] = trie[p]
        /\ pos' \notin DOMAIN trie => trie'[pos'] = NewLevel
    BY <1>1, <1>5, <1>6
  <1> QED
    BY <1>3, <1>4, <1>5, <1>7 DEF t

\* Every level of the new trie is in order when every changed one is.
LEMMA ShapeKept ==
    ASSUME Shape, UNCHANGED <<goal, reply, variants>>,
           pos' \in DOMAIN trie', DOMAIN trie \subseteq DOMAIN trie',
           DOMAIN trie' \subseteq Path,
           pc' \in {"idle", "insert", "lookup"}, func' \in Func \cup {NoFunc},
           pc' = "insert" => func' \in Func,
           \A p \in DOMAIN trie' :
              /\ trie'[p] \in Seq(Nodes) /\ trie'[p] # <<>> /\ LevelOK(trie'[p])
              /\ \A t \in Param : Offers(trie'[p], t) => Append(p, t) \in DOMAIN trie'
    PROVE  Shape'
  BY DEF Shape, TypeOK, WildcardLast, Linked

\* Each step keeps the shape.
LEMMA ShapeStep == Shape /\ [Next]_vars => Shape'
  <1> SUFFICES ASSUME Shape, [Next]_vars PROVE Shape'
    OBVIOUS
  <1>0. /\ \A p \in DOMAIN trie : /\ trie[p] \in Seq(Nodes) /\ trie[p] # <<>>
                                  /\ LevelOK(trie[p])
        /\ \A p \in DOMAIN trie : \A t \in Param :
              Offers(trie[p], t) => Append(p, t) \in DOMAIN trie
        /\ DOMAIN trie \subseteq Path /\ pos \in DOMAIN trie /\ <<>> \in DOMAIN trie
        /\ goal \in Path
    BY DEF Shape, TypeOK, WildcardLast, Linked
  <1>1. CASE UNCHANGED vars
    BY <1>1 DEF vars, Shape, TypeOK, WildcardLast, Linked
  <1>2. ASSUME NEW list \in ParamLists, NEW f \in Func, Addtotrie(list, f)
        PROVE  Shape'
    <2>1. Backwards(list) \in Path
      BY ListsAssumption, BackwardsType DEF Path, Param
    <2> QED
      BY <1>0, <1>2, <2>1 DEF Addtotrie, Shape, TypeOK, WildcardLast, Linked
  <1>3. CASE InsertLevel
    <2> DEFINE t == goal[Len(pos) + 1]
    <2>1. /\ t \in Param /\ pos' = Append(pos, t) /\ pos' \in Path
          /\ DOMAIN trie' = DOMAIN trie \cup {pos'}
          /\ trie'[pos] = WithType(trie[pos], t)
          /\ \A p \in DOMAIN trie : p # pos => trie'[p] = trie[p]
          /\ pos' \notin DOMAIN trie => trie'[pos'] = NewLevel
      BY <1>3, InsertLevelTrie
    <2> HIDE DEF t
    <2>2. ASSUME NEW p \in DOMAIN trie'
          PROVE  /\ trie'[p] \in Seq(Nodes) /\ trie'[p] # <<>> /\ LevelOK(trie'[p])
                 /\ \A u \in Param : Offers(trie'[p], u) => Append(p, u) \in DOMAIN trie'
      <3>1. CASE p = pos
        BY <1>0, <2>1, <3>1, WithTypeOK
      <3>2. CASE p # pos /\ p \in DOMAIN trie
        BY <1>0, <2>1, <3>2
      <3>3. CASE p \notin DOMAIN trie
        <4>1. trie'[p] = NewLevel
          BY <2>1, <2>2, <3>3
        <4> QED
          BY <4>1, NewLevelOK, UntaggedOffersNothing
      <3> QED
        BY <3>1, <3>2, <3>3
    <2>3. UNCHANGED <<pc, goal, func, reply, variants>>
      BY <1>3 DEF InsertLevel
    <2>4. pc' \in {"idle", "insert", "lookup"} /\ func' \in Func \cup {NoFunc}
          /\ (pc' = "insert" => func' \in Func)
      BY <2>3 DEF Shape, TypeOK
    <2>5. pos' \in DOMAIN trie' /\ DOMAIN trie \subseteq DOMAIN trie'
          /\ DOMAIN trie' \subseteq Path
      BY <1>0, <2>1
    <2> QED
      BY <2>2, <2>3, <2>4, <2>5, ShapeKept
  <1>4. CASE InsertRefused
    BY <1>4 DEF InsertRefused, Shape, TypeOK, WildcardLast, Linked
  <1>5. CASE InsertDone
    <2>1. /\ func \in Func /\ pc' = "idle" /\ UNCHANGED <<goal, func, pos>>
          /\ reply' = "added"
      BY <1>5 DEF InsertDone, Shape
    <2>2. /\ DOMAIN trie' = DOMAIN trie
          /\ trie'[pos] = WithFunc(trie[pos], func)
          /\ \A p \in DOMAIN trie : p # pos => trie'[p] = trie[p]
      BY <1>0, <1>5 DEF InsertDone
    <2>3. ASSUME NEW p \in DOMAIN trie
          PROVE  /\ trie'[p] \in Seq(Nodes) /\ trie'[p] # <<>> /\ LevelOK(trie'[p])
                 /\ \A u \in Param : Offers(trie'[p], u) => Append(p, u) \in DOMAIN trie
      <3>1. CASE p = pos
        BY <1>0, <2>1, <2>2, <3>1, WithFuncOK
      <3>2. CASE p # pos
        BY <1>0, <2>2, <3>2
      <3> QED
        BY <3>1, <3>2
    <2>4. /\ DOMAIN variants' \subseteq Path
          /\ \A a \in DOMAIN variants' : variants'[a] \in Func
      BY <1>0, <1>5, <2>1 DEF InsertDone, Shape, TypeOK
    <2> QED
      BY <1>0, <2>1, <2>2, <2>3, <2>4 DEF Shape, TypeOK, WildcardLast, Linked
  <1>6. ASSUME NEW types \in Stacks, Execute(types) PROVE Shape'
    <2>1. types \in Seq(Param)
      BY ListsAssumption DEF Param
    <2>2. Backwards(types) \in Path
      BY <2>1, BackwardsType DEF Path
    <2> QED
      BY <1>0, <1>6, <2>2 DEF Execute, Shape, TypeOK, WildcardLast, Linked
  <1>7. CASE LookupLevel
    <2>1. PICK i \in DOMAIN trie[pos] : pos' = Append(pos, trie[pos][i].tag)
      BY <1>7 DEF LookupLevel
    <2>2. trie[pos][i].tag \in Param
      BY <1>0, <1>7, TaggedOffers DEF LookupLevel
    <2>3. pos' \in DOMAIN trie
      BY <1>0, <2>1, <2>2 DEF Offers
    <2> QED
      BY <1>7, <2>3 DEF LookupLevel, Shape, TypeOK, WildcardLast, Linked
  <1>8. CASE LookupUnderflows
    BY <1>8 DEF LookupUnderflows, Shape, TypeOK, WildcardLast, Linked
  <1>9. CASE LookupMisses
    BY <1>9 DEF LookupMisses, Shape, TypeOK, WildcardLast, Linked
  <1>10. CASE LookupDone
    <2>1. trie[pos][1] \in Nodes
      BY <1>0
    <2>2. trie[pos][1].func \in Func \cup {NoFunc}
      BY <2>1 DEF Nodes
    <2> QED
      BY <1>10, <2>2 DEF LookupDone, Shape, TypeOK, WildcardLast, Linked
  <1>11. CASE Rebuild
    <2>1. DOMAIN trie' = DOMAIN trie /\ \A p \in DOMAIN trie : trie'[p] = Copied(trie[p])
      BY <1>11 DEF Rebuild
    <2>2. ASSUME NEW p \in DOMAIN trie
          PROVE  /\ trie'[p] \in Seq(Nodes) /\ trie'[p] # <<>> /\ LevelOK(trie'[p])
                 /\ \A u \in Param : Offers(trie'[p], u) => Append(p, u) \in DOMAIN trie
      BY <1>0, <2>1, CopiedOK
    <2> QED
      BY <1>0, <1>11, <2>1, <2>2 DEF Rebuild, Shape, TypeOK, WildcardLast, Linked
  <1> QED
    BY <1>1, <1>2, <1>3, <1>4, <1>5, <1>6, <1>7, <1>8, <1>9, <1>10, <1>11 DEF Next

\* The types are right, and the wildcard is the last alternative of every
\* level, whatever variants are added in whatever order (insert).
THEOREM WildcardStaysLast == Spec => [](TypeOK /\ WildcardLast)
  <1>1. Shape => TypeOK /\ WildcardLast
    BY DEF Shape
  <1> QED
    BY <1>1, ShapeInit, ShapeStep, PTL DEF Spec

-----------------------------------------------------------------------------
(* The content of the trie *)

\* While a list is being inserted, the path it has come to counts as one.
Known == IF pc = "insert" THEN Accepted \cup {pos} ELSE Accepted

\* The levels T are those of the tree of the lists in S.
Tree(T, S) ==
    /\ \A p \in DOMAIN T : \A t \in Param :
          Offers(T[p], t) <=> \E a \in S : GoesOn(a, p, Len(p), t)
    /\ \A p \in DOMAIN T : p = <<>> \/ \E a \in S : Agrees(a, p, Len(p))

\* Functions are bound to accepted lists, and to the right ones.
BoundOK ==
    /\ \A a \in Accepted : a # <<>> /\ a \in DOMAIN trie
                           /\ (Untagged(trie[a]) => trie[a][1].func = variants[a])
    /\ \A p \in DOMAIN trie : Taken(trie[p]) => p \in Accepted

\* The walk of insert follows its list.
Inserting ==
    pc = "insert" =>
        goal # <<>> /\ Len(pos) <= Len(goal) /\ Agrees(goal, pos, Len(pos))

Content == Shape /\ Tree(trie, Known) /\ BoundOK /\ Inserting

\* A path goes on from each of its prefixes as its continuation does, but for
\* the path itself, from which it does not go on at all.
LEMMA GoesOnAppended ==
    ASSUME NEW q \in Path, NEW p \in Path, NEW t \in Param, NEW u \in Param
    PROVE  /\ p # q => (GoesOn(Append(q, t), p, Len(p), u) <=> GoesOn(q, p, Len(p), u))
           /\ GoesOn(Append(q, t), q, Len(q), u) <=> u = t
           /\ ~ GoesOn(q, q, Len(q), u)
  <1> DEFINE r == Append(q, t)
  <1>1. /\ Len(q) \in Nat /\ Len(p) \in Nat /\ Len(r) = Len(q) + 1
        /\ r[Len(q) + 1] = t /\ \A j \in 1..Len(q) : r[j] = q[j]
    BY AppendElement DEF Path
  <1> HIDE DEF r
  <1>2. GoesOn(r, q, Len(q), u) <=> u = t
    BY <1>1 DEF GoesOn, Agrees
  <1>3. ~ GoesOn(q, q, Len(q), u)
    BY <1>1 DEF GoesOn
  <1>4. ASSUME p # q PROVE GoesOn(r, p, Len(p), u) <=> GoesOn(q, p, Len(p), u)
    <2>1. CASE Len(p) < Len(q)
      BY <1>1, <2>1 DEF GoesOn, Agrees
    <2>2. CASE Len(p) >= Len(q)
      <3>1. ~ GoesOn(q, p, Len(p), u)
        BY <1>1, <2>2 DEF GoesOn
      <3>2. ASSUME GoesOn(r, p, Len(p), u) PROVE FALSE
        <4>1. Len(p) = Len(q) /\ Agrees(q, p, Len(p))
          BY <1>1, <2>2, <3>2 DEF GoesOn, Agrees
        <4> QED
          BY <1>4, <4>1, AgreeingIsEqual
      <3> QED
        BY <3>1, <3>2
    <2> QED
      BY <1>1, <2>1, <2>2
  <1> QED
    BY <1>2, <1>3, <1>4 DEF r

\* A longer path agrees with what its prefix agrees with, and with itself.
LEMMA AgreesAppended ==
    ASSUME NEW q \in Path, NEW p \in Path, NEW t \in Param
    PROVE  /\ Agrees(q, p, Len(p)) => Agrees(Append(q, t), p, Len(p))
           /\ Agrees(q, q, Len(q))
  <1>1. /\ Len(q) \in Nat /\ Len(p) \in Nat /\ Len(Append(q, t)) = Len(q) + 1
        /\ \A j \in 1..Len(q) : Append(q, t)[j] = q[j]
    BY AppendElement DEF Path
  <1> QED
    BY <1>1 DEF Agrees

\* A fresh trie is the tree of no lists.
LEMMA ContentInit == Init => Content
  <1> SUFFICES ASSUME Init PROVE Content
    OBVIOUS
  <1>1. DOMAIN trie = {<<>>} /\ trie[<<>>] = NewLevel /\ DOMAIN variants = {} /\ pc = "idle"
    BY DEF Init
  <1>2. Tree(trie, Known)
    BY <1>1, NewLevelOK, UntaggedOffersNothing DEF Tree, Known, Accepted
  <1>3. BoundOK /\ Inserting
    BY <1>1, NewLevelOK DEF BoundOK, Inserting, Accepted
  <1> QED
    BY <1>2, <1>3, ShapeInit DEF Content

\* A round of insert takes the tree to that of the longer path.
LEMMA ContentInsertLevel == Content /\ InsertLevel => Content'
  <1> SUFFICES ASSUME Content, InsertLevel PROVE Content'
    OBVIOUS
  <1> DEFINE t == goal[Len(pos) + 1]
  <1>1. /\ t \in Param /\ pos' = Append(pos, t) /\ pos' \in Path
        /\ DOMAIN trie' = DOMAIN trie \cup {pos'}
        /\ pos # pos'
        /\ trie'[pos] = WithType(trie[pos], t)
        /\ \A p \in DOMAIN trie : p # pos => trie'[p] = trie[p]
        /\ pos' \notin DOMAIN trie => trie'[pos'] = NewLevel
    BY InsertLevelTrie DEF Content
  <1>2. t = goal[Len(pos) + 1]
    OBVIOUS
  <1> HIDE DEF t
  <1>3. /\ UNCHANGED <<goal, variants>> /\ pc = "insert" /\ pc' = "insert"
        /\ Len(pos) < Len(goal)
    BY DEF InsertLevel
  <1>4. /\ \A p \in DOMAIN trie : /\ trie[p] \in Seq(Nodes) /\ trie[p] # <<>>
                                  /\ LevelOK(trie[p])
        /\ DOMAIN trie \subseteq Path /\ pos \in DOMAIN trie /\ goal \in Path
        /\ Accepted \subseteq Path
        /\ Linked /\ Tree(trie, Accepted \cup {pos}) /\ BoundOK /\ Inserting
    BY <1>3 DEF Content, Shape, TypeOK, WildcardLast, Known, Accepted
  <1>5. Shape'
    BY ShapeStep DEF Content, Next
  <1>6. /\ \A u \in Param : Offers(trie'[pos], u) <=> Offers(trie[pos], u) \/ u = t
        /\ ~ Untagged(trie'[pos])
        /\ Taken(trie'[pos]) => Taken(trie[pos])
    <2> DEFINE l == trie[pos]
    <2>1. l \in Seq(Nodes) /\ l # <<>> /\ LevelOK(l)
      BY <1>4
    <2> HIDE DEF l
    <2>2. /\ \A u \in Param : Offers(WithType(l, t), u) <=> Offers(l, u) \/ u = t
          /\ ~ Untagged(WithType(l, t))
          /\ Taken(WithType(l, t)) => Taken(l)
      BY <1>1, <2>1, WithTypeOK
    <2> QED
      BY <1>1, <2>2 DEF l
  <1>7. ASSUME NEW p \in DOMAIN trie', NEW u \in Param
        PROVE  Offers(trie'[p], u) <=>
                   \E a \in Accepted \cup {pos'} : GoesOn(a, p, Len(p), u)
    <2>1. CASE p = pos
      <3>1. Offers(trie[p], u) <=> \E a \in Accepted \cup {pos} : GoesOn(a, p, Len(p), u)
        BY <1>4, <2>1 DEF Tree
      <3>2. (GoesOn(Append(pos, t), pos, Len(pos), u) <=> u = t)
            /\ ~ GoesOn(pos, pos, Len(pos), u)
        BY <1>1, <1>4, GoesOnAppended
      <3>3. Offers(trie'[pos], u) <=> Offers(trie[pos], u) \/ u = t
        BY <1>6
      <3> QED
        BY <1>1, <2>1, <3>1, <3>2, <3>3
    <2>2. CASE p # pos /\ p \in DOMAIN trie
      <3>1. Offers(trie[p], u) <=> \E a \in Accepted \cup {pos} : GoesOn(a, p, Len(p), u)
        BY <1>4, <2>2 DEF Tree
      <3>2. GoesOn(pos', p, Len(p), u) <=> GoesOn(pos, p, Len(p), u)
        BY <1>1, <1>4, <2>2, GoesOnAppended
      <3> QED
        BY <1>1, <2>2, <3>1, <3>2
    <2>3. CASE p \notin DOMAIN trie
      <3>1. p = pos' /\ trie'[p] = NewLevel
        BY <1>1, <1>7, <2>3
      <3>2. ~ Offers(trie'[p], u)
        BY <3>1, NewLevelOK, UntaggedOffersNothing
      <3>3. ~ GoesOn(pos', p, Len(p), u)
        BY <1>1, <3>1 DEF GoesOn, Path
      <3>4. ASSUME NEW a \in Accepted, GoesOn(a, p, Len(p), u) PROVE FALSE
        <4>1. /\ Len(pos) \in Nat /\ Len(p) = Len(pos) + 1 /\ p[Len(pos) + 1] = t
              /\ \A j \in 1..Len(pos) : p[j] = pos[j]
          BY <1>1, <1>4, <3>1, AppendElement DEF Path
        <4>2. a \in Path /\ Len(a) \in Nat
          BY <1>4 DEF Path
        <4>3. GoesOn(a, pos, Len(pos), t)
          BY <3>4, <4>1, <4>2 DEF GoesOn, Agrees
        <4>4. Offers(trie[pos], t)
          BY <1>1, <1>4, <4>3 DEF Tree
        <4> QED
          BY <1>1, <1>4, <2>3, <3>1, <4>4 DEF Linked
      <3> QED
        BY <3>2, <3>3, <3>4
    <2> QED
      BY <2>1, <2>2, <2>3
  <1>8. ASSUME NEW p \in DOMAIN trie'
        PROVE  p = <<>> \/ \E a \in Accepted \cup {pos'} : Agrees(a, p, Len(p))
    <2>1. CASE p \in DOMAIN trie
      <3>1. p = <<>> \/ \E a \in Accepted \cup {pos} : Agrees(a, p, Len(p))
        BY <1>4, <2>1 DEF Tree
      <3> QED
        BY <1>1, <1>4, <2>1, <3>1, AgreesAppended
    <2>2. CASE p = pos'
      BY <1>1, <2>2, AgreesAppended
    <2> QED
      BY <1>1, <2>1, <2>2
  <1>9. Tree(trie, Known)'
    BY <1>3, <1>7, <1>8 DEF Tree, Known, Accepted
  <1>10. BoundOK'
    <2>1. ASSUME NEW a \in Accepted
          PROVE  a # <<>> /\ a \in DOMAIN trie'
                 /\ (Untagged(trie'[a]) => trie'[a][1].func = variants[a])
      BY <1>1, <1>4, <1>6 DEF BoundOK
    <2>2. ASSUME NEW p \in DOMAIN trie', Taken(trie'[p]) PROVE p \in Accepted
      BY <1>1, <1>4, <1>6, <2>2, NewLevelOK DEF BoundOK
    <2> QED
      BY <1>3, <2>1, <2>2 DEF BoundOK, Accepted
  <1>11. Inserting'
    <2>1. /\ Len(pos) \in Nat /\ Len(goal) \in Nat /\ Len(pos') = Len(pos) + 1
          /\ pos'[Len(pos) + 1] = t /\ \A j \in 1..Len(pos) : pos'[j] = pos[j]
      BY <1>1, <1>4, AppendElement DEF Path
    <2>2. goal # <<>> /\ Agrees(goal, pos, Len(pos))
      BY <1>3, <1>4 DEF Inserting
    <2>3. Agrees(goal, pos', Len(pos'))
      BY <1>2, <1>3, <2>1, <2>2 DEF Agrees
    <2> QED
      BY <1>3, <2>1, <2>2, <2>3 DEF Inserting
  <1> QED
    BY <1>5, <1>9, <1>10, <1>11 DEF Content

\* Only what the levels offer decides which tree they are.
LEMMA SameTree ==
    ASSUME NEW T, NEW U, NEW S, Tree(T, S), DOMAIN U = DOMAIN T,
           \A p \in DOMAIN T : \A t \in Param : Offers(U[p], t) <=> Offers(T[p], t)
    PROVE  Tree(U, S)
  BY DEF Tree

\* The empty list adds nothing to a tree.
LEMMA EmptyList ==
    ASSUME NEW T, NEW S, DOMAIN T \subseteq Path, Tree(T, S)
    PROVE  Tree(T, S \cup {<<>>})
  <1>1. \A p \in DOMAIN T : \A t \in Param : ~ GoesOn(<<>>, p, Len(p), t)
    BY DEF GoesOn, Path
  <1> QED
    BY <1>1 DEF Tree

\* A call that is refused was refused at a list accepted before.
LEMMA ContentInsertRefused == Content /\ InsertRefused => Content'
  <1> SUFFICES ASSUME Content, InsertRefused PROVE Content'
    OBVIOUS
  <1>1. pc = "insert" /\ pc' = "idle" /\ UNCHANGED <<trie, variants>>
    BY DEF InsertRefused
  <1>2. pos \in DOMAIN trie /\ Taken(trie[pos])
    BY DEF InsertRefused, InsertBlocked, Content, Shape, TypeOK
  <1>3. pos \in Accepted
    BY <1>2 DEF Content, BoundOK
  <1>4. Known' = Known
    BY <1>1, <1>3 DEF Known, Accepted
  <1>5. Shape'
    BY ShapeStep DEF Content, Next
  <1> QED
    BY <1>1, <1>4, <1>5 DEF Content, Tree, BoundOK, Inserting, Accepted

\* At its end the path is the list, and the list is accepted.
LEMMA ContentInsertDone == Content /\ InsertDone => Content'
  <1> SUFFICES ASSUME Content, InsertDone PROVE Content'
    OBVIOUS
  <1>1. /\ pc = "insert" /\ pc' = "idle" /\ func \in Func /\ Len(pos) = Len(goal)
        /\ pos \in DOMAIN trie /\ pos \in Path /\ goal \in Path
        /\ \A p \in DOMAIN trie : /\ trie[p] \in Seq(Nodes) /\ trie[p] # <<>>
                                  /\ LevelOK(trie[p])
        /\ Tree(trie, Known) /\ BoundOK
        /\ goal # <<>> /\ Agrees(goal, pos, Len(pos))
    BY DEF InsertDone, Content, Shape, TypeOK, WildcardLast, Inserting
  <1>2. goal = pos
    BY <1>1, AgreeingIsEqual
  <1>3. /\ DOMAIN trie' = DOMAIN trie
        /\ trie'[pos] = WithFunc(trie[pos], func)
        /\ \A p \in DOMAIN trie : p # pos => trie'[p] = trie[p]
    BY <1>1 DEF InsertDone
  <1>4. /\ DOMAIN variants' = Accepted \cup {pos} /\ variants'[pos] = func
        /\ \A a \in Accepted : a # pos => variants'[a] = variants[a]
    BY <1>2 DEF InsertDone, Accepted
  <1>5. /\ \A u \in Param : Offers(trie'[pos], u) <=> Offers(trie[pos], u)
        /\ trie'[pos][1].func = func
    <2> DEFINE l == trie[pos]
    <2>1. l \in Seq(Nodes) /\ l # <<>> /\ LevelOK(l)
      BY <1>1
    <2> HIDE DEF l
    <2>2. /\ \A u \in Param : Offers(WithFunc(l, func), u) <=> Offers(l, u)
          /\ WithFunc(l, func)[1].func = func
      BY <1>1, <2>1, WithFuncOK
    <2> QED
      BY <1>3, <2>2 DEF l
  <1>6. Known = Accepted \cup {pos} /\ Known' = Accepted \cup {pos}
    BY <1>1, <1>4 DEF Known, Accepted
  <1>7. Tree(trie', Known')
    <2>1. \A p \in DOMAIN trie : \A t \in Param :
              Offers(trie'[p], t) <=> Offers(trie[p], t)
      BY <1>3, <1>5
    <2>2. Tree(trie, Accepted \cup {pos})
      BY <1>1, <1>6
    <2>3. Tree(trie', Accepted \cup {pos})
      BY <1>3, <2>1, <2>2, SameTree
    <2> QED
      BY <1>6, <2>3
  <1>8. BoundOK'
    <2>1. ASSUME NEW a \in Accepted \cup {pos}
          PROVE  a # <<>> /\ a \in DOMAIN trie'
                 /\ (Untagged(trie'[a]) => trie'[a][1].func = variants'[a])
      <3>1. CASE a = pos
        BY <1>1, <1>2, <1>3, <1>4, <1>5, <3>1
      <3>2. CASE a # pos
        BY <1>1, <1>3, <1>4, <3>2 DEF BoundOK
      <3> QED
        BY <3>1, <3>2
    <2>2. ASSUME NEW p \in DOMAIN trie', Taken(trie'[p]) PROVE p \in Accepted \cup {pos}
      BY <1>1, <1>3, <2>2 DEF BoundOK
    <2> QED
      BY <1>4, <2>1, <2>2 DEF BoundOK, Accepted
  <1>9. Shape' /\ Inserting'
    BY <1>1, ShapeStep DEF Content, Next, Inserting
  <1> QED
    BY <1>7, <1>8, <1>9 DEF Content

\* Each step keeps the content.
LEMMA ContentStep == Content /\ [Next]_vars => Content'
  <1> SUFFICES ASSUME Content, [Next]_vars PROVE Content'
    OBVIOUS
  <1>0. /\ \A p \in DOMAIN trie : /\ trie[p] \in Seq(Nodes) /\ trie[p] # <<>>
                                  /\ LevelOK(trie[p])
        /\ DOMAIN trie \subseteq Path
        /\ Tree(trie, Known) /\ BoundOK /\ Inserting
    BY DEF Content, Shape, TypeOK, WildcardLast
  <1>s. Shape'
    BY ShapeStep DEF Content
  <1>1. CASE UNCHANGED vars
    BY <1>0, <1>1, <1>s DEF vars, Content, Tree, Known, BoundOK, Inserting, Accepted
  <1>2. ASSUME NEW list \in ParamLists, NEW f \in Func, Addtotrie(list, f)
        PROVE  Content'
    <2>1. /\ pc = "idle" /\ UNCHANGED <<trie, variants>> /\ pos' = <<>>
          /\ goal' = Backwards(list) /\ (pc' = "insert" => list # <<>>)
      BY <1>2 DEF Addtotrie
    <2>2. Inserting'
      <3>1. list \in Seq(Param)
        BY ListsAssumption DEF Param
      <3>2. Len(Backwards(list)) = Len(list) /\ Backwards(list) \in Seq(Param)
        BY <3>1, BackwardsType
      <3> QED
        BY <2>1, <3>1, <3>2 DEF Inserting, Agrees
    <2>3. Tree(trie, Accepted)
      BY <1>0, <2>1 DEF Known
    <2>4. Tree(trie, Accepted \cup {<<>>})
      BY <1>0, <2>3, EmptyList
    <2>5. Known' = Accepted \/ Known' = Accepted \cup {<<>>}
      BY <2>1 DEF Known, Accepted
    <2>6. Tree(trie', Known')
      BY <2>1, <2>3, <2>4, <2>5
    <2> QED
      BY <1>0, <1>s, <2>1, <2>2, <2>6 DEF Content, BoundOK, Accepted
  <1>3. CASE InsertLevel
    BY <1>3, ContentInsertLevel
  <1>4. CASE InsertRefused
    BY <1>4, ContentInsertRefused
  <1>5. CASE InsertDone
    BY <1>5, ContentInsertDone
  <1>6. ASSUME pc # "insert", pc' # "insert", UNCHANGED <<trie, variants>>
        PROVE  Content'
    BY <1>0, <1>6, <1>s DEF Content, Tree, Known, BoundOK, Inserting, Accepted
  <1>7. CASE \E types \in Stacks : Execute(types)
    BY <1>6, <1>7 DEF Execute
  <1>8. CASE LookupLevel \/ LookupUnderflows \/ LookupMisses \/ LookupDone
    BY <1>6, <1>8 DEF LookupLevel, LookupUnderflows, LookupMisses, LookupDone
  <1>9. CASE Rebuild
    <2>1. /\ pc = "idle" /\ pc' = "idle" /\ UNCHANGED variants
          /\ DOMAIN trie' = DOMAIN trie /\ \A p \in DOMAIN trie : trie'[p] = Copied(trie[p])
      BY <1>9 DEF Rebuild
    <2>2. ASSUME NEW p \in DOMAIN trie
          PROVE  /\ \A u \in Param : Offers(trie'[p], u) <=> Offers(trie[p], u)
                 /\ Untagged(trie'[p]) => trie'[p] = trie[p]
                 /\ Taken(trie'[p]) => Taken(trie[p])
      <3> DEFINE l == trie[p]
      <3>1. l \in Seq(Nodes) /\ l # <<>> /\ LevelOK(l)
        BY <1>0
      <3> HIDE DEF l
      <3>2. /\ \A u \in Param : Offers(Copied(l), u) <=> Offers(l, u)
            /\ Untagged(Copied(l)) <=> Untagged(l)
            /\ Untagged(Copied(l)) => Copied(l) = l
            /\ Taken(Copied(l)) => Taken(l)
        BY <3>1, CopiedOK
      <3> QED
        BY <2>1, <3>2 DEF l
    <2>3. Known' = Known
      BY <2>1 DEF Known, Accepted
    <2>4. Tree(trie', Known)
      BY <1>0, <2>1, <2>2, SameTree
    <2>5. BoundOK'
      BY <1>0, <2>1, <2>2 DEF BoundOK, Accepted
    <2> QED
      BY <1>s, <2>1, <2>3, <2>4, <2>5 DEF Content, Inserting
  <1> QED
    BY <1>1, <1>2, <1>3, <1>4, <1>5, <1>7, <1>8, <1>9 DEF Next

\* Between calls the trie is what the accepted variants make of it: addtotrie
\* leaves no trace of a list it refuses (insert).
THEOREM TrieIsItsVariants == Spec => []TrieIsVariants
  <1>1. Content => TrieIsVariants
    BY DEF Content, Tree, Known, BoundOK, TrieIsVariants, Continues
  <1> QED
    BY <1>1, ContentInit, ContentStep, PTL DEF Spec

-----------------------------------------------------------------------------
(* Executing the trie *)

\* The walk of lookup is greedy all along, and replies only at its end.
Walk ==
    /\ pc # "idle" => reply = "none"
    /\ pc = "lookup" => Len(pos) <= Len(goal) /\ Greedy(pos, goal)
    /\ LookupIsGreedy

\* What a level offers is what the variants go on with, and no type is offered
\* twice.
LEMMA LookupContent ==
    ASSUME Content, pc = "lookup"
    PROVE  /\ pos \in DOMAIN trie /\ pos \in Path /\ goal \in Path
           /\ trie[pos] \in Seq(Nodes) /\ trie[pos] # <<>> /\ LevelOK(trie[pos])
           /\ Accepted \subseteq Path
           /\ \A t \in Param : Offers(trie[pos], t) <=> Continues(pos, t)
           /\ pos = <<>> \/ \E a \in Accepted : Agrees(a, pos, Len(pos))
           /\ BoundOK
  BY DEF Content, Shape, TypeOK, WildcardLast, Tree, Known, Accepted, Continues

\* One more greedy step makes a longer greedy path.
LEMMA WalkLookupLevel == Content /\ Walk /\ LookupLevel => Walk'
  <1> SUFFICES ASSUME Content, Walk, LookupLevel PROVE Walk'
    OBVIOUS
  <1> DEFINE l == trie[pos]
             t == goal[Len(pos) + 1]
  <1>1. /\ pc = "lookup" /\ pc' = "lookup" /\ reply = "none" /\ reply' = "none"
        /\ Len(pos) < Len(goal) /\ Greedy(pos, goal)
        /\ UNCHANGED <<goal, variants>>
    BY DEF LookupLevel, Walk
  <1>2. /\ pos \in Path /\ goal \in Path
        /\ l \in Seq(Nodes) /\ l # <<>> /\ LevelOK(l) /\ Accepted \subseteq Path
        /\ \A u \in Param : Offers(l, u) <=> Continues(pos, u)
        /\ ~ Untagged(l)
    BY <1>1, LookupContent DEF LookupLevel
  <1>3. PICK i \in DOMAIN l : Picks(l, t, i) /\ pos' = Append(pos, l[i].tag)
    BY DEF LookupLevel
  <1>4. t \in Param /\ Len(pos) \in Nat /\ Len(goal) \in Nat
    BY <1>1, <1>2 DEF Path
  <1>t. t = goal[Len(pos) + 1]
    OBVIOUS
  <1> HIDE DEF l, t
  <1>5. l[i].tag \in Param /\ Len(l) \in Nat /\ DOMAIN l = 1..Len(l)
    BY <1>2, <1>3, TaggedOffers
  <1>6. /\ Len(pos') = Len(pos) + 1 /\ pos'[Len(pos) + 1] = l[i].tag
        /\ \A j \in 1..Len(pos) : pos'[j] = pos[j]
    BY <1>2, <1>3, <1>5, AppendElement DEF Path
  <1>7. \/ l[i].tag = t
        \/ l[i].tag = AnyType /\ ~ Continues(pos, t)
    <2> SUFFICES ASSUME l[i].tag # t PROVE l[i].tag = AnyType /\ ~ Continues(pos, t)
      OBVIOUS
    <2>1. l[i].tag = AnyType
      BY <1>3 DEF Picks, Fits
    <2>2. i = Len(l)
      BY <1>2, <1>5, <2>1 DEF LevelOK
    <2>3. ASSUME NEW j \in DOMAIN l, l[j].tag = t PROVE FALSE
      <3>1. j \in 1..i-1
        BY <1>5, <2>2, <2>3
      <3> QED
        BY <1>3, <2>3, <3>1 DEF Picks, Fits
    <2> QED
      BY <1>2, <1>4, <2>1, <2>3 DEF Offers
  <1>8. ASSUME NEW k \in 1..Len(pos) + 1
        PROVE  \/ pos'[k] = goal[k]
               \/ pos'[k] = AnyType /\ \A a \in Accepted : ~ GoesOn(a, pos', k - 1, goal[k])
    <2>1. \A a \in Accepted : GoesOn(a, pos', k - 1, goal[k]) <=> GoesOn(a, pos, k - 1, goal[k])
      BY <1>4, <1>6 DEF GoesOn, Agrees
    <2>2. CASE k <= Len(pos)
      BY <1>1, <1>4, <1>6, <2>1, <2>2 DEF Greedy
    <2>3. CASE k = Len(pos) + 1
      BY <1>t, <1>4, <1>6, <1>7, <2>1, <2>3 DEF Continues
    <2> QED
      BY <1>4, <2>2, <2>3
  <1>9. Greedy(pos, goal)'
    BY <1>1, <1>4, <1>6, <1>8 DEF Greedy, Accepted
  <1> QED
    BY <1>1, <1>4, <1>6, <1>9 DEF Walk, LookupIsGreedy

\* A walk that ends at a level without types has come to a variant that none
\* goes on from.
LEMMA WalkLookupDone == Content /\ Walk /\ LookupDone => Walk'
  <1> SUFFICES ASSUME Content, Walk, LookupDone PROVE Walk'
    OBVIOUS
  <1>1. /\ pc = "lookup" /\ pc' = "idle" /\ reply' = "found" /\ Untagged(trie[pos])
        /\ func' = trie[pos][1].func /\ UNCHANGED <<goal, pos, variants>>
        /\ Len(pos) <= Len(goal) /\ Greedy(pos, goal)
    BY DEF LookupDone, Walk
  <1>2. /\ pos \in DOMAIN trie /\ pos \in Path /\ Accepted \subseteq Path
        /\ trie[pos] \in Seq(Nodes) /\ trie[pos] # <<>> /\ LevelOK(trie[pos])
        /\ \A t \in Param : Offers(trie[pos], t) <=> Continues(pos, t)
        /\ pos = <<>> \/ \E a \in Accepted : Agrees(a, pos, Len(pos))
        /\ BoundOK
    BY <1>1, LookupContent
  <1>3. \A t \in Param : ~ Continues(pos, t)
    BY <1>1, <1>2, UntaggedOffersNothing
  <1>4. ASSUME NEW a \in Accepted, Agrees(a, pos, Len(pos)) PROVE a = pos
    <2>1. a \in Path /\ Len(a) \in Nat /\ Len(pos) \in Nat /\ Len(a) >= Len(pos)
      BY <1>2, <1>4 DEF Path, Agrees
    <2>2. CASE Len(a) = Len(pos)
      BY <1>2, <1>4, <2>1, <2>2, AgreeingIsEqual
    <2>3. CASE Len(a) > Len(pos)
      <3>1. a[Len(pos) + 1] \in Param
        BY <2>1, <2>3 DEF Path
      <3> QED
        BY <1>3, <1>4, <2>3, <3>1 DEF Continues, GoesOn
    <2> QED
      BY <2>1, <2>2, <2>3
  <1>5. ASSUME Accepted = {} PROVE func' = NoFunc
    BY <1>1, <1>2, <1>5 DEF BoundOK, Taken
  <1>6. ASSUME Accepted # {} PROVE pos \in Accepted /\ func' = variants[pos]
    <2>1. \A a \in Accepted : Agrees(a, <<>>, 0)
      BY <1>2 DEF Agrees, Path
    <2>2. pos \in Accepted
      BY <1>2, <1>4, <1>6, <2>1
    <2>3. func' = variants[pos]
      BY <1>1, <1>2, <2>2 DEF BoundOK
    <2> QED
      BY <2>2, <2>3
  <1>7. /\ Greedy(pos, goal)' /\ Len(pos)' <= Len(goal)'
        /\ Accepted' = Accepted
        /\ (\A t \in Param : ~ Continues(pos, t))'
    BY <1>1, <1>3 DEF Greedy, Continues, Accepted
  <1>8. IF Accepted' = {} THEN func' = NoFunc
        ELSE pos' \in Accepted' /\ func' = variants'[pos']
    BY <1>1, <1>5, <1>6, <1>7
  <1> QED
    BY <1>1, <1>7, <1>8 DEF Walk, LookupIsGreedy

\* Each step keeps the walk greedy.
LEMMA WalkStep == Content /\ Walk /\ [Next]_vars => Walk'
  <1> SUFFICES ASSUME Content, Walk, [Next]_vars PROVE Walk'
    OBVIOUS
  <1>1. CASE UNCHANGED vars
    BY <1>1 DEF vars, Walk, LookupIsGreedy, Greedy, Continues, Accepted
  <1>2. ASSUME reply' \in {"none", "NoTypes", "added", "Ambiguous"}, pc' # "lookup",
               pc' # "idle" => reply' = "none"
        PROVE  Walk'
    BY <1>2 DEF Walk, LookupIsGreedy
  <1>3. CASE \E list \in ParamLists, f \in Func : Addtotrie(list, f)
    BY <1>2, <1>3 DEF Addtotrie
  <1>4. CASE InsertLevel \/ InsertRefused \/ InsertDone
    BY <1>2, <1>4 DEF InsertLevel, InsertRefused, InsertDone, Walk
  <1>5. ASSUME NEW types \in Stacks, Execute(types) PROVE Walk'
    <2>1. types \in Seq(Param)
      BY ListsAssumption DEF Param
    <2>2. Len(Backwards(types)) \in Nat
      BY <2>1, BackwardsType
    <2> QED
      BY <1>5, <2>2 DEF Execute, Walk, LookupIsGreedy, Greedy
  <1>6. CASE LookupLevel
    BY <1>6, WalkLookupLevel
  <1>7. CASE LookupUnderflows
    <2>1. /\ pc = "lookup" /\ pc' = "idle" /\ reply' = "StackUnderflow"
          /\ UNCHANGED <<goal, pos, variants>> /\ ~ Untagged(trie[pos])
          /\ Len(pos) <= Len(goal) /\ Greedy(pos, goal) /\ Len(pos) >= Len(goal)
      BY <1>7 DEF LookupUnderflows, Walk
    <2>2. Len(pos) = Len(goal)
      BY <2>1, LookupContent DEF Path
    <2>3. \E t \in Param : Continues(pos, t)
      BY <2>1, LookupContent, TaggedOffers
    <2> QED
      BY <2>1, <2>2, <2>3 DEF Walk, LookupIsGreedy, Greedy, Continues, Accepted
  <1>8. CASE LookupMisses
    <2> DEFINE t == goal[Len(pos) + 1]
    <2>1. /\ pc = "lookup" /\ pc' = "idle" /\ reply' = "ArgumentType"
          /\ UNCHANGED <<goal, pos, variants>> /\ ~ Untagged(trie[pos])
          /\ Len(pos) <= Len(goal) /\ Greedy(pos, goal) /\ Len(pos) < Len(goal)
          /\ \A i \in DOMAIN trie[pos] : ~ Fits(trie[pos][i], t)
      BY <1>8 DEF LookupMisses, Walk
    <2>2. t \in Param /\ AnyType \in Param
      BY <2>1, LookupContent DEF Path, Param
    <2>t. t = goal[Len(pos) + 1]
      OBVIOUS
    <2> HIDE DEF t
    <2>3. ~ Offers(trie[pos], t) /\ ~ Offers(trie[pos], AnyType)
      BY <2>1 DEF Offers, Fits
    <2>4. ~ Continues(pos, t) /\ ~ Continues(pos, AnyType)
      BY <2>1, <2>2, <2>3, LookupContent
    <2>5. \E u \in Param : Continues(pos, u)
      BY <2>1, LookupContent, TaggedOffers
    <2> QED
      BY <2>1, <2>4, <2>5, <2>t DEF Walk, LookupIsGreedy, Greedy, Continues, Accepted
  <1>9. CASE LookupDone
    BY <1>9, WalkLookupDone
  <1>10. CASE Rebuild
    BY <1>10 DEF Rebuild, Walk, LookupIsGreedy, Greedy, Continues, Accepted
  <1> QED
    BY <1>1, <1>3, <1>4, <1>5, <1>6, <1>7, <1>8, <1>9, <1>10 DEF Next

\* What executing a trie comes to is decided by the variants alone: lookup
\* takes the exact type before the wildcard, and never goes back.
THEOREM LookupTakesTheGreedyPath == Spec => []LookupIsGreedy
  <1>1. Init => Walk
    BY DEF Init, Walk, LookupIsGreedy
  <1>2. Walk => LookupIsGreedy
    BY DEF Walk
  <1> QED
    BY <1>1, <1>2, ContentInit, ContentStep, WalkStep, PTL DEF Spec

=============================================================================
