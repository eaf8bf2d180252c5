--------------------------- MODULE DictStackProofs ---------------------------
(***************************************************************************)
(* The coherence of the caches of the dictionary stack, proved for every   *)
(* set of names and dictionaries and every depth.                          *)
(***************************************************************************)
EXTENDS DictStackImplements, FiniteSetTheorems, TLAPS

USE DEF NoAnswer, Answers, AnswersAnything, caches, stack, Live

-----------------------------------------------------------------------------
(* How often a dictionary occurs on a stack *)

\* The positions of a dictionary on a stack are finitely many.
LEMMA OccurrencesFinite ==
    ASSUME NEW s \in Seq(Dict), NEW x
    PROVE  /\ IsFiniteSet({i \in 1..Len(s) : s[i] = x})
           /\ Occurrences(s, x) \in Nat
  <1>1. IsFiniteSet(1..Len(s))
    BY FS_Interval
  <1>2. IsFiniteSet({i \in 1..Len(s) : s[i] = x})
    BY <1>1, FS_Subset
  <1> QED
    BY <1>2, FS_CardinalityType DEF Occurrences

\* A push adds one occurrence of what it pushes.
LEMMA OccurrencesAppend ==
    ASSUME NEW s \in Seq(Dict), NEW x \in Dict, NEW y \in Dict
    PROVE  Occurrences(Append(s, x), y) =
               IF y = x THEN Occurrences(s, y) + 1 ELSE Occurrences(s, y)
  <1> DEFINE P == {i \in 1..Len(s) : s[i] = y}
             Q == {i \in 1..Len(Append(s, x)) : Append(s, x)[i] = y}
  <1>1. IsFiniteSet(P)
    BY OccurrencesFinite
  <1>2. Q = IF y = x THEN P \cup {Len(s) + 1} ELSE P
    OBVIOUS
  <1>3. Len(s) + 1 \notin P
    OBVIOUS
  <1>4. Cardinality(P \cup {Len(s) + 1}) = Cardinality(P) + 1
    BY <1>1, <1>3, FS_AddElement
  <1> QED
    BY <1>2, <1>4 DEF Occurrences

\* A pop takes one occurrence of the top away.
LEMMA OccurrencesPop ==
    ASSUME NEW s \in Seq(Dict), s # <<>>, NEW y \in Dict
    PROVE  Occurrences(s, y) =
               IF y = s[Len(s)]
               THEN Occurrences(SubSeq(s, 1, Len(s) - 1), y) + 1
               ELSE Occurrences(SubSeq(s, 1, Len(s) - 1), y)
  <1> DEFINE f == SubSeq(s, 1, Len(s) - 1)
  <1>1. f \in Seq(Dict) /\ s[Len(s)] \in Dict /\ s = Append(f, s[Len(s)])
    OBVIOUS
  <1>2. Occurrences(Append(f, s[Len(s)]), y) =
           IF y = s[Len(s)] THEN Occurrences(f, y) + 1 ELSE Occurrences(f, y)
    BY <1>1, OccurrencesAppend
  <1> QED
    BY <1>1, <1>2

\* What is somewhere on a stack occurs at least once.
LEMMA OccurrencesPositive ==
    ASSUME NEW s \in Seq(Dict), NEW i \in 1..Len(s)
    PROVE  Occurrences(s, s[i]) > 0
  <1> DEFINE P == {j \in 1..Len(s) : s[j] = s[i]}
  <1>1. IsFiniteSet(P) /\ P # {}
    BY OccurrencesFinite
  <1>2. Cardinality(P) # 0 /\ Cardinality(P) \in Nat
    BY <1>1, FS_EmptySet, FS_CardinalityType
  <1> QED
    BY <1>2 DEF Occurrences

-----------------------------------------------------------------------------
(* Type correctness *)

\* Types alone are not inductive: base and the top of the stack are
\* dictionaries only because the stack is never empty while it is in use.
StackOK == TypeOK /\ BaseIsBottom /\ RefsCoverStack

CacheType == [Name -> Dict \cup {Null, Freed}]

\* The cache helpers keep the type of a cache.
LEMMA ForgetType ==
    ASSUME NEW c \in CacheType, NEW x \in Dict, NEW S \in SUBSET Name
    PROVE  /\ WithoutNames(c, S) \in CacheType
           /\ ForgetIfOnStack(c, x, S) \in CacheType
           /\ FreeNodes(c, S) \in CacheType
  BY DictsAssumption DEF WithoutNames, ForgetIfOnStack, FreeNodes, CacheType

\* Forgetting the keys of a dictionary (begin, end, cleardict) keeps the type of a cache.
LEMMA ForgetKeysType ==
    ASSUME NEW c \in CacheType, NEW x \in Dict
    PROVE  /\ ClearDictFromCache(c, x) \in CacheType
           /\ ForgetKeys(c, x) \in CacheType
           /\ NullCache \in CacheType
  BY ForgetType
  DEF ClearDictFromCache, ForgetKeys, Keys, NullCache, CacheType, WithoutNames,
      ForgetIfOnStack

\* baselookup keeps the type of a cache.
LEMMA BaseFillType ==
    ASSUME NEW c \in CacheType, NEW b \in Dict, NEW n \in Name
    PROVE  BaseFill(c, b, n) \in CacheType
  BY DEF BaseFill, CacheType

\* A stack of more than one dictionary can lose its top.
LEMMA PopType ==
    ASSUME NEW s \in Seq(Dict), Len(s) > 1
    PROVE  /\ SubSeq(s, 1, Len(s) - 1) \in Seq(Dict)
           /\ SubSeq(s, 1, Len(s) - 1) # <<>>
           /\ Len(SubSeq(s, 1, Len(s) - 1)) = Len(s) - 1
           /\ \A i \in 1..(Len(s) - 1) : SubSeq(s, 1, Len(s) - 1)[i] = s[i]
  <1> DEFINE f == SubSeq(s, 1, Len(s) - 1)
  <1>1. f \in Seq(Dict) /\ Len(f) = Len(s) - 1
    OBVIOUS
  <1>2. f # <<>>
    <2> HIDE DEF f
    <2> QED
      BY <1>1
  <1>3. \A i \in 1..(Len(s) - 1) : f[i] = s[i]
    OBVIOUS
  <1> QED
    BY <1>1, <1>2, <1>3

\* While the interpreter runs, the top and the base are dictionaries.
LEMMA TopAndBase ==
    StackOK /\ Live => d # <<>> /\ Top \in Dict /\ base \in Dict
  BY DEF StackOK, TypeOK, BaseIsBottom, Top

\* rebuilding the stack keeps the counters natural numbers.
LEMMA RebuildType ==
    ASSUME NEW s \in Seq(Dict), TypeOK, Rebuild(s)
    PROVE  /\ d' = s /\ refs' \in [Dict -> Nat] /\ snap' = <<>>
           /\ cache' = NullCache /\ basecache' = NullCache
           /\ \A x \in Dict : refs'[x] >= Occurrences(s, x)
  <1>1. \A x \in Dict : Occurrences(s, x) \in Nat
    BY OccurrencesFinite
  <1> QED
    BY <1>1 DEF Rebuild, TypeOK

\* The three permanent dictionaries are a stack.
LEMMA PermanentStackType ==
    PermanentStack \in Seq(Dict) /\ PermanentStack # <<>>
    /\ PermanentStack[1] = SystemDict
  BY DictsAssumption DEF PermanentStack, PermanentDicts

\* A fresh stack: each permanent dictionary is counted once.
LEMMA OccurrencesPermanent ==
    ASSUME NEW x \in Dict
    PROVE  Occurrences(PermanentStack, x) =
               IF x \in PermanentDicts THEN 1 ELSE 0
  <1> DEFINE P == {i \in 1..Len(PermanentStack) : PermanentStack[i] = x}
  <1>1. /\ SystemDict # GlobalDict
        /\ SystemDict # UserDict
        /\ GlobalDict # UserDict
    <2>1. \A a, b : IsFiniteSet({a, b}) /\ Cardinality({a, b}) <= 2
      <3> SUFFICES ASSUME NEW a, NEW b
                   PROVE  IsFiniteSet({a, b}) /\ Cardinality({a, b}) <= 2
        OBVIOUS
      <3>1. IsFiniteSet({a}) /\ Cardinality({a}) = 1 /\ {a} \cup {b} = {a, b}
        BY FS_Singleton
      <3>2. IsFiniteSet({a} \cup {b})
            /\ Cardinality({a} \cup {b}) = IF b \in {a} THEN 1 ELSE 1 + 1
        BY <3>1, FS_AddElement
      <3> QED
        BY <3>1, <3>2
    <2>2. SystemDict = GlobalDict => PermanentDicts = {SystemDict, UserDict}
      BY DEF PermanentDicts
    <2>3. SystemDict = UserDict => PermanentDicts = {SystemDict, GlobalDict}
      BY DEF PermanentDicts
    <2>4. GlobalDict = UserDict => PermanentDicts = {SystemDict, GlobalDict}
      BY DEF PermanentDicts
    <2>5. Cardinality(PermanentDicts) = 3 /\ ~ (3 <= 2)
      BY DictsAssumption
    <2>6. SystemDict # GlobalDict
      BY <2>1, <2>2, <2>5
    <2>7. SystemDict # UserDict
      BY <2>1, <2>3, <2>5
    <2>8. GlobalDict # UserDict
      BY <2>1, <2>4, <2>5
    <2> QED
      BY <2>6, <2>7, <2>8
  <1>2. P = IF x = SystemDict THEN {1} ELSE IF x = GlobalDict THEN {2}
            ELSE IF x = UserDict THEN {3} ELSE {}
    BY <1>1 DEF PermanentStack
  <1>3. \A k \in Nat : Cardinality({k}) = 1
    BY FS_Singleton
  <1>4. Cardinality(P) = IF x \in PermanentDicts THEN 1 ELSE 0
    BY <1>2, <1>3, FS_EmptySet DEF PermanentDicts
  <1> QED
    BY <1>4 DEF Occurrences

\* After init() the three permanent dictionaries are counted once each,
\* and systemdict is the base.
LEMMA StackOKInit == Init => StackOK
  <1> SUFFICES ASSUME Init PROVE StackOK
    OBVIOUS
  <1>1. cache \in CacheType /\ basecache \in CacheType
    BY DictsAssumption DEF Init, PermanentDicts, CacheType, NullCache
  <1>2. refs \in [Dict -> Nat]
    BY DEF Init
  <1>3. TypeOK
    BY <1>1, <1>2, PermanentStackType, DictsAssumption, ValuesAssumption
    DEF Init, TypeOK, PermanentDicts, CacheType
  <1>4. BaseIsBottom
    BY PermanentStackType DEF Init, BaseIsBottom
  <1>5. RefsCoverStack
    BY OccurrencesPermanent DEF Init, RefsCoverStack
  <1> QED
    BY <1>3, <1>4, <1>5 DEF StackOK

\* What leaves the stack alone leaves base and the counters right.
LEMMA SameStack ==
    ASSUME StackOK, UNCHANGED <<d, base, refs>>,
           status = "wild" => status' = "wild"
    PROVE  BaseIsBottom' /\ RefsCoverStack'
  <1>1. BaseIsBottom'
    BY DEF StackOK, BaseIsBottom
  <1>2. RefsCoverStack'
    BY DEF StackOK, RefsCoverStack
  <1> QED
    BY <1>1, <1>2

\* push (begin and call) keeps the stack part: base is still the bottom,
\* and what is pushed is counted.
LEMMA PushKeepsStackOK ==
    ASSUME StackOK, NEW x \in Dict, Push(x)
    PROVE  /\ d' \in Seq(Dict) /\ refs' \in [Dict -> Nat]
           /\ BaseIsBottom' /\ RefsCoverStack'
  <1>1. d \in Seq(Dict) /\ refs \in [Dict -> Nat] /\ d' = Append(d, x)
    BY DEF StackOK, TypeOK, Push
  <1>2. d' \in Seq(Dict) /\ d' # <<>> /\ (d # <<>> => d'[1] = d[1])
    BY <1>1
  <1>3. refs' \in [Dict -> Nat]
        /\ \A y \in Dict : refs'[y] = IF y = x THEN refs[y] + 1 ELSE refs[y]
    BY <1>1 DEF Push
  <1>4. BaseIsBottom'
    BY <1>2 DEF Push, StackOK, BaseIsBottom
  <1>5. RefsCoverStack'
    <2> SUFFICES ASSUME NEW y \in Dict PROVE refs'[y] >= Occurrences(d', y)
      BY DEF RefsCoverStack
    <2>1. refs[y] >= Occurrences(d, y) /\ Occurrences(d, y) \in Nat
      BY <1>1, OccurrencesFinite DEF StackOK, RefsCoverStack
    <2>2. Occurrences(d', y) =
             IF y = x THEN Occurrences(d, y) + 1 ELSE Occurrences(d, y)
      BY <1>1, OccurrencesAppend
    <2> QED
      BY <1>1, <1>3, <2>1, <2>2
  <1> QED
    BY <1>2, <1>3, <1>4, <1>5

\* end keeps the stack part: the guard leaves the permanent dictionaries,
\* so the bottom, and takes back one count of the top.
LEMMA EndKeepsStackOK ==
    ASSUME StackOK, End
    PROVE  /\ d' \in Seq(Dict) /\ refs' \in [Dict -> Nat]
           /\ BaseIsBottom' /\ RefsCoverStack'
  <1>1. /\ d \in Seq(Dict) /\ refs \in [Dict -> Nat] /\ Len(d) > 3
        /\ d # <<>> /\ Top \in Dict /\ Top = d[Len(d)]
    BY TopAndBase DEF StackOK, TypeOK, End, EndAllowed, Top
  <1>2. d' = SubSeq(d, 1, Len(d) - 1) /\ refs' = [refs EXCEPT ![Top] = @ - 1]
    BY DEF End
  <1>3. d' \in Seq(Dict) /\ d' # <<>> /\ d'[1] = d[1]
    <2>1. 1 \in 1..(Len(d) - 1)
      BY <1>1
    <2>2. Len(d) > 1
      BY <1>1
    <2>3. /\ SubSeq(d, 1, Len(d) - 1) \in Seq(Dict)
          /\ SubSeq(d, 1, Len(d) - 1) # <<>>
          /\ \A i \in 1..(Len(d) - 1) : SubSeq(d, 1, Len(d) - 1)[i] = d[i]
      BY <1>1, <2>2, PopType
    <2> QED
      BY <1>2, <2>1, <2>3
  <1>4. BaseIsBottom'
    BY <1>1, <1>3 DEF End, StackOK, BaseIsBottom
  <1>5. ASSUME NEW y \in Dict
        PROVE  refs'[y] \in Nat /\ refs'[y] >= Occurrences(d', y)
    <2>1. refs[y] >= Occurrences(d, y)
      BY DEF StackOK, RefsCoverStack
    <2>2. Occurrences(d, y) \in Nat /\ Occurrences(d', y) \in Nat
      BY <1>1, <1>3, OccurrencesFinite
    <2>3. Occurrences(d, y) =
             IF y = Top THEN Occurrences(d', y) + 1 ELSE Occurrences(d', y)
      BY <1>1, <1>2, OccurrencesPop
    <2>4. refs'[y] = IF y = Top THEN refs[y] - 1 ELSE refs[y]
      BY <1>1, <1>2
    <2>5. refs[y] \in Nat
      BY <1>1
    <2> QED
      BY <2>1, <2>2, <2>3, <2>4, <2>5
  <1>6. refs' \in [Dict -> Nat]
    BY <1>1, <1>2, <1>5
  <1> QED
    BY <1>3, <1>4, <1>5, <1>6 DEF RefsCoverStack

\* Every operator keeps the stack part of the invariant.
LEMMA StackOKStep == StackOK /\ [Next]_vars => StackOK'
  <1> SUFFICES ASSUME StackOK, [Next]_vars PROVE StackOK'
    OBVIOUS
  <1> USE DEF StackOK
  <1>0. TypeOK /\ cache \in CacheType /\ basecache \in CacheType
    BY DEF TypeOK, CacheType
  <1>1. CASE UNCHANGED vars
    BY <1>1 DEF vars, TypeOK, BaseIsBottom, RefsCoverStack
  <1>2. ASSUME NEW n \in Name, Lookup(n) PROVE StackOK'
    <2>1. CASE LookupHit(n)
      BY <1>2, <2>1, SameStack DEF Lookup, LookupHit, TypeOK
    <2>2. CASE LookupFreed(n)
      BY <1>2, <2>2, SameStack DEF Lookup, LookupFreed, TypeOK
    <2>3. CASE LookupWalk(n)
      BY <1>2, <2>3, SameStack DEF Lookup, LookupWalk, TypeOK
    <2>4. CASE LookupMiss(n)
      BY <1>2, <2>4, SameStack DEF Lookup, LookupMiss, TypeOK
    <2> QED
      BY <1>2, <2>1, <2>2, <2>3, <2>4 DEF Lookup
  <1>3. ASSUME NEW n \in BaseNames, BaseLookup(n) PROVE StackOK'
    <2>1. n \in Name /\ base \in Dict
      BY <1>3, NamesAssumption, TopAndBase DEF BaseLookup
    <2>2. cache' \in CacheType /\ basecache' \in CacheType
      BY <1>0, <1>3, <2>1, BaseFillType DEF BaseLookup
    <2>3. answer' \in Name \X (Value \cup {Unbound})
      BY <1>0, <1>3, <2>1 DEF BaseLookup, TypeOK
    <2> QED
      BY <1>0, <1>3, <2>2, <2>3, SameStack DEF BaseLookup, TypeOK, CacheType
  <1>4. ASSUME NEW x \in Dict, Begin(x) PROVE StackOK'
    <2>1. cache' \in CacheType
      BY <1>0, <1>4, ForgetKeysType DEF Begin
    <2>2. Push(x) /\ UNCHANGED basecache /\ answer' = <<>>
      BY <1>4 DEF Begin
    <2>3. /\ d' \in Seq(Dict) /\ refs' \in [Dict -> Nat]
          /\ BaseIsBottom' /\ RefsCoverStack'
      BY <2>2, PushKeepsStackOK
    <2> QED
      BY <1>0, <2>1, <2>2, <2>3 DEF Push, TypeOK, CacheType
  <1>5. ASSUME NEW x \in Dict, CallMember(x) PROVE StackOK'
    <2>1. EndName \in Name /\ base \in Dict
      BY <1>5, NamesAssumption, TopAndBase DEF CallMember
    <2>2. ClearDictFromCache(cache, x) \in CacheType
      BY <1>0, ForgetKeysType
    <2>3. cache' \in CacheType /\ basecache' \in CacheType
      BY <1>0, <1>5, <2>1, <2>2, BaseFillType DEF CallMember
    <2>4. Push(x) /\ answer' = <<>>
      BY <1>5 DEF CallMember
    <2>5. /\ d' \in Seq(Dict) /\ refs' \in [Dict -> Nat]
          /\ BaseIsBottom' /\ RefsCoverStack'
      BY <2>4, PushKeepsStackOK
    <2> QED
      BY <1>0, <2>3, <2>4, <2>5 DEF Push, TypeOK, CacheType
  <1>6. CASE End
    <2>1. Top \in Dict
      BY <1>6, TopAndBase DEF End
    <2>2. cache' \in CacheType
      BY <1>0, <1>6, <2>1, ForgetKeysType DEF End
    <2> QED
      BY <1>0, <1>6, <2>2, EndKeepsStackOK DEF End, TypeOK, CacheType
  <1>7. CASE Dictstack
    BY <1>7, SameStack DEF Dictstack, TypeOK
  <1>8. CASE Cleardictstack
    <2>1. Rebuild(PermanentStack) /\ base' = SystemDict /\ SystemDict \in Dict
      BY <1>8, DictsAssumption DEF Cleardictstack, PermanentDicts
    <2>2. /\ d' = PermanentStack /\ refs' \in [Dict -> Nat] /\ snap' = <<>>
          /\ cache' = NullCache /\ basecache' = NullCache
          /\ \A x \in Dict : refs'[x] >= Occurrences(d', x)
      BY <1>0, <2>1, PermanentStackType, RebuildType
    <2>3. NullCache \in CacheType
      BY DEF NullCache, CacheType
    <2>4. d' \in Seq(Dict) /\ snap' \in Seq(Dict) /\ base' \in Dict \cup {Null}
      BY <2>1, <2>2, PermanentStackType
    <2>5. cache' \in CacheType /\ basecache' \in CacheType
      BY <2>2, <2>3
    <2>6. TypeOK'
      BY <1>0, <1>8, <2>2, <2>4, <2>5 DEF Cleardictstack, TypeOK, CacheType
    <2>7. BaseIsBottom'
      BY <2>1, <2>2, PermanentStackType DEF BaseIsBottom
    <2>8. RefsCoverStack'
      BY <2>2 DEF RefsCoverStack
    <2> QED
      BY <2>6, <2>7, <2>8
  <1>9. ASSUME NEW s \in Arrays, Restoredstack(s) PROVE StackOK'
    <2>1. s \in Seq(Dict) /\ Rebuild(s) /\ base' = Rebase(s)
      BY <1>9, ValuesAssumption DEF Restoredstack
    <2>2. /\ d' = s /\ refs' \in [Dict -> Nat] /\ snap' = <<>>
          /\ cache' = NullCache /\ basecache' = NullCache
          /\ \A x \in Dict : refs'[x] >= Occurrences(d', x)
      BY <1>0, <2>1, RebuildType
    <2>3. NullCache \in CacheType
      BY DEF NullCache, CacheType
    <2>4. /\ base' \in Dict \cup {Null}
          /\ s # <<>> => base' = s[1]
      BY <2>1 DEF Rebase
    <2>5. TypeOK'
      <3>1. d' \in Seq(Dict) /\ snap' \in Seq(Dict) /\ base' \in Dict \cup {Null}
        BY <2>1, <2>2, <2>4
      <3>2. cache' \in CacheType /\ basecache' \in CacheType
        BY <2>2, <2>3
      <3>3. /\ locked' = locked /\ bind' = bind /\ answer' = <<>>
            /\ status' \in {"wild", status}
        BY <1>9 DEF Restoredstack
      <3> QED
        BY <1>0, <2>2, <3>1, <3>2, <3>3 DEF TypeOK, CacheType
    <2>6. BaseIsBottom'
      BY <1>9, <2>2, <2>4 DEF Restoredstack, BaseIsBottom
    <2>7. RefsCoverStack'
      BY <2>2 DEF RefsCoverStack
    <2> QED
      BY <2>5, <2>6, <2>7
  <1>10. ASSUME NEW n \in Definable, NEW v \in Value, Def(n, v) PROVE StackOK'
    <2>1. n \in Name /\ Top \in Dict
      BY <1>10, ValuesAssumption, TopAndBase DEF Def
    <2> QED
      BY <1>10, <2>1, SameStack DEF Def, DefCached, TypeOK
  <1>11. ASSUME NEW x \in Dict, NEW n \in Definable, NEW v \in Value,
                Put(x, n, v)
         PROVE  StackOK'
    <2>1. n \in Name /\ {n} \in SUBSET Name
      BY ValuesAssumption
    <2>2. cache' \in CacheType /\ basecache' \in CacheType
      BY <1>0, <1>11, <2>1, ForgetType DEF Put
    <2> QED
      BY <1>0, <1>11, <2>1, <2>2, SameStack DEF Put, TypeOK, CacheType
  <1>12. ASSUME NEW n \in Definable, Undef(n) PROVE StackOK'
    <2>1. n \in Name /\ {n} \in SUBSET Name /\ Top \in Dict
      BY <1>12, ValuesAssumption, TopAndBase DEF Undef
    <2>2. cache' \in CacheType /\ basecache' \in CacheType
      BY <1>0, <1>12, <2>1, ForgetType DEF Undef
    <2> QED
      BY <1>0, <1>12, <2>1, <2>2, SameStack DEF Undef, TypeOK, CacheType
  <1>13. ASSUME NEW x \in Dict, Cleardict(x) PROVE StackOK'
    <2>1. cache' \in CacheType /\ basecache' \in CacheType
      BY <1>0, <1>13, ForgetKeysType DEF Cleardict
    <2> QED
      BY <1>0, <1>13, <2>1, SameStack DEF Cleardict, TypeOK, CacheType
  <1>14. ASSUME NEW x \in Narrowable, Narrow(x) PROVE StackOK'
    BY <1>14, ValuesAssumption, SameStack DEF Narrow, TypeOK
  <1>15. ASSUME NEW S \in SUBSET ErrNames, NEW v \in Value, RaiseError(S, v)
         PROVE  StackOK'
    <2>1. StopName \in Name /\ base \in Dict /\ ErrorDict \in Dict
      BY <1>15, NamesAssumption, DictsAssumption, TopAndBase DEF RaiseError
    <2>2. cache' \in CacheType /\ basecache' \in CacheType
      BY <1>0, <1>15, <2>1, BaseFillType DEF RaiseError
    <2>3. bind' \in [Dict -> [Name -> Value \cup {Unbound}]]
      BY <1>0, <1>15, <2>1 DEF RaiseError, TypeOK
    <2> QED
      BY <1>0, <1>15, <2>2, <2>3, SameStack DEF RaiseError, TypeOK, CacheType
  <1>16. ASSUME NEW S \in SUBSET EraseNames, PrintError(S) PROVE StackOK'
    <2>1. S \in SUBSET Name /\ ErrorDict \in Dict
      BY NamesAssumption, DictsAssumption
    <2>2. cache' \in CacheType /\ basecache' \in CacheType
      BY <1>0, <1>16, <2>1, ForgetType DEF PrintError
    <2>3. bind' \in [Dict -> [Name -> Value \cup {Unbound}]]
      BY <1>0, <1>16, <2>1 DEF PrintError, TypeOK
    <2> QED
      BY <1>0, <1>16, <2>2, <2>3, SameStack DEF PrintError, TypeOK, CacheType
  <1> QED
    BY <1>1, <1>2, <1>3, <1>4, <1>5, <1>6, <1>7, <1>8, <1>9, <1>10, <1>11,
       <1>12, <1>13, <1>14, <1>15, <1>16 DEF Next

\* The types are right, and base_ is always the bottom of the stack.
THEOREM TypesAndBase == Spec => [](TypeOK /\ BaseIsBottom /\ RefsCoverStack)
  <1>1. Spec => []StackOK
    BY StackOKInit, StackOKStep, PTL DEF Spec
  <1>2. StackOK => TypeOK /\ BaseIsBottom /\ RefsCoverStack
    BY DEF StackOK
  <1> QED
    BY <1>1, <1>2, PTL

-----------------------------------------------------------------------------
(* Coherence of the caches *)

\* The inductive invariant: the two caches are coherent, and the counters
\* are high enough for put and cleardict to know what is on the stack.
CachesOK == StackOK /\ CacheCoherent /\ BasecacheCoherent

\* A dictionary whose counter is zero is nowhere on the stack.
LEMMA CountedOut ==
    ASSUME StackOK, NEW x \in Dict, ~ (refs[x] > 0), NEW i \in 1..Len(d)
    PROVE  d[i] # x
  <1> SUFFICES ASSUME d[i] = x PROVE FALSE
    OBVIOUS
  <1>1. d \in Seq(Dict) /\ refs[x] \in Nat
    BY DEF StackOK, TypeOK
  <1>2. Occurrences(d, x) > 0
    BY <1>1, OccurrencesPositive
  <1>3. refs[x] >= Occurrences(d, x) /\ Occurrences(d, x) \in Nat
    BY <1>1, OccurrencesFinite DEF StackOK, RefsCoverStack
  <1> QED
    BY <1>1, <1>2, <1>3

\* The base is on the stack, so it is counted.
LEMMA BaseCounted ==
    ASSUME StackOK, Live
    PROVE  refs[base] > 0
  <1>1. d \in Seq(Dict) /\ d # <<>> /\ base = d[1] /\ base \in Dict
    BY TopAndBase DEF StackOK, TypeOK, BaseIsBottom
  <1>2. 1 \in 1..Len(d)
    BY <1>1
  <1>3. refs[base] \in Nat
    BY <1>1 DEF StackOK, TypeOK
  <1> QED
    BY <1>1, <1>2, <1>3, CountedOut

\* Writes that leave the stack and the caches' surviving slots alone: a slot
\* stays coherent when the write hides no binding below the written
\* dictionary without clearing the slot.
LEMMA BindingsOnlyVanish ==
    ASSUME CachesOK, UNCHANGED <<d, base>>,
           NEW n \in Name \ EraseNames, cache[n] # Null,
           \A i \in 1..Len(d) :
              /\ bind'[d[i]][n] # Unbound => Bound(d[i], n)
              /\ d[i] = cache[n] => bind'[d[i]][n] # Unbound
    PROVE  \E i \in 1..Len(d') :
                /\ d'[i] = cache[n]
                /\ bind'[d'[i]][n] # Unbound
                /\ \A j \in (i+1)..Len(d') :
                      bind'[d'[j]][n] # Unbound =>
                          \/ n \in BaseNames /\ d'[i] = base'
                          \/ n \in ErrNames /\ d'[j] = ErrorDict
  <1>0. d' = d /\ base' = base /\ d \in Seq(Dict)
    BY DEF CachesOK, StackOK, TypeOK
  <1>1. PICK i \in 1..Len(d) :
                /\ d[i] = cache[n]
                /\ Bound(d[i], n)
                /\ \A j \in (i+1)..Len(d) :
                      Bound(d[j], n) =>
                          \/ n \in BaseNames /\ d[i] = base
                          \/ n \in ErrNames /\ d[j] = ErrorDict
    BY DEF CachesOK, CacheCoherent
  <1>2. \A j \in (i+1)..Len(d) : j \in 1..Len(d)
    BY <1>0
  <1> QED
    BY <1>0, <1>1, <1>2

\* After init() a filled slot is a systemdict binding nothing hides.
LEMMA CachesOKInit == Init => CachesOK
  <1> SUFFICES ASSUME Init PROVE CachesOK
    OBVIOUS
  <1>1. CacheCoherent
    <2> SUFFICES ASSUME NEW n \in Name \ EraseNames, cache[n] # Null
                 PROVE  \E i \in 1..Len(d) :
                          /\ d[i] = cache[n]
                          /\ Bound(d[i], n)
                          /\ \A j \in (i+1)..Len(d) : ~ Bound(d[j], n)
      BY DEF CacheCoherent
    <2>1. /\ cache[n] = SystemDict /\ Bound(SystemDict, n)
          /\ ~ Bound(GlobalDict, n) /\ ~ Bound(UserDict, n)
      BY DEF Init
    <2>2. d = <<SystemDict, GlobalDict, UserDict>>
      BY DEF Init, PermanentStack
    <2> QED
      BY <2>1, <2>2
  <1>2. BasecacheCoherent
    BY DEF Init, BasecacheCoherent, NullCache
  <1> QED
    BY <1>1, <1>2, StackOKInit DEF CachesOK

\* Caches that only lose slots, over the same stack and bindings.
LEMMA SlotsOnlyVanish ==
    ASSUME CachesOK, UNCHANGED <<d, base, bind>>,
           \A n \in Name : cache'[n] \in {cache[n], Null},
           \A n \in Name : basecache'[n] \in {basecache[n], Null}
    PROVE  CacheCoherent' /\ BasecacheCoherent'
  <1>1. CacheCoherent'
    BY DEF CachesOK, CacheCoherent, Bound
  <1>2. BasecacheCoherent'
    BY DEF CachesOK, BasecacheCoherent, Bound
  <1> QED
    BY <1>1, <1>2

\* CacheCoherent of a cache c over a stack t, with the present bindings.
Coherent(c, t) ==
    \A n \in Name \ EraseNames :
        c[n] # Null =>
            \E i \in 1..Len(t) :
                /\ t[i] = c[n]
                /\ Bound(t[i], n)
                /\ \A j \in (i+1)..Len(t) :
                      Bound(t[j], n) =>
                          \/ n \in BaseNames /\ t[i] = base
                          \/ n \in ErrNames /\ t[j] = ErrorDict

\* CacheCoherent, as a statement about a cache and a stack given as arguments.
LEMMA CoherentNow == CacheCoherent <=> Coherent(cache, d)
  BY DEF CacheCoherent, Coherent

\* The same for the next state.
LEMMA CoherentNext ==
    UNCHANGED <<bind, base>> => (CacheCoherent' <=> Coherent(cache', d'))
  BY DEF CacheCoherent, Coherent, Bound

\* The base's own binding may fill the slot of a name of BaseNames.
LEMMA FillCoherent ==
    ASSUME NEW c \in CacheType, NEW t \in Seq(Dict), t # <<>>, base = t[1],
           NEW n \in BaseNames, Coherent(c, t)
    PROVE  Coherent(BaseFill(c, base, n), t)
  <1>1. CASE ~ (basecache[n] = Null /\ Bound(base, n))
    BY <1>1 DEF BaseFill
  <1>2. CASE basecache[n] = Null /\ Bound(base, n)
    <2>1. n \in Name /\ BaseFill(c, base, n) = [c EXCEPT ![n] = base]
      BY <1>2, NamesAssumption DEF BaseFill
    <2> DEFINE e == [c EXCEPT ![n] = base]
    <2> SUFFICES ASSUME NEW m \in Name \ EraseNames, e[m] # Null
                 PROVE  \E i \in 1..Len(t) :
                          /\ t[i] = e[m]
                          /\ Bound(t[i], m)
                          /\ \A j \in (i+1)..Len(t) :
                                Bound(t[j], m) =>
                                   \/ m \in BaseNames /\ t[i] = base
                                   \/ m \in ErrNames /\ t[j] = ErrorDict
      BY <2>1 DEF Coherent
    <2>2. CASE m = n
      <3>1. 1 \in 1..Len(t) /\ t[1] = e[m] /\ Bound(t[1], m)
        BY <1>2, <2>1, <2>2 DEF CacheType
      <3> QED
        BY <2>2, <3>1
    <2>3. CASE m # n
      <3>1. e[m] = c[m]
        BY <2>1, <2>3 DEF CacheType
      <3> QED
        BY <3>1 DEF Coherent
    <2> QED
      BY <2>2, <2>3
  <1> QED
    BY <1>1, <1>2

\* A push on top whose keys are taken out of the cache.
LEMMA PushCoherent ==
    ASSUME NEW c \in CacheType, NEW t \in Seq(Dict), NEW x \in Dict,
           Coherent(c, t)
    PROVE  Coherent(ClearDictFromCache(c, x), Append(t, x))
  <1> DEFINE u == Append(t, x)
             e == ClearDictFromCache(c, x)
  <1>1. /\ u \in Seq(Dict) /\ Len(u) = Len(t) + 1 /\ u[Len(t) + 1] = x
        /\ \A i \in 1..Len(t) : u[i] = t[i]
    OBVIOUS
  <1> SUFFICES ASSUME NEW n \in Name \ EraseNames, e[n] # Null
               PROVE  \E i \in 1..Len(u) :
                        /\ u[i] = e[n]
                        /\ Bound(u[i], n)
                        /\ \A j \in (i+1)..Len(u) :
                              Bound(u[j], n) =>
                                 \/ n \in BaseNames /\ u[i] = base
                                 \/ n \in ErrNames /\ u[j] = ErrorDict
    BY DEF Coherent
  <1>2. e[n] = c[n] /\ c[n] # Null /\ ~ Bound(x, n)
    BY DEF ClearDictFromCache, WithoutNames, Keys
  <1>3. PICK i \in 1..Len(t) :
              /\ t[i] = c[n]
              /\ Bound(t[i], n)
              /\ \A j \in (i+1)..Len(t) :
                    Bound(t[j], n) =>
                        \/ n \in BaseNames /\ t[i] = base
                        \/ n \in ErrNames /\ t[j] = ErrorDict
    BY <1>2 DEF Coherent
  <1> HIDE DEF u, e
  <1>4. i \in 1..Len(u) /\ u[i] = t[i]
    BY <1>1
  <1>5. ASSUME NEW j \in (i+1)..Len(u), Bound(u[j], n)
        PROVE  \/ n \in BaseNames /\ u[i] = base
               \/ n \in ErrNames /\ u[j] = ErrorDict
    <2>1. j # Len(t) + 1
      BY <1>1, <1>2, <1>5
    <2>2. j \in (i+1)..Len(t) /\ j \in 1..Len(t) /\ u[j] = t[j]
      BY <1>1, <2>1
    <2> QED
      BY <1>3, <1>4, <1>5, <2>2
  <1> QED
    BY <1>2, <1>3, <1>4, <1>5

\* A pop whose keys are taken out of the cache.
LEMMA PopCoherent ==
    ASSUME NEW c \in CacheType, NEW t \in Seq(Dict), Len(t) > 1,
           Coherent(c, t)
    PROVE  Coherent(ClearDictFromCache(c, t[Len(t)]), SubSeq(t, 1, Len(t) - 1))
  <1> DEFINE u == SubSeq(t, 1, Len(t) - 1)
             e == ClearDictFromCache(c, t[Len(t)])
  <1>1. /\ u \in Seq(Dict) /\ Len(u) = Len(t) - 1
        /\ \A i \in 1..(Len(t) - 1) : u[i] = t[i]
    BY PopType
  <1> SUFFICES ASSUME NEW n \in Name \ EraseNames, e[n] # Null
               PROVE  \E i \in 1..Len(u) :
                        /\ u[i] = e[n]
                        /\ Bound(u[i], n)
                        /\ \A j \in (i+1)..Len(u) :
                              Bound(u[j], n) =>
                                 \/ n \in BaseNames /\ u[i] = base
                                 \/ n \in ErrNames /\ u[j] = ErrorDict
    BY DEF Coherent
  <1>2. e[n] = c[n] /\ c[n] # Null /\ ~ Bound(t[Len(t)], n)
    BY DEF ClearDictFromCache, WithoutNames, Keys
  <1>3. PICK i \in 1..Len(t) :
              /\ t[i] = c[n]
              /\ Bound(t[i], n)
              /\ \A j \in (i+1)..Len(t) :
                    Bound(t[j], n) =>
                        \/ n \in BaseNames /\ t[i] = base
                        \/ n \in ErrNames /\ t[j] = ErrorDict
    BY <1>2 DEF Coherent
  <1> HIDE DEF u, e
  <1>4. i # Len(t)
    BY <1>2, <1>3
  <1>5. i \in 1..Len(u) /\ u[i] = t[i]
    BY <1>1, <1>4
  <1>6. ASSUME NEW j \in (i+1)..Len(u)
        PROVE  j \in (i+1)..Len(t) /\ u[j] = t[j]
    BY <1>1
  <1> QED
    BY <1>2, <1>3, <1>5, <1>6

\* The base cache gains at most the base's own binding.
LEMMA BasecacheFill ==
    ASSUME CachesOK, Live, NEW n \in BaseNames, UNCHANGED <<base, bind>>,
           basecache' = BaseFill(basecache, base, n)
    PROVE  BasecacheCoherent'
  <1>1. n \in Name /\ basecache \in CacheType
    BY NamesAssumption DEF CachesOK, StackOK, TypeOK, CacheType
  <1> QED
    BY <1>1 DEF CachesOK, BasecacheCoherent, BaseFill, Bound, CacheType

\* Every operator keeps both caches coherent.
LEMMA CachesOKStep == CachesOK /\ [Next]_vars => CachesOK'
  <1> SUFFICES ASSUME CachesOK, [Next]_vars
               PROVE  CacheCoherent' /\ BasecacheCoherent'
    BY StackOKStep DEF CachesOK
  <1>0. /\ StackOK /\ Coherent(cache, d) /\ BasecacheCoherent
        /\ cache \in CacheType /\ basecache \in CacheType
        /\ d \in Seq(Dict)
        /\ bind \in [Dict -> [Name -> Value \cup {Unbound}]]
    BY CoherentNow DEF CachesOK, StackOK, TypeOK, CacheType
  <1>01. Live => d # <<>> /\ base = d[1] /\ base \in Dict /\ Top \in Dict
    BY <1>0, TopAndBase DEF StackOK, BaseIsBottom
  <1>1. CASE UNCHANGED vars
    BY <1>1, SlotsOnlyVanish DEF vars
  <1>2. ASSUME NEW n \in Name, Lookup(n)
        PROVE  CacheCoherent' /\ BasecacheCoherent'
    <2>1. UNCHANGED <<d, base, bind, basecache>>
      BY <1>2 DEF Lookup
    <2>2. CASE UNCHANGED cache
      BY <2>1, <2>2, SlotsOnlyVanish
    <2>3. CASE LookupWalk(n)
      <3>1. PICK x \in Dict : IsTopmost(x, n) /\ cache' = [cache EXCEPT ![n] = x]
        BY <2>3 DEF LookupWalk
      <3>2. Coherent(cache', d)
        <4> SUFFICES ASSUME NEW m \in Name \ EraseNames, cache'[m] # Null
                     PROVE  \E i \in 1..Len(d) :
                              /\ d[i] = cache'[m]
                              /\ Bound(d[i], m)
                              /\ \A j \in (i+1)..Len(d) :
                                    Bound(d[j], m) =>
                                       \/ m \in BaseNames /\ d[i] = base
                                       \/ m \in ErrNames /\ d[j] = ErrorDict
          BY DEF Coherent
        <4>1. CASE m = n
          BY <1>0, <3>1, <4>1 DEF IsTopmost, CacheType
        <4>2. CASE m # n
          <5>1. cache'[m] = cache[m]
            BY <1>0, <3>1, <4>2 DEF CacheType
          <5> QED
            BY <1>0, <5>1 DEF Coherent
        <4> QED
          BY <4>1, <4>2
      <3>3. BasecacheCoherent'
        BY <1>0, <2>1 DEF BasecacheCoherent, Bound
      <3> QED
        BY <2>1, <3>2, <3>3, CoherentNext
    <2> QED
      BY <1>2, <2>2, <2>3 DEF Lookup, LookupHit, LookupFreed, LookupMiss
  <1>3. ASSUME NEW n \in BaseNames, BaseLookup(n)
        PROVE  CacheCoherent' /\ BasecacheCoherent'
    <2>1. /\ Live /\ UNCHANGED <<d, base, bind>>
          /\ cache' = BaseFill(cache, base, n)
          /\ basecache' = BaseFill(basecache, base, n)
      BY <1>3 DEF BaseLookup
    <2>2. Coherent(cache', d)
      BY <1>0, <1>01, <2>1, FillCoherent
    <2> QED
      BY <2>1, <2>2, CoherentNext, BasecacheFill
  <1>4. ASSUME NEW x \in Dict, Begin(x)
        PROVE  CacheCoherent' /\ BasecacheCoherent'
    <2>1. /\ d' = Append(d, x) /\ UNCHANGED <<base, bind, basecache>>
          /\ cache' = ClearDictFromCache(cache, x)
      BY <1>4 DEF Begin, Push
    <2>2. Coherent(cache', d')
      BY <1>0, <2>1, PushCoherent
    <2>3. BasecacheCoherent'
      BY <1>0, <2>1 DEF BasecacheCoherent, Bound
    <2> QED
      BY <2>1, <2>2, <2>3, CoherentNext
  <1>5. ASSUME NEW x \in Dict, CallMember(x)
        PROVE  CacheCoherent' /\ BasecacheCoherent'
    <2>1. /\ Live /\ d' = Append(d, x) /\ UNCHANGED <<base, bind>>
          /\ cache' = BaseFill(ClearDictFromCache(cache, x), base, EndName)
          /\ basecache' = BaseFill(basecache, base, EndName)
      BY <1>5 DEF CallMember, Push
    <2>2. Coherent(ClearDictFromCache(cache, x), Append(d, x))
      BY <1>0, PushCoherent
    <2>3. /\ ClearDictFromCache(cache, x) \in CacheType
          /\ Append(d, x) \in Seq(Dict) /\ Append(d, x) # <<>>
          /\ base = Append(d, x)[1]
      <3>1. Append(d, x) \in Seq(Dict) /\ Append(d, x) # <<>>
        BY <1>0
      <3>2. Append(d, x)[1] = d[1]
        BY <1>0, <1>01, <2>1
      <3>3. ClearDictFromCache(cache, x) \in CacheType
        BY <1>0, ForgetKeysType
      <3> QED
        BY <1>01, <2>1, <3>1, <3>2, <3>3
    <2>4. Coherent(cache', d')
      BY <2>1, <2>2, <2>3, FillCoherent, NamesAssumption
    <2> QED
      BY <2>1, <2>4, CoherentNext, BasecacheFill, NamesAssumption
  <1>6. CASE End
    <2>1. /\ d' = SubSeq(d, 1, Len(d) - 1) /\ UNCHANGED <<base, bind, basecache>>
          /\ cache' = ClearDictFromCache(cache, d[Len(d)]) /\ Len(d) > 1
      BY <1>0, <1>6 DEF End, EndAllowed, Top
    <2>2. Coherent(cache', d')
      BY <1>0, <2>1, PopCoherent
    <2>3. BasecacheCoherent'
      BY <1>0, <2>1 DEF BasecacheCoherent, Bound
    <2> QED
      BY <2>1, <2>2, <2>3, CoherentNext
  <1>7. CASE Dictstack
    BY <1>7, SlotsOnlyVanish DEF Dictstack
  <1>8. CASE Cleardictstack
    BY <1>8
    DEF Cleardictstack, Rebuild, NullCache, CacheCoherent, BasecacheCoherent
  <1>9. ASSUME NEW s \in Arrays, Restoredstack(s)
        PROVE  CacheCoherent' /\ BasecacheCoherent'
    BY <1>9
    DEF Restoredstack, Rebuild, NullCache, CacheCoherent, BasecacheCoherent
  <1>10. ASSUME NEW n \in Definable, NEW v \in Value, Def(n, v)
         PROVE  CacheCoherent' /\ BasecacheCoherent'
    <2>1. /\ n \in Name /\ Top \in Dict /\ Top = d[Len(d)] /\ v # Unbound
          /\ UNCHANGED <<d, base, basecache>>
          /\ bind' = [bind EXCEPT ![Top][n] = v]
          /\ cache' = [cache EXCEPT ![n] = Top]
          /\ Len(d) \in 1..Len(d)
      BY <1>0, <1>01, <1>10, ValuesAssumption DEF Def, DefCached, Top
    <2>2. CacheCoherent'
      <3> SUFFICES ASSUME NEW m \in Name \ EraseNames, cache'[m] # Null
                   PROVE  \E i \in 1..Len(d') :
                            /\ d'[i] = cache'[m]
                            /\ bind'[d'[i]][m] # Unbound
                            /\ \A j \in (i+1)..Len(d') :
                                  bind'[d'[j]][m] # Unbound =>
                                     \/ m \in BaseNames /\ d'[i] = base'
                                     \/ m \in ErrNames /\ d'[j] = ErrorDict
        BY DEF CacheCoherent, Bound
      <3>1. CASE m = n
        <4>1. cache'[m] = Top /\ bind'[Top][m] # Unbound
          BY <1>0, <2>1, <3>1 DEF CacheType
        <4> QED
          BY <1>0, <2>1, <4>1
      <3>2. CASE m # n
        <4>1. cache'[m] = cache[m] /\ \A y \in Dict : bind'[y][m] = bind[y][m]
          BY <1>0, <2>1, <3>2 DEF CacheType
        <4>2. \A i \in 1..Len(d) : d[i] \in Dict
          BY <1>0
        <4>3. \A i \in 1..Len(d) :
                 /\ bind'[d[i]][m] # Unbound => Bound(d[i], m)
                 /\ d[i] = cache[m] => bind'[d[i]][m] # Unbound
          <5>1. PICK k \in 1..Len(d) : d[k] = cache[m] /\ Bound(d[k], m)
            BY <4>1 DEF CachesOK, CacheCoherent
          <5> QED
            BY <4>1, <4>2, <5>1 DEF Bound
        <4> QED
          BY <2>1, <4>1, <4>3, BindingsOnlyVanish
      <3> QED
        BY <3>1, <3>2
    <2>3. BasecacheCoherent'
      <3> SUFFICES ASSUME NEW m \in Name \ EraseNames, basecache[m] # Null
                   PROVE  basecache[m] = base /\ bind'[base][m] # Unbound
        BY <2>1 DEF BasecacheCoherent, Bound
      <3>1. basecache[m] = base /\ bind[base][m] # Unbound
        BY <1>0 DEF BasecacheCoherent, Bound
      <3>2. base \in Dict
        BY <1>01, <1>10 DEF Def
      <3> QED
        BY <1>0, <2>1, <3>1, <3>2
    <2> QED
      BY <2>2, <2>3
  <1>11. ASSUME NEW x \in Dict, NEW n \in Definable, NEW v \in Value,
                Put(x, n, v)
         PROVE  CacheCoherent' /\ BasecacheCoherent'
    <2>1. /\ Live /\ n \in Name /\ v # Unbound /\ UNCHANGED <<d, base>>
          /\ bind' = [bind EXCEPT ![x][n] = v]
          /\ cache' = ForgetIfOnStack(cache, x, {n})
          /\ basecache' = ForgetIfOnStack(basecache, x, {n})
      BY <1>11, ValuesAssumption DEF Put
    <2>2. \A y \in Dict, m \in Name :
             bind'[y][m] = IF y = x /\ m = n THEN v ELSE bind[y][m]
      BY <1>0, <2>1
    <2>3. CacheCoherent'
      <3> SUFFICES ASSUME NEW m \in Name \ EraseNames, cache'[m] # Null
                   PROVE  \E i \in 1..Len(d') :
                            /\ d'[i] = cache[m]
                            /\ bind'[d'[i]][m] # Unbound
                            /\ \A j \in (i+1)..Len(d') :
                                  bind'[d'[j]][m] # Unbound =>
                                     \/ m \in BaseNames /\ d'[i] = base'
                                     \/ m \in ErrNames /\ d'[j] = ErrorDict
        <4>1. \A m \in Name : cache'[m] # Null => cache'[m] = cache[m]
          BY <2>1 DEF ForgetIfOnStack, WithoutNames
        <4> QED
          BY <4>1 DEF CacheCoherent, Bound
      <3>1. cache[m] # Null
        BY <2>1 DEF ForgetIfOnStack, WithoutNames
      <3>2. m # n \/ \A i \in 1..Len(d) : d[i] # x
        <4>1. CASE refs[x] > 0
          BY <2>1, <4>1 DEF ForgetIfOnStack, WithoutNames
        <4>2. CASE ~ (refs[x] > 0)
          BY <1>0, <4>2, CountedOut
        <4> QED
          BY <4>1, <4>2
      <3>3. \A i \in 1..Len(d) : d[i] \in Dict
        BY <1>0
      <3>4. \A i \in 1..Len(d) :
               /\ bind'[d[i]][m] # Unbound => Bound(d[i], m)
               /\ d[i] = cache[m] => bind'[d[i]][m] # Unbound
        <4>1. PICK k \in 1..Len(d) : d[k] = cache[m] /\ Bound(d[k], m)
          BY <3>1 DEF CachesOK, CacheCoherent
        <4> QED
          BY <2>2, <3>2, <3>3, <4>1 DEF Bound
      <3> QED
        BY <2>1, <3>1, <3>4, BindingsOnlyVanish
    <2>4. BasecacheCoherent'
      <3>1. \A m \in Name : basecache'[m] # Null => basecache'[m] = basecache[m]
        BY <2>1 DEF ForgetIfOnStack, WithoutNames
      <3>2. base \in Dict
        BY <1>01, <2>1
      <3> QED
        BY <1>0, <2>1, <2>2, <3>1, <3>2 DEF BasecacheCoherent, Bound
    <2> QED
      BY <2>3, <2>4
  <1>12. ASSUME NEW n \in Definable, Undef(n)
         PROVE  CacheCoherent' /\ BasecacheCoherent'
    <2>1. /\ Live /\ n \in Name /\ Top \in Dict /\ UNCHANGED <<d, base>>
          /\ bind' = [bind EXCEPT ![Top][n] = Unbound]
          /\ cache' = WithoutNames(cache, {n})
          /\ basecache' = WithoutNames(basecache, {n})
      BY <1>01, <1>12, ValuesAssumption DEF Undef
    <2>2. \A y \in Dict, m \in Name : m # n => bind'[y][m] = bind[y][m]
      BY <1>0, <2>1
    <2>3. \A m \in Name : /\ cache'[m] # Null => m # n /\ cache'[m] = cache[m]
                          /\ basecache'[m] # Null =>
                                 m # n /\ basecache'[m] = basecache[m]
      BY <2>1 DEF WithoutNames
    <2>4. CacheCoherent'
      <3> SUFFICES ASSUME NEW m \in Name \ EraseNames, m # n, cache[m] # Null
                   PROVE  \E i \in 1..Len(d') :
                            /\ d'[i] = cache[m]
                            /\ bind'[d'[i]][m] # Unbound
                            /\ \A j \in (i+1)..Len(d') :
                                  bind'[d'[j]][m] # Unbound =>
                                     \/ m \in BaseNames /\ d'[i] = base'
                                     \/ m \in ErrNames /\ d'[j] = ErrorDict
        BY <2>3 DEF CacheCoherent, Bound
      <3>1. \A i \in 1..Len(d) : d[i] \in Dict
        BY <1>0
      <3>2. \A i \in 1..Len(d) :
               /\ bind'[d[i]][m] # Unbound => Bound(d[i], m)
               /\ d[i] = cache[m] => bind'[d[i]][m] # Unbound
        <4>1. PICK k \in 1..Len(d) : d[k] = cache[m] /\ Bound(d[k], m)
          BY DEF CachesOK, CacheCoherent
        <4> QED
          BY <2>2, <3>1, <4>1 DEF Bound
      <3> QED
        BY <2>1, <3>2, BindingsOnlyVanish
    <2>5. BasecacheCoherent'
      <3>1. base \in Dict
        BY <1>01, <2>1
      <3> QED
        BY <1>0, <2>1, <2>2, <2>3, <3>1 DEF BasecacheCoherent, Bound
    <2> QED
      BY <2>4, <2>5
  <1>13. ASSUME NEW x \in Dict, Cleardict(x)
         PROVE  CacheCoherent' /\ BasecacheCoherent'
    <2>1. /\ Live /\ UNCHANGED <<d, base>>
          /\ bind' = [bind EXCEPT ![x] = [n \in Name |-> Unbound]]
          /\ cache' = ForgetIfOnStack(cache, x, Keys(x))
          /\ basecache' = ForgetIfOnStack(basecache, x, Keys(x))
      BY <1>13 DEF Cleardict, ForgetKeys
    <2>2. \A y \in Dict, m \in Name :
             bind'[y][m] = IF y = x THEN Unbound ELSE bind[y][m]
      BY <1>0, <2>1
    <2>3. \A m \in Name : cache'[m] # Null =>
             /\ cache'[m] = cache[m]
             /\ ~ Bound(x, m) \/ \A i \in 1..Len(d) : d[i] # x
      <3>1. CASE refs[x] > 0
        BY <2>1, <3>1 DEF ForgetIfOnStack, WithoutNames, Keys
      <3>2. CASE ~ (refs[x] > 0)
        <4>1. \A i \in 1..Len(d) : d[i] # x
          BY <1>0, <3>2, CountedOut
        <4> QED
          BY <2>1, <3>2, <4>1 DEF ForgetIfOnStack
      <3> QED
        BY <3>1, <3>2
    <2>4. CacheCoherent'
      <3> SUFFICES ASSUME NEW m \in Name \ EraseNames, cache'[m] # Null
                   PROVE  \E i \in 1..Len(d') :
                            /\ d'[i] = cache[m]
                            /\ bind'[d'[i]][m] # Unbound
                            /\ \A j \in (i+1)..Len(d') :
                                  bind'[d'[j]][m] # Unbound =>
                                     \/ m \in BaseNames /\ d'[i] = base'
                                     \/ m \in ErrNames /\ d'[j] = ErrorDict
        BY <2>3 DEF CacheCoherent, Bound
      <3>1. \A i \in 1..Len(d) : d[i] \in Dict
        BY <1>0
      <3>2. cache[m] # Null
        BY <2>3
      <3>3. \A i \in 1..Len(d) :
               /\ bind'[d[i]][m] # Unbound => Bound(d[i], m)
               /\ d[i] = cache[m] => bind'[d[i]][m] # Unbound
        <4>1. PICK k \in 1..Len(d) : d[k] = cache[m] /\ Bound(d[k], m)
          BY <3>2 DEF CachesOK, CacheCoherent
        <4> QED
          BY <2>2, <2>3, <3>1, <4>1 DEF Bound
      <3> QED
        BY <2>1, <3>2, <3>3, BindingsOnlyVanish
    <2>5. BasecacheCoherent'
      <3> SUFFICES ASSUME NEW m \in Name \ EraseNames, basecache'[m] # Null
                   PROVE  basecache'[m] = base /\ bind'[base][m] # Unbound
        BY <2>1 DEF BasecacheCoherent, Bound
      <3>1. basecache'[m] = basecache[m] /\ base \in Dict
        BY <1>01, <2>1 DEF ForgetIfOnStack, WithoutNames
      <3>2. basecache[m] = base /\ Bound(base, m)
        BY <1>0, <3>1 DEF BasecacheCoherent
      <3>3. base # x
        <4> SUFFICES ASSUME base = x PROVE FALSE
          OBVIOUS
        <4>1. refs[x] > 0
          BY <1>0, <2>1, BaseCounted
        <4> QED
          BY <2>1, <3>2, <4>1 DEF ForgetIfOnStack, WithoutNames, Keys
      <3> QED
        BY <2>2, <3>1, <3>2, <3>3 DEF Bound
    <2> QED
      BY <2>4, <2>5
  <1>14. ASSUME NEW x \in Narrowable, Narrow(x)
         PROVE  CacheCoherent' /\ BasecacheCoherent'
    BY <1>14, SlotsOnlyVanish DEF Narrow
  <1>15. ASSUME NEW S \in SUBSET ErrNames, NEW v \in Value, RaiseError(S, v)
         PROVE  CacheCoherent' /\ BasecacheCoherent'
    <2>1. /\ Live /\ v # Unbound /\ UNCHANGED <<d, base>>
          /\ bind' = [bind EXCEPT ![ErrorDict] =
                         [n \in Name |-> IF n \in S THEN v ELSE @[n]]]
          /\ cache' = BaseFill(cache, base, StopName)
          /\ basecache' = BaseFill(basecache, base, StopName)
          /\ StopName \in BaseNames /\ ErrorDict \in Dict
          /\ base \in Dict /\ d # <<>> /\ base = d[1]
      BY <1>01, <1>15, ValuesAssumption, NamesAssumption, DictsAssumption
      DEF RaiseError
    <2>2. \A y \in Dict, m \in Name :
             bind'[y][m] = IF y = ErrorDict /\ m \in S THEN v ELSE bind[y][m]
      BY <1>0, <2>1
    <2>3. Coherent(cache', d)
      BY <1>0, <2>1, FillCoherent
    <2>4. CacheCoherent'
      <3> SUFFICES ASSUME NEW m \in Name \ EraseNames, cache'[m] # Null
                   PROVE  \E i \in 1..Len(d) :
                            /\ d[i] = cache'[m]
                            /\ bind'[d[i]][m] # Unbound
                            /\ \A j \in (i+1)..Len(d) :
                                  bind'[d[j]][m] # Unbound =>
                                     \/ m \in BaseNames /\ d[i] = base
                                     \/ m \in ErrNames /\ d[j] = ErrorDict
        BY <2>1 DEF CacheCoherent, Bound
      <3>1. PICK i \in 1..Len(d) :
                  /\ d[i] = cache'[m]
                  /\ Bound(d[i], m)
                  /\ \A j \in (i+1)..Len(d) :
                        Bound(d[j], m) =>
                            \/ m \in BaseNames /\ d[i] = base
                            \/ m \in ErrNames /\ d[j] = ErrorDict
        BY <2>3 DEF Coherent
      <3>2. d[i] \in Dict /\ \A j \in (i+1)..Len(d) : d[j] \in Dict
        BY <1>0
      <3> QED
        BY <2>1, <2>2, <3>1, <3>2 DEF Bound
    <2>5. BasecacheCoherent'
      <3> SUFFICES ASSUME NEW m \in Name \ EraseNames, basecache'[m] # Null
                   PROVE  basecache'[m] = base /\ bind'[base][m] # Unbound
        BY <2>1 DEF BasecacheCoherent, Bound
      <3>1. basecache'[m] = base /\ bind[base][m] # Unbound
        BY <1>0, <2>1, NamesAssumption
        DEF BasecacheCoherent, BaseFill, Bound, CacheType
      <3> QED
        BY <2>1, <2>2, <3>1
    <2> QED
      BY <2>4, <2>5
  <1>16. ASSUME NEW S \in SUBSET EraseNames, PrintError(S)
         PROVE  CacheCoherent' /\ BasecacheCoherent'
    <2>1. /\ Live /\ UNCHANGED <<d, base>> /\ ErrorDict \in Dict
          /\ bind' = [bind EXCEPT ![ErrorDict] =
                         [n \in Name |-> IF n \in S THEN Unbound ELSE @[n]]]
          /\ cache' = FreeNodes(cache, S) /\ basecache' = FreeNodes(basecache, S)
      BY <1>16, DictsAssumption DEF PrintError
    <2>2. \A y \in Dict, m \in Name \ EraseNames : bind'[y][m] = bind[y][m]
      BY <1>0, <2>1
    <2>3. \A m \in Name \ EraseNames :
             cache'[m] = cache[m] /\ basecache'[m] = basecache[m]
      BY <2>1 DEF FreeNodes
    <2>4. CacheCoherent'
      <3> SUFFICES ASSUME NEW m \in Name \ EraseNames, cache[m] # Null
                   PROVE  \E i \in 1..Len(d') :
                            /\ d'[i] = cache[m]
                            /\ bind'[d'[i]][m] # Unbound
                            /\ \A j \in (i+1)..Len(d') :
                                  bind'[d'[j]][m] # Unbound =>
                                     \/ m \in BaseNames /\ d'[i] = base'
                                     \/ m \in ErrNames /\ d'[j] = ErrorDict
        BY <2>3 DEF CacheCoherent, Bound
      <3>1. \A i \in 1..Len(d) : d[i] \in Dict
        BY <1>0
      <3>2. \A i \in 1..Len(d) :
               /\ bind'[d[i]][m] # Unbound => Bound(d[i], m)
               /\ d[i] = cache[m] => bind'[d[i]][m] # Unbound
        <4>1. PICK k \in 1..Len(d) : d[k] = cache[m] /\ Bound(d[k], m)
          BY DEF CachesOK, CacheCoherent
        <4> QED
          BY <2>2, <3>1, <4>1 DEF Bound
      <3> QED
        BY <2>1, <3>2, BindingsOnlyVanish
    <2>5. BasecacheCoherent'
      <3>1. base \in Dict
        BY <1>01, <2>1
      <3> QED
        BY <1>0, <2>1, <2>2, <2>3, <3>1 DEF BasecacheCoherent, Bound
    <2> QED
      BY <2>4, <2>5
  <1> QED
    BY <1>1, <1>2, <1>3, <1>4, <1>5, <1>6, <1>7, <1>8, <1>9, <1>10, <1>11,
       <1>12, <1>13, <1>14, <1>15, <1>16 DEF Next

\* The caches are coherent in every reachable state.
THEOREM CachesCoherent == Spec => [](CacheCoherent /\ BasecacheCoherent)
  <1>1. Spec => []CachesOK
    BY CachesOKInit, CachesOKStep, PTL DEF Spec
  <1>2. CachesOK => CacheCoherent /\ BasecacheCoherent
    BY DEF CachesOK
  <1> QED
    BY <1>1, <1>2, PTL

\* For a plain name the excuses of CacheCoherent fall away.
LEMMA PlainNames == CachesOK => LookupIsTopmost
  <1> SUFFICES ASSUME CachesOK, NEW n \in Name \ (BaseNames \cup ErrNames),
                      cache[n] # Null
               PROVE  IsTopmost(cache[n], n)
    BY DEF LookupIsTopmost
  <1>1. n \in Name \ EraseNames
    BY NamesAssumption
  <1>2. PICK i \in 1..Len(d) :
              /\ d[i] = cache[n]
              /\ Bound(d[i], n)
              /\ \A j \in (i+1)..Len(d) :
                    Bound(d[j], n) =>
                        \/ n \in BaseNames /\ d[i] = base
                        \/ n \in ErrNames /\ d[j] = ErrorDict
    BY <1>1 DEF CachesOK, CacheCoherent
  <1> QED
    BY <1>2 DEF IsTopmost

\* A cached lookup of a plain name is the walk of the stack.
THEOREM CachedLookupIsTopmost == Spec => []LookupIsTopmost
  <1>1. Spec => []CachesOK
    BY CachesOKInit, CachesOKStep, PTL DEF Spec
  <1> QED
    BY <1>1, PlainNames, PTL

\* The snapshot handed out by dictstack is the present stack.
THEOREM SnapshotIsFresh == Spec => []SnapshotFresh
  <1>1. Init => SnapshotFresh
    BY DEF Init, SnapshotFresh
  <1>2. SnapshotFresh /\ [Next]_vars => SnapshotFresh'
    <2> SUFFICES ASSUME SnapshotFresh, [Next]_vars PROVE SnapshotFresh'
      OBVIOUS
    <2>1. \/ d' = d /\ snap' = snap
          \/ snap' = <<>>
          \/ d' = d /\ snap' = d
      BY DEF Next, vars, Lookup, BaseLookup, Begin, Push, CallMember, End,
             Dictstack, Cleardictstack, Rebuild, Restoredstack, Def, Put, Undef,
             Cleardict, Narrow, RaiseError, PrintError
    <2> QED
      BY <2>1 DEF SnapshotFresh
  <1> QED
    BY <1>1, <1>2, PTL DEF Spec

-----------------------------------------------------------------------------
(* Writes, and what a program sees of them *)

\* Every step that changes bindings changes those of one dictionary, which
\* is not narrowed or is errordict; the other steps leave all bindings alone.
WritesOne ==
    \/ UNCHANGED bind
    \/ \E x \in Dict : \E f \in [Name -> Value \cup {Unbound}] :
          /\ x \notin locked \ {ErrorDict}
          /\ bind' = [bind EXCEPT ![x] = f]

\* def writes only the top dictionary, and only when it is writable.
LEMMA DefWrites ==
    ASSUME StackOK, NEW n \in Definable, NEW v \in Value, Def(n, v)
    PROVE  \E f \in [Name -> Value \cup {Unbound}] :
              bind' = [bind EXCEPT ![Top] = f]
  <1>1. Top \in Dict /\ n \in Name /\ bind[Top] \in [Name -> Value \cup {Unbound}]
    BY TopAndBase, ValuesAssumption DEF Def, StackOK, TypeOK
  <1>2. [bind[Top] EXCEPT ![n] = v] \in [Name -> Value \cup {Unbound}]
    BY <1>1
  <1> QED
    BY <1>2 DEF Def

\* Every operator writes at most one dictionary, and a narrowed one only
\* when it is errordict.
LEMMA StepWrites == StackOK /\ [Next]_vars => WritesOne
  <1> SUFFICES ASSUME StackOK, [Next]_vars PROVE WritesOne
    OBVIOUS
  <1> DEFINE Map == [Name -> Value \cup {Unbound}]
  <1>0. /\ bind \in [Dict -> Map]
        /\ Live => Top \in Dict
        /\ ErrorDict \in Dict
    BY TopAndBase, DictsAssumption DEF StackOK, TypeOK
  <1>1. CASE UNCHANGED vars
    BY <1>1 DEF vars, WritesOne
  <1>2. ASSUME NEW n \in Name, Lookup(n) PROVE WritesOne
    BY <1>2 DEF Lookup, WritesOne
  <1>3. ASSUME NEW n \in BaseNames, BaseLookup(n) PROVE WritesOne
    BY <1>3 DEF BaseLookup, WritesOne
  <1>4. ASSUME NEW x \in Dict, Begin(x) \/ CallMember(x) PROVE WritesOne
    BY <1>4 DEF Begin, CallMember, Push, WritesOne
  <1>5. CASE End \/ Dictstack \/ Cleardictstack
    BY <1>5 DEF End, Dictstack, Cleardictstack, WritesOne
  <1>6. ASSUME NEW s \in Arrays, Restoredstack(s) PROVE WritesOne
    BY <1>6 DEF Restoredstack, WritesOne
  <1>7. ASSUME NEW n \in Definable, NEW v \in Value, Def(n, v) PROVE WritesOne
    BY <1>0, <1>7, DefWrites DEF Def, Writable, WritesOne
  <1>8. ASSUME NEW x \in Dict, NEW n \in Definable, NEW v \in Value,
               Put(x, n, v)
        PROVE  WritesOne
    <2>1. n \in Name /\ [bind[x] EXCEPT ![n] = v] \in Map
      BY <1>0, ValuesAssumption
    <2> QED
      BY <1>8, <2>1 DEF Put, Writable, WritesOne
  <1>9. ASSUME NEW n \in Definable, Undef(n) PROVE WritesOne
    <2>1. n \in Name /\ Top \in Dict
      BY <1>0, <1>9, ValuesAssumption DEF Undef
    <2>2. [bind[Top] EXCEPT ![n] = Unbound] \in Map
      BY <1>0, <2>1
    <2> QED
      BY <1>9, <2>1, <2>2 DEF Undef, Writable, WritesOne
  <1>10. ASSUME NEW x \in Dict, Cleardict(x) PROVE WritesOne
    <2>1. [n \in Name |-> Unbound] \in Map
      OBVIOUS
    <2> QED
      BY <1>10, <2>1 DEF Cleardict, Writable, WritesOne
  <1>11. ASSUME NEW x \in Narrowable, Narrow(x) PROVE WritesOne
    BY <1>11 DEF Narrow, WritesOne
  <1>12. ASSUME NEW S \in SUBSET ErrNames, NEW v \in Value, RaiseError(S, v)
         PROVE  WritesOne
    <2>1. [n \in Name |-> IF n \in S THEN v ELSE bind[ErrorDict][n]] \in Map
      BY <1>0
    <2>2. bind' = [bind EXCEPT ![ErrorDict] =
                     [n \in Name |-> IF n \in S THEN v ELSE bind[ErrorDict][n]]]
      BY <1>0, <1>12 DEF RaiseError
    <2> QED
      BY <1>0, <2>1, <2>2 DEF WritesOne
  <1>13. ASSUME NEW S \in SUBSET EraseNames, PrintError(S) PROVE WritesOne
    <2>1. [n \in Name |-> IF n \in S THEN Unbound ELSE bind[ErrorDict][n]] \in Map
      BY <1>0
    <2>2. bind' = [bind EXCEPT ![ErrorDict] =
                     [n \in Name |-> IF n \in S THEN Unbound
                                      ELSE bind[ErrorDict][n]]]
      BY <1>0, <1>13 DEF PrintError
    <2> QED
      BY <1>0, <2>1, <2>2 DEF WritesOne
  <1> QED
    BY <1>1, <1>2, <1>3, <1>4, <1>5, <1>6, <1>7, <1>8, <1>9, <1>10, <1>11,
       <1>12, <1>13 DEF Next

\* A narrowed dictionary other than errordict keeps its bindings for ever.
THEOREM LockedKeepBindings == Spec => LockedUnchanged
  <1>1. StackOK /\ [Next]_vars =>
            [\A x \in locked \ {ErrorDict} : bind'[x] = bind[x]]_vars
    <2> SUFFICES ASSUME StackOK, [Next]_vars, NEW x \in locked \ {ErrorDict}
                 PROVE  bind'[x] = bind[x]
      OBVIOUS
    <2>1. x \in Dict /\ bind \in [Dict -> [Name -> Value \cup {Unbound}]]
      BY DEF StackOK, TypeOK
    <2> QED
      BY <2>1, StepWrites DEF WritesOne
  <1> QED
    BY <1>1, StackOKInit, StackOKStep, PTL DEF Spec, LockedUnchanged

-----------------------------------------------------------------------------
(* Refinement *)

\* A filled slot of a plain name answers what the abstract walk answers.
LEMMA PlainAnswers ==
    ASSUME NEW n \in Name \ (BaseNames \cup ErrNames), NEW x, IsTopmost(x, n)
    PROVE  NS!Resolves(n, bind[x][n])
  BY DEF IsTopmost, Bound, NS!Resolves, NS!BoundAt

\* A lookup through the cache is an Ask of the abstract specification.
LEMMA LookupAsks ==
    ASSUME CachesOK, NEW n \in Name, Lookup(n), TypeOK'
    PROVE  NS!Ask(n)
  <1> DEFINE Plain == Name \ (BaseNames \cup ErrNames)
  <1>1. PICK v \in Value \cup {Unbound} : answer' = <<n, v>>
    <2>1. bind \in [Dict -> [Name -> Value \cup {Unbound}]]
      BY DEF CachesOK, StackOK, TypeOK
    <2> QED
      BY <2>1 DEF Lookup, LookupHit, LookupFreed, LookupWalk, LookupMiss
  <1>2. UNCHANGED <<d, bind, locked>>
    BY DEF Lookup
  <1>3. ASSUME n \in Plain PROVE NS!Resolves(n, v)
    <2>1. LookupIsTopmost
      BY PlainNames
    <2>2. CASE LookupHit(n)
      <3>1. cache[n] # Null /\ v = bind[cache[n]][n]
        BY <1>1, <2>2, DictsAssumption DEF LookupHit
      <3> QED
        BY <1>3, <2>1, <3>1, PlainAnswers DEF LookupIsTopmost
    <2>3. CASE LookupFreed(n)
      <3>1. cache[n] = Freed /\ cache[n] # Null
        BY <2>3, DictsAssumption DEF LookupFreed
      <3>2. \E i \in 1..Len(d) : d[i] = Freed
        BY <1>3, <2>1, <3>1 DEF LookupIsTopmost, IsTopmost
      <3>3. d \in Seq(Dict)
        BY DEF CachesOK, StackOK, TypeOK
      <3> QED
        BY <3>2, <3>3, DictsAssumption
    <2>4. CASE LookupWalk(n)
      BY <1>1, <1>3, <2>4, PlainAnswers DEF LookupWalk
    <2>5. CASE LookupMiss(n)
      BY <1>1, <2>5 DEF LookupMiss, NS!Resolves, NS!BoundAt, Bound
    <2> QED
      BY <2>2, <2>3, <2>4, <2>5 DEF Lookup
  <1> QED
    BY <1>1, <1>2, <1>3 DEF NS!Ask

\* A step that writes at most one dictionary is a Write, or no step at all.
LEMMA WriteStep ==
    ASSUME WritesOne, UNCHANGED <<d, locked>>, answer' = <<>>
    PROVE  NS!Next
  BY DEF WritesOne, NS!Next, NS!Write

\* Every step of the dictionary stack is a step of the namespaces, or a stutter.
LEMMA NamespaceStep == CachesOK /\ TypeOK' /\ [Next]_vars => [NS!Next]_NS!vars
  <1> SUFFICES ASSUME CachesOK, TypeOK', [Next]_vars
               PROVE  NS!Next \/ UNCHANGED NS!vars
    OBVIOUS
  <1>0. StackOK /\ WritesOne /\ d' \in Seq(Dict)
    BY StepWrites DEF CachesOK, TypeOK
  <1>1. CASE UNCHANGED vars
    BY <1>1 DEF vars, NS!vars
  <1>2. ASSUME NEW n \in Name, Lookup(n) PROVE NS!Next
    BY <1>2, LookupAsks DEF NS!Next
  <1>3. ASSUME NEW n \in BaseNames, BaseLookup(n) PROVE NS!Next
    <2>1. /\ n \in Name /\ n \notin Name \ (BaseNames \cup ErrNames)
          /\ UNCHANGED <<d, bind, locked>>
      BY <1>3, NamesAssumption DEF BaseLookup
    <2>2. \E v \in Value \cup {Unbound} : answer' = <<n, v>>
      <3>1. base \in Dict
        BY <1>0, <1>3, TopAndBase DEF BaseLookup, StackOK
      <3>2. basecache[n] \in Dict \cup {Null, Freed}
        BY <1>0, <2>1 DEF StackOK, TypeOK
      <3>3. bind \in [Dict -> [Name -> Value \cup {Unbound}]]
        BY <1>0 DEF StackOK, TypeOK
      <3> QED
        BY <1>3, <2>1, <3>1, <3>2, <3>3 DEF BaseLookup
    <2> QED
      BY <2>1, <2>2 DEF NS!Next, NS!Ask
  <1>4. ASSUME NEW x \in Dict, Begin(x) \/ CallMember(x) PROVE NS!Next
    BY <1>4 DEF Begin, CallMember, Push, NS!Next, NS!Open
  <1>5. CASE End
    BY <1>5 DEF End, EndAllowed, NS!Next, NS!Close
  <1>6. CASE Dictstack
    BY <1>6 DEF Dictstack, NS!Next
  <1>7. CASE Cleardictstack
    BY <1>0, <1>7 DEF Cleardictstack, NS!Next, NS!Replace
  <1>8. ASSUME NEW s \in Arrays, Restoredstack(s) PROVE NS!Next
    BY <1>0, <1>8 DEF Restoredstack, NS!Next, NS!Replace
  <1>9. ASSUME NEW n \in Definable, NEW v \in Value, Def(n, v) PROVE NS!Next
    BY <1>0, <1>9, WriteStep DEF Def
  <1>10. ASSUME NEW x \in Dict, NEW n \in Definable, NEW v \in Value,
                Put(x, n, v)
         PROVE  NS!Next
    BY <1>0, <1>10, WriteStep DEF Put
  <1>11. ASSUME NEW n \in Definable, Undef(n) PROVE NS!Next
    BY <1>0, <1>11, WriteStep DEF Undef
  <1>12. ASSUME NEW x \in Dict, Cleardict(x) PROVE NS!Next
    BY <1>0, <1>12, WriteStep DEF Cleardict
  <1>13. ASSUME NEW x \in Narrowable, Narrow(x) PROVE NS!Next
    BY <1>13, ValuesAssumption DEF Narrow, NS!Next, NS!Narrow
  <1>14. ASSUME NEW S \in SUBSET ErrNames, NEW v \in Value, RaiseError(S, v)
         PROVE  NS!Next
    BY <1>0, <1>14, WriteStep DEF RaiseError
  <1>15. ASSUME NEW S \in SUBSET EraseNames, PrintError(S) PROVE NS!Next
    BY <1>0, <1>15, WriteStep DEF PrintError
  <1> QED
    BY <1>1, <1>2, <1>3, <1>4, <1>5, <1>6, <1>7, <1>8, <1>9, <1>10, <1>11,
       <1>12, <1>13, <1>14, <1>15 DEF Next

\* The caches are invisible to a program: the dictionary stack implements
\* the namespaces of the abstract specification.
THEOREM DictStackImplementsNamespaces == Spec => ImplementsNamespaces
  <1>1. Init => NS!Init
    BY DEF Init, NS!Init
  <1>2. CachesOK => TypeOK
    BY DEF CachesOK, StackOK
  <1> QED
    BY <1>1, <1>2, CachesOKInit, CachesOKStep, NamespaceStep, PTL
    DEF Spec, ImplementsNamespaces, NS!Spec
=============================================================================
