------------------------------ MODULE DictStack ------------------------------
(***************************************************************************)
(* The dictionary stack of the interpreter (src/src/containers) with its   *)
(* two lookup caches, as the operators of src/src/builtins and the error   *)
(* machinery of the interpreter drive it.                                  *)
(*                                                                         *)
(* A cache slot of the code is a raw Token* into a node of one             *)
(* dictionary's map.  A node belongs to one (dictionary, name) pair and    *)
(* the slot is found by the name, so a pointer is modelled by the          *)
(* dictionary that owns the node: Null is the null pointer, and Freed a    *)
(* pointer to a node that was erased after it was cached.                  *)
(***************************************************************************)
EXTENDS Naturals, Sequences, FiniteSets

CONSTANTS
    Name, Value, Dict,      \* names, the tokens bound to them, dictionaries
    SystemDict, GlobalDict, UserDict, ErrorDict,
    Null, Freed,            \* a null pointer, a pointer to an erased node
    Unbound,                \* the dictionary has no such key
    BaseNames,              \* the names C++ code resolves with baselookup
    StopName, EndName,      \* two of them: /stop and /end
    ErrNames,               \* the keys raiseerror inserts into errordict
    EraseNames,             \* the keys print_error erases from it
    Arrays,                 \* the arrays given to restoredstack
    Definable,              \* the names the program defines itself
    Narrowable,             \* the dictionaries the program narrows
    InitBind,               \* what the dictionaries hold after init()
    MaxDepth,               \* bound on the depth of the stack
    MaxRefs                 \* bound on refs_on_dictstack_

PermanentDicts == {SystemDict, GlobalDict, UserDict}

ASSUME NamesAssumption ==
    /\ BaseNames \subseteq Name /\ ErrNames \subseteq Name
    /\ EraseNames \subseteq ErrNames
    /\ BaseNames \cap ErrNames = {}
    /\ StopName \in BaseNames /\ EndName \in BaseNames

ASSUME DictsAssumption ==
    /\ PermanentDicts \cup {ErrorDict} \subseteq Dict
    /\ Cardinality(PermanentDicts) = 3
    /\ Null \notin Dict /\ Freed \notin Dict /\ Null # Freed

ASSUME ValuesAssumption ==
    /\ Unbound \notin Value
    /\ InitBind \in [Dict -> [Name -> Value \cup {Unbound}]]
    /\ Arrays \subseteq Seq(Dict)
    /\ Narrowable \subseteq Dict /\ Definable \subseteq Name
    /\ MaxDepth \in Nat /\ MaxRefs \in Nat

VARIABLES
    d,          \* the stack, bottom first (toArray's order)
    bind,       \* the maps of all dictionaries
    cache,      \* cache_
    basecache,  \* basecache_
    base,       \* base_
    refs,       \* refs_on_dictstack_ of each dictionary
    locked,     \* the dictionaries narrowed to readonly
    snap,       \* snapshot_: <<>> is the null pointer
    answer,     \* the last lookup, <<name, value>> with Unbound for UndefinedName,
                \* or <<>> if the last step was none
    status      \* "running", "wild" (UB in set_basedict) or "terminated"

vars == <<d, bind, cache, basecache, base, refs, locked, snap, answer, status>>

caches == <<cache, basecache>>
stack == <<d, base, refs, snap>>

TypeOK ==
    /\ d \in Seq(Dict)
    /\ bind \in [Dict -> [Name -> Value \cup {Unbound}]]
    /\ cache \in [Name -> Dict \cup {Null, Freed}]
    /\ basecache \in [Name -> Dict \cup {Null, Freed}]
    /\ base \in Dict \cup {Null}
    /\ refs \in [Dict -> Nat]
    /\ locked \subseteq Dict
    /\ snap \in Seq(Dict)
    /\ answer \in {<<>>} \cup (Name \X (Value \cup {Unbound}))
    /\ status \in {"running", "wild", "terminated"}

-----------------------------------------------------------------------------
(* Helpers *)

Live == status = "running"
Top == d[Len(d)]
Bound(x, n) == bind[x][n] # Unbound
Keys(x) == {n \in Name : Bound(x, n)}
Occurrences(s, x) == Cardinality({i \in 1..Len(s) : s[i] = x})

\* The walk of find_ and where(): x is the first dictionary from the top
\* that binds n.
IsTopmost(x, n) ==
    \E i \in 1..Len(d) :
        /\ d[i] = x
        /\ Bound(x, n)
        /\ \A j \in (i+1)..Len(d) : ~ Bound(d[j], n)

WithoutNames(c, S) == [n \in Name |-> IF n \in S THEN Null ELSE c[n]]
NullCache == [n \in Name |-> Null]

\* clear_token_from_cache for every key the dictionary holds now; only
\* cache_, never basecache_.
KeepAllNames(c, x) == c
ClearDictFromCache(c, x) == WithoutNames(c, Keys(x))

\* baselookup on a miss of basecache_: the slot found in base_ goes into
\* both caches, whatever the dictionaries above base_ bind.
BaseFill(c, b, n) ==
    IF basecache[n] = Null /\ Bound(b, n) THEN [c EXCEPT ![n] = b] ELSE c

\* The access check of the mutating operators (require_writable).
AnyAccess(x) == TRUE
Writable(x) == x \notin locked

NoAnswer == answer' = <<>>
Answers(n, v) == answer' = <<n, v>>
AnswersAnything(n) == \E v \in Value \cup {Unbound} : Answers(n, v)

-----------------------------------------------------------------------------
(* Lookup *)

\* lookup, load, known and the execution of a name: find_, cache first.
LookupHit(n) ==
    /\ cache[n] \in Dict
    /\ Answers(n, bind[cache[n]][n])
    /\ UNCHANGED cache

\* The cached node was erased: the read is undefined behaviour.
LookupFreed(n) ==
    /\ cache[n] = Freed
    /\ AnswersAnything(n)
    /\ UNCHANGED cache

LookupWalk(n) ==
    /\ cache[n] = Null
    /\ \E x \in Dict :
          /\ IsTopmost(x, n)
          /\ cache' = [cache EXCEPT ![n] = x]
          /\ Answers(n, bind[x][n])

LookupMiss(n) ==
    /\ cache[n] = Null
    /\ \A i \in 1..Len(d) : ~ Bound(d[i], n)
    /\ Answers(n, Unbound)
    /\ UNCHANGED cache

Lookup(n) ==
    /\ Live
    /\ LookupHit(n) \/ LookupFreed(n) \/ LookupWalk(n) \/ LookupMiss(n)
    /\ UNCHANGED <<bind, basecache, stack, locked, status>>

\* The C++ code asks the bottom dictionary for one of its own operators.
BaseLookup(n) ==
    /\ Live
    /\ cache' = BaseFill(cache, base, n)
    /\ basecache' = BaseFill(basecache, base, n)
    /\ IF basecache[n] = Freed
       THEN AnswersAnything(n)
       ELSE Answers(n, bind[IF basecache[n] = Null THEN base ELSE basecache[n]][n])
    /\ UNCHANGED <<bind, stack, locked, status>>

-----------------------------------------------------------------------------
(* The stack: begin, end, call, dictstack, cleardictstack, restoredstack *)

PushKeepsSnapshot(x) ==
    /\ Len(d) < MaxDepth /\ refs[x] < MaxRefs
    /\ d' = Append(d, x)
    /\ refs' = [refs EXCEPT ![x] = @ + 1]
    /\ UNCHANGED <<snap, base, locked, bind, status>>

Push(x) ==
    /\ Len(d) < MaxDepth /\ refs[x] < MaxRefs
    /\ d' = Append(d, x)
    /\ refs' = [refs EXCEPT ![x] = @ + 1]
    /\ snap' = <<>>
    /\ UNCHANGED <<base, locked, bind, status>>

Begin(x) ==
    /\ Live
    /\ Push(x)
    /\ cache' = ClearDictFromCache(cache, x)
    /\ UNCHANGED basecache
    /\ NoAnswer

\* dict key call: open the namespace, then fetch /end from the base
\* dictionary.  When the base has no /end the exception leaves the
\* namespace open.
CallMember(x) ==
    /\ Live
    /\ Push(x)
    /\ cache' = BaseFill(ClearDictFromCache(cache, x), base, EndName)
    /\ basecache' = BaseFill(basecache, base, EndName)
    /\ NoAnswer

\* end refuses to pop one of the three permanent dictionaries.
EndUnguarded == d # <<>>
EndAllowed == Len(d) > 3

End ==
    /\ Live
    /\ EndAllowed
    /\ d' = SubSeq(d, 1, Len(d) - 1)
    /\ refs' = [refs EXCEPT ![Top] = @ - 1]
    /\ snap' = <<>>
    /\ cache' = ClearDictFromCache(cache, Top)
    /\ NoAnswer
    /\ UNCHANGED <<base, basecache, locked, bind, status>>

\* dictstack: the cached array is built on the first request only.
Dictstack ==
    /\ Live
    /\ snap = <<>>
    /\ snap' = d
    /\ NoAnswer
    /\ UNCHANGED <<d, base, refs, caches, locked, bind, status>>

\* clear() and pushes that bypass invalidation; clear() forgets to take
\* back the refs_on_dictstack_ of what it drops.
RebuildUncounted(s) ==
    /\ d' = s
    /\ refs' = refs
    /\ snap' = <<>>
    /\ cache' = NullCache /\ basecache' = NullCache

RebuildRecounted(s) ==
    /\ d' = s
    /\ refs' = [x \in Dict |-> IF Occurrences(s, x) > 0 THEN 1 ELSE 0]
    /\ snap' = <<>>
    /\ cache' = NullCache /\ basecache' = NullCache

Rebuild(s) ==
    /\ d' = s
    /\ refs' = [x \in Dict |-> refs[x] + Occurrences(s, x)]
    /\ snap' = <<>>
    /\ cache' = NullCache /\ basecache' = NullCache

RefsBelowBound(s) == \A x \in Dict : refs[x] + Occurrences(s, x) <= MaxRefs

PermanentStack == <<SystemDict, GlobalDict, UserDict>>

Cleardictstack ==
    /\ Live
    /\ RefsBelowBound(PermanentStack)
    /\ Rebuild(PermanentStack)
    /\ base' = SystemDict
    /\ NoAnswer
    /\ UNCHANGED <<locked, bind, status>>

\* The fast path (s = d) changes nothing.  set_basedict takes the element
\* before end() of the list: with an empty list that is undefined.
Rebase(s) == IF s = <<>> THEN Null ELSE s[1]

Restoredstack(s) ==
    /\ Live
    /\ s # d
    /\ Len(s) <= MaxDepth /\ RefsBelowBound(s)
    /\ Rebuild(s)
    /\ base' = Rebase(s)
    /\ status' = IF s = <<>> THEN "wild" ELSE status
    /\ NoAnswer
    /\ UNCHANGED <<locked, bind>>

-----------------------------------------------------------------------------
(* Writes *)

DefCached(n) == [cache EXCEPT ![n] = Top]

\* def, Set and createcommand: insert into the top dictionary and cache it.
Def(n, v) ==
    /\ Live
    /\ Writable(Top)
    /\ bind' = [bind EXCEPT ![Top][n] = v]
    /\ cache' = DefCached(n)
    /\ NoAnswer
    /\ UNCHANGED <<basecache, stack, locked, status>>

ForgetNothing(c, x, S) == c
ForgetIfOnStack(c, x, S) == IF refs[x] > 0 THEN WithoutNames(c, S) ELSE c

\* dict key value put: only a dictionary with a positive count is on the
\* stack, and only then are the caches told.
Put(x, n, v) ==
    /\ Live
    /\ Writable(x)
    /\ bind' = [bind EXCEPT ![x][n] = v]
    /\ cache' = ForgetIfOnStack(cache, x, {n})
    /\ basecache' = ForgetIfOnStack(basecache, x, {n})
    /\ NoAnswer
    /\ UNCHANGED <<stack, locked, status>>

Undef(n) ==
    /\ Live
    /\ Writable(Top)
    /\ Bound(Top, n)
    /\ bind' = [bind EXCEPT ![Top][n] = Unbound]
    /\ cache' = WithoutNames(cache, {n})
    /\ basecache' = WithoutNames(basecache, {n})
    /\ NoAnswer
    /\ UNCHANGED <<stack, locked, status>>

ForgetKeys(c, x) == ForgetIfOnStack(c, x, Keys(x))

Cleardict(x) ==
    /\ Live
    /\ Writable(x)
    /\ cache' = ForgetKeys(cache, x)
    /\ basecache' = ForgetKeys(basecache, x)
    /\ bind' = [bind EXCEPT ![x] = [n \in Name |-> Unbound]]
    /\ NoAnswer
    /\ UNCHANGED <<stack, locked, status>>

\* readonly, executeonly, noaccess: access only narrows.
Narrow(x) ==
    /\ Live
    /\ locked' = locked \cup {x}
    /\ NoAnswer
    /\ UNCHANGED <<bind, caches, stack, status>>

-----------------------------------------------------------------------------
(* The error machinery writes errordict behind the stack's back *)

\* raiseerror: the keys S go straight into errordict, then /stop is fetched
\* from the base dictionary.  A base without /stop throws out of the
\* handler, and execute_dispatch_ terminates the process.
RaiseError(S, v) ==
    /\ Live
    /\ bind' = [bind EXCEPT ![ErrorDict] =
                   [n \in Name |-> IF n \in S THEN v ELSE @[n]]]
    /\ cache' = BaseFill(cache, base, StopName)
    /\ basecache' = BaseFill(basecache, base, StopName)
    /\ status' = IF basecache[StopName] = Null /\ ~ Bound(base, StopName)
                 THEN "terminated" ELSE status
    /\ NoAnswer
    /\ UNCHANGED <<stack, locked>>

\* print_error: a cached pointer to an erased node now dangles.
FreeNodes(c, S) ==
    [n \in Name |-> IF n \in S /\ c[n] = ErrorDict THEN Freed ELSE c[n]]

PrintError(S) ==
    /\ Live
    /\ S # {} /\ \A n \in S : Bound(ErrorDict, n)
    /\ bind' = [bind EXCEPT ![ErrorDict] =
                   [n \in Name |-> IF n \in S THEN Unbound ELSE @[n]]]
    /\ cache' = FreeNodes(cache, S)
    /\ basecache' = FreeNodes(basecache, S)
    /\ NoAnswer
    /\ UNCHANGED <<stack, locked, status>>

-----------------------------------------------------------------------------

\* After init(): the commands registered with def are cached in systemdict,
\* what was inserted directly is not.
Init ==
    /\ d = PermanentStack
    /\ bind = InitBind
    /\ cache \in [Name -> {Null, SystemDict}]
    /\ \A n \in Name : cache[n] = SystemDict =>
          /\ Bound(SystemDict, n)
          /\ ~ Bound(GlobalDict, n) /\ ~ Bound(UserDict, n)
    /\ basecache = NullCache
    /\ base = SystemDict
    /\ refs = [x \in Dict |-> IF x \in PermanentDicts THEN 1 ELSE 0]
    /\ locked = {}
    /\ snap = <<>>
    /\ answer = <<>>
    /\ status = "running"

Next ==
    \/ \E n \in Name : Lookup(n)
    \/ \E n \in BaseNames : BaseLookup(n)
    \/ \E x \in Dict : Begin(x)
    \/ \E x \in Dict : CallMember(x)
    \/ End
    \/ Dictstack
    \/ Cleardictstack
    \/ \E s \in Arrays : Restoredstack(s)
    \/ \E n \in Definable, v \in Value : Def(n, v)
    \/ \E x \in Dict, n \in Definable, v \in Value : Put(x, n, v)
    \/ \E n \in Definable : Undef(n)
    \/ \E x \in Dict : Cleardict(x)
    \/ \E x \in Narrowable : Narrow(x)
    \/ \E S \in SUBSET ErrNames, v \in Value : RaiseError(S, v)
    \/ \E S \in SUBSET EraseNames : PrintError(S)

Spec == Init /\ [][Next]_vars

-----------------------------------------------------------------------------
(* Properties *)

\* The cached answer is the uncached one: for a name that neither the C++
\* code fetches with baselookup nor raiseerror writes, a filled slot of
\* cache_ points at the topmost binding, the one where() finds.
LookupIsTopmost ==
    \A n \in Name \ (BaseNames \cup ErrNames) :
        cache[n] # Null => IsTopmost(cache[n], n)

\* A filled slot of cache_ points at a live binding of a dictionary that is
\* on the stack, and a higher binding it hides is excused in one of two
\* ways: baselookup put the base's slot there, or the hiding binding was
\* written into errordict by raiseerror.  (Keys print_error erases are out.)
CacheCoherent ==
    \A n \in Name \ EraseNames :
        cache[n] # Null =>
            \E i \in 1..Len(d) :
                /\ d[i] = cache[n]
                /\ Bound(d[i], n)
                /\ \A j \in (i+1)..Len(d) :
                      Bound(d[j], n) =>
                          \/ n \in BaseNames /\ d[i] = base
                          \/ n \in ErrNames /\ d[j] = ErrorDict

\* A filled slot of basecache_ is the base dictionary's own binding.
BasecacheCoherent ==
    \A n \in Name \ EraseNames :
        basecache[n] # Null => basecache[n] = base /\ Bound(base, n)

\* base_ is the bottom of the stack, so it is alive and holds the operators
\* the C++ code fetches: begin, end and restoredstack never part the two.
BaseIsBottom == status # "wild" => d # <<>> /\ base = d[1]

\* is_on_dictstack never denies a dictionary that is on the stack: the count
\* may be too high (clear() leaks), never too low.
RefsCoverStack == \A x \in Dict : refs[x] >= Occurrences(d, x)

\* A cached snapshot, handed out to every dictstack, is the present stack.
SnapshotFresh == snap # <<>> => snap = d

\* A narrowed dictionary keeps its bindings: no operator changes them; only
\* the error machinery still writes errordict.
LockedUnchanged ==
    [][\A x \in locked \ {ErrorDict} : bind'[x] = bind[x]]_vars

-----------------------------------------------------------------------------
(* What the comments of the code say, and the code does not keep *)

\* "starting with the current (top) dictionary" (the comment of load), for
\* the names the C++ code itself uses too.
LoadStartsAtTop ==
    \A n \in Name \ ErrNames : cache[n] # Null => IsTopmost(cache[n], n)

\* "Cache invalidation MUST be unconditional ...; erasing the entry leaves a
\* dangling pointer": no slot points at an erased node.
NoDanglingSlot == \A n \in Name : cache[n] # Freed /\ basecache[n] # Freed
=============================================================================
