------------------------------ MODULE TypeTrie ------------------------------
(***************************************************************************)
(* An overloaded name: a tree of types, one level for each operand from    *)
(* the top of the stack down, with a function at each leaf.  addtotrie     *)
(* walks it and adds what is missing; executing the trie walks it with the *)
(* types on the operand stack.                                             *)
(*                                                                         *)
(* A level is the list of alternatives that hang together by alt_.  All    *)
(* nodes of a level were reached by the same types, so a level is known by *)
(* that path, and the next_ of a node tagged t of level p is the first     *)
(* node of level Append(p, t).                                             *)
(***************************************************************************)
EXTENDS Integers, Sequences, FiniteSets

CONSTANTS
    Type,           \* the types of operands
    AnyType,        \* anytype
    NullType,       \* nulltype: a node that has no type yet
    Func,           \* what variants call
    NoFunc,         \* the null token
    ParamLists,     \* the parameter lists a program gives to addtotrie
    Stacks,         \* the types on an operand stack, top last
    MaxVariants     \* bound: how many variants a program adds

ASSUME TypesAssumption ==
    /\ AnyType \notin Type /\ NullType \notin Type \cup {AnyType}
    /\ NoFunc \notin Func

ASSUME ListsAssumption ==
    /\ ParamLists \subseteq Seq(Type \cup {AnyType})
    /\ Stacks \subseteq Seq(Type)
    /\ MaxVariants \in Nat

VARIABLES
    trie,       \* the levels: a function from paths to lists of nodes
    pc,         \* "idle", "insert" or "lookup"
    goal,       \* the parameter list, or the types on the stack, top first
    func,       \* the function to insert; the function that was found
    pos,        \* the path to the level the walk has come to
    reply,      \* how the last call ended
    variants    \* the lists addtotrie has accepted, each with its function

vars == <<trie, pc, goal, func, pos, reply, variants>>

Param == Type \cup {AnyType}
Path == Seq(Param)
Node(t) == [tag |-> t, func |-> NoFunc]
Nodes == [tag : Param \cup {NullType}, func : Func \cup {NoFunc}]

\* A new level: one node without a type.
NewLevel == <<Node(NullType)>>

\* A parameter list names the top of the stack last.
Backwards(s) == [i \in 1..Len(s) |-> s[Len(s) + 1 - i]]

TypeOK ==
    /\ DOMAIN trie \subseteq Path
    /\ \A p \in DOMAIN trie : trie[p] \in Seq(Nodes) /\ trie[p] # <<>>
    /\ pc \in {"idle", "insert", "lookup"}
    /\ goal \in Path
    /\ func \in Func \cup {NoFunc}
    /\ pos \in DOMAIN trie
    /\ reply \in {"none", "added", "Ambiguous", "NoTypes",
                 "found", "ArgumentType", "StackUnderflow"}
    /\ DOMAIN variants \subseteq Path
    /\ \A a \in DOMAIN variants : variants[a] \in Func

-----------------------------------------------------------------------------
(* Levels *)

Untagged(l) == l[1].tag = NullType
Taken(l) == l[1].func # NoFunc
Offers(l, t) == \E i \in DOMAIN l : l[i].tag = t

\* The tail of a list of alternatives: a wildcard stays there, and another
\* type goes before it.
AppendAlways(l, t) == Append(l, Node(t))
NewAlternative(l, t) ==
    IF t # AnyType /\ l[Len(l)].tag = AnyType
    THEN Append([l EXCEPT ![Len(l)] = Node(t)], l[Len(l)])
    ELSE Append(l, Node(t))

\* get_alternative.  The wildcard is looked for at the tail only.
HasAlternative(l, t) == IF t = AnyType THEN l[Len(l)].tag = AnyType ELSE Offers(l, t)

\* The level after one round of the loop of insert for the type t.
WithType(l, t) ==
    IF Untagged(l) THEN [l EXCEPT ![1].tag = t]
    ELSE IF HasAlternative(l, t) THEN l
    ELSE NewAlternative(l, t)

WithFunc(l, f) == [l EXCEPT ![1].func = f]

\* What cva_t writes of a level and cvt_a reads back: the types of inner
\* nodes, the functions of leaves.
HeadCopied(l) == IF Untagged(l) THEN l ELSE <<Node(l[1].tag)>>
Copied(l) == IF Untagged(l) THEN l ELSE [i \in DOMAIN l |-> Node(l[i].tag)]

-----------------------------------------------------------------------------
(* addtotrie *)

Room(list) == list \in DOMAIN variants \/ Cardinality(DOMAIN variants) < MaxVariants

\* What addtotrie checks comes before anything changes.
Addtotrie(list, f) ==
    /\ pc = "idle" /\ Room(list)
    /\ reply' = IF list = <<>> THEN "NoTypes" ELSE "none"
    /\ pc' = IF list = <<>> THEN "idle" ELSE "insert"
    /\ goal' = Backwards(list) /\ func' = f /\ pos' = <<>>
    /\ UNCHANGED <<trie, variants>>

\* A leaf on the way: a shorter list has been inserted before.
InsertBlocked ==
    /\ Len(pos) < Len(goal)
    /\ Untagged(trie[pos]) /\ Taken(trie[pos])

WithNext(child) == DOMAIN trie \cup {child}

InsertLevel ==
    /\ pc = "insert" /\ Len(pos) < Len(goal) /\ ~ InsertBlocked
    /\ LET t == goal[Len(pos) + 1]
       IN  /\ pos' = Append(pos, t)
           /\ trie' = [p \in WithNext(pos') |->
                          IF p = pos THEN WithType(trie[p], t)
                          ELSE IF p \in DOMAIN trie THEN trie[p]
                          ELSE NewLevel]
    /\ UNCHANGED <<pc, goal, func, reply, variants>>

InsertRefused ==
    /\ pc = "insert"
    /\ InsertBlocked \/ (Len(pos) = Len(goal) /\ Taken(trie[pos]))
    /\ pc' = "idle" /\ reply' = "Ambiguous"
    /\ UNCHANGED <<trie, goal, func, pos, variants>>

InsertDone ==
    /\ pc = "insert" /\ Len(pos) = Len(goal) /\ ~ Taken(trie[pos])
    /\ trie' = [trie EXCEPT ![pos] = WithFunc(@, func)]
    /\ variants' = [a \in DOMAIN variants \cup {goal} |->
                       IF a = goal THEN func ELSE variants[a]]
    /\ pc' = "idle" /\ reply' = "added"
    /\ UNCHANGED <<goal, func, pos>>

-----------------------------------------------------------------------------
(* Executing the trie *)

Execute(types) ==
    /\ pc = "idle"
    /\ pc' = "lookup" /\ goal' = Backwards(types) /\ func' = NoFunc /\ pos' = <<>>
    /\ reply' = "none"
    /\ UNCHANGED <<trie, variants>>

\* An alternative fits the type on the stack, or is the wildcard.
FitsExactly(node, t) == node.tag = t
Fits(node, t) == node.tag \in {t, AnyType}

\* The first alternative that fits.
Picks(l, t, i) ==
    i \in DOMAIN l /\ Fits(l[i], t) /\ \A j \in 1..i-1 : ~ Fits(l[j], t)

LookupLevel ==
    /\ pc = "lookup" /\ ~ Untagged(trie[pos]) /\ Len(pos) < Len(goal)
    /\ \E i \in DOMAIN trie[pos] :
          /\ Picks(trie[pos], goal[Len(pos) + 1], i)
          /\ pos' = Append(pos, trie[pos][i].tag)
    /\ UNCHANGED <<trie, pc, goal, func, reply, variants>>

LookupUnderflows ==
    /\ pc = "lookup" /\ ~ Untagged(trie[pos]) /\ Len(pos) >= Len(goal)
    /\ pc' = "idle" /\ reply' = "StackUnderflow"
    /\ UNCHANGED <<trie, goal, func, pos, variants>>

LookupMisses ==
    /\ pc = "lookup" /\ ~ Untagged(trie[pos]) /\ Len(pos) < Len(goal)
    /\ \A i \in DOMAIN trie[pos] : ~ Fits(trie[pos][i], goal[Len(pos) + 1])
    /\ pc' = "idle" /\ reply' = "ArgumentType"
    /\ UNCHANGED <<trie, goal, func, pos, variants>>

LookupDone ==
    /\ pc = "lookup" /\ Untagged(trie[pos])
    /\ pc' = "idle" /\ reply' = "found" /\ func' = trie[pos][1].func
    /\ UNCHANGED <<trie, goal, pos, variants>>

-----------------------------------------------------------------------------

\* cva_t and cvt_a.
Rebuild ==
    /\ pc = "idle"
    /\ trie' = [p \in DOMAIN trie |-> Copied(trie[p])]
    /\ UNCHANGED <<pc, goal, func, pos, reply, variants>>

Init ==
    /\ trie = [p \in {<<>>} |-> NewLevel]
    /\ pc = "idle" /\ goal = <<>> /\ func = NoFunc /\ pos = <<>> /\ reply = "none"
    /\ variants = [a \in {} |-> NoFunc]

Next ==
    \/ \E list \in ParamLists, f \in Func : Addtotrie(list, f)
    \/ InsertLevel \/ InsertRefused \/ InsertDone
    \/ \E types \in Stacks : Execute(types)
    \/ LookupLevel \/ LookupUnderflows \/ LookupMisses \/ LookupDone
    \/ Rebuild

Spec == Init /\ [][Next]_vars

-----------------------------------------------------------------------------
(* Properties *)

Accepted == DOMAIN variants

\* The list a agrees with the first n types of the path p; it goes on with t.
Agrees(a, p, n) == Len(a) >= n /\ \A i \in 1..n : a[i] = p[i]
GoesOn(a, p, n, t) == Agrees(a, p, n) /\ Len(a) > n /\ a[n + 1] = t

\* Some variant goes on with t after the path p.
Continues(p, t) == \E a \in Accepted : GoesOn(a, p, Len(p), t)

\* "Nodes with type anytype must always be the tail" (insert), the types of a
\* level are different, and a node without a type stands alone.  lookup stops
\* at the first alternative that fits, and must not miss a better one.
LevelOK(l) ==
    \A i, j \in DOMAIN l :
        /\ l[i].tag = l[j].tag => i = j
        /\ l[i].tag = AnyType => i = Len(l)
        /\ l[i].tag = NullType => Len(l) = 1

WildcardLast == \A p \in DOMAIN trie : LevelOK(trie[p])

\* Between calls the trie is the variants that were accepted and nothing else,
\* in whatever order they came: a call that is refused leaves no trace, an
\* accepted list is there to its end, and a leaf calls the function that was
\* last accepted for it.
TrieIsVariants ==
    pc # "insert" =>
        /\ \A p \in DOMAIN trie : \A t \in Param : Offers(trie[p], t) <=> Continues(p, t)
        /\ \A p \in DOMAIN trie : p = <<>> \/ \E a \in Accepted : Agrees(a, p, Len(p))
        /\ \A a \in Accepted :
              a \in DOMAIN trie /\ (Untagged(trie[a]) => trie[a][1].func = variants[a])

\* At each level of the path the exact type is taken if any variant has it,
\* and the wildcard only then.
Greedy(path, types) ==
    \A i \in 1..Len(path) :
        \/ path[i] = types[i]
        \/ path[i] = AnyType /\ \A a \in Accepted : ~ GoesOn(a, path, i - 1, types[i])

\* What executing a trie comes to, said of the variants alone: the greedy
\* path ends at a variant none goes on from, whose function is called; or
\* where no variant goes on with the type on the stack; or below the stack.
LookupIsGreedy ==
    reply \in {"found", "ArgumentType", "StackUnderflow"} =>
        /\ Len(pos) <= Len(goal) /\ Greedy(pos, goal)
        /\ reply = "found" =>
              /\ \A t \in Param : ~ Continues(pos, t)
              /\ IF Accepted = {} THEN func = NoFunc
                 ELSE pos \in Accepted /\ func = variants[pos]
        /\ reply # "found" => \E t \in Param : Continues(pos, t)
        /\ reply = "ArgumentType" =>
              /\ Len(pos) < Len(goal)
              /\ ~ Continues(pos, goal[Len(pos) + 1]) /\ ~ Continues(pos, AnyType)
        /\ reply = "StackUnderflow" => Len(pos) = Len(goal)

-----------------------------------------------------------------------------
(* What the documentation says, and the code does not *)

\* "addtotrie adds a new variant to the type-trie": a stack with just the
\* types of an accepted variant calls it.
VariantAnswers ==
    reply \in {"found", "ArgumentType", "StackUnderflow"} /\ goal \in Accepted =>
        reply = "found" /\ func = variants[goal]
=============================================================================
