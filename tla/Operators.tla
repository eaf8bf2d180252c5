-------------------------------- MODULE Operators -----------------------------
(***************************************************************************)
(* Programs that are nothing but literals and operators: the operand stack *)
(* and the payloads under it while the operators of StackOps, ContainerOps,*)
(* ArrayOps, AccessOps and MathOps run one after the other in any order.   *)
(*                                                                         *)
(* A literal of the running procedure is pushed as it is: its payload is   *)
(* shared with the procedure, and so with the next round of a loop.  An    *)
(* error ends the run, since the dispatcher takes over (see Dispatcher).   *)
(***************************************************************************)
EXTENDS StackOps, MathOps, AccessOps, SavedState

CONSTANTS
    Programs,       \* by name: the operators a program is made of, how many
                    \* tokens it has, its literals with their payloads, and the
                    \* operands that its caller may have left
    RawReads,       \* what an operand that is no integer reads as when its
                    \* payload is taken for one
    MaxStack        \* bound on the operand stack

VARIABLES program,  \* which of the programs runs
          ostack, heap,
          estack,   \* the literals that the running procedure holds
          file,     \* what savestate wrote
          last,     \* the operator that ran last and the error it raised
          steps     \* how many tokens have been executed
vars == <<program, ostack, estack, heap, file, last, steps>>

-----------------------------------------------------------------------------
(* What tokens and payloads look like *)

Characters == 0..(CharSize - 1)
Scalars ==
    ({"integer"} \X Int) \cup ({"double"} \X DoubleValues) \cup ({"bool"} \X BOOLEAN)
    \cup ({"literal", "name"} \X Names) \cup {MarkTok, Garbage}
Values == Scalars \cup (CompositeTags \X Ids)

\* A composite token refers to a payload of its kind.
IsToken(h, t) == t \in Values /\ (Tag(t) \in CompositeTags => h[Data(t)].kind = Kind(Tag(t)))
AreTokens(h, s) == s \in Seq(Values) /\ \A i \in DOMAIN s : IsToken(h, s[i])

IsBody(h, kind, body) ==
    CASE kind = "free" -> body = <<>>
      [] kind = "array" -> AreTokens(h, body)
      [] kind = "string" -> body \in Seq(Characters)
      [] kind = "dictionary" ->
             DOMAIN body \subseteq Names /\ \A k \in DOMAIN body : IsToken(h, body[k])
      [] OTHER -> FALSE

IsPayload(h, o) ==
    /\ o = [kind |-> o.kind, acc |-> o.acc, body |-> o.body, lost |-> o.lost]
    /\ o.acc \in Unlimited..NoAccess /\ o.lost \in Nat
    /\ o.kind = "free" => o = Free
    /\ IsBody(h, o.kind, o.body)

WellFormed(h) == DOMAIN h = Ids /\ \A x \in Ids : IsPayload(h, h[x])

\* Somebody holds each of the payloads.
Collected(k) ==
    \A x \in Ids :
        k.heap[x].kind # "free" => Rooted(k, x) \/ Holders(k, x) # {} \/ k.heap[x].lost > 0

\* What savestate writes: a number stands for payloads of one kind.
Words ==
    Scalars \cup (PayloadTags \X Nat) \cup {<<"dictionary", 0>>} \cup ({"count"} \X Nat)
    \cup ({"chars"} \X Seq(Characters)) \cup ({"access"} \X (Unlimited..NoAccess))
IsFile(f) ==
    f = NoFile \/
    /\ f \in Seq(Words)
    /\ \A i, j \in DOMAIN f :
           Tag(f[i]) \in PayloadTags /\ Tag(f[j]) \in PayloadTags /\ Data(f[i]) = Data(f[j])
           => Kind(Tag(f[i])) = Kind(Tag(f[j]))

\* The name of a type is one of the names.
TypeNames == {"integer", "double", "bool", "literal", "name", "mark"} \cup CompositeTags
ASSUME TypeNamesAssumption == TypeNames \subseteq Names

ASSUME ProgramsAssumption ==
    \A p \in DOMAIN Programs :
        LET pr == Programs[p]
        IN  /\ WellFormed(pr.heap) /\ AreTokens(pr.heap, pr.literals)
            /\ \A s \in pr.stacks :
                   AreTokens(pr.heap, s) /\ Collected([st |-> s, es |-> pr.literals, heap |-> pr.heap])
            /\ pr.length \in Nat
ASSUME BoundsAssumption == MaxStack \in Nat /\ RawReads \subseteq Longs

Ops == Programs[program].ops
Length == Programs[program].length

-----------------------------------------------------------------------------
m == [st |-> ostack, es |-> estack, heap |-> heap, room |-> TRUE]

Start == [op |-> "none", err |-> "none"]

Init ==
    /\ program \in DOMAIN Programs
    /\ ostack \in Programs[program].stacks
    /\ estack = Programs[program].literals
    /\ heap = Programs[program].heap
    /\ file = NoFile
    /\ last = Start
    /\ steps = 0

\* The program goes on; so does a garbage token.
Going == last.err = "none" /\ steps < Length /\ \A i \in DOMAIN ostack : ostack[i] # Garbage

Push ==
    /\ Going
    /\ Len(ostack) < MaxStack
    /\ \E i \in DOMAIN estack : ostack' = Append(ostack, estack[i])
    /\ last' = [op |-> "push", err |-> "none"]
    /\ steps' = steps + 1
    /\ UNCHANGED <<program, estack, heap, file>>

\* An operator leaves the machine of its outcome, without what nobody holds.
Leave(name, out) ==
    /\ name \in Ops
    /\ Going
    /\ out.m.room /\ Load(out.m) <= MaxStack
    /\ ostack' = out.m.st
    /\ estack' = out.m.es
    /\ heap' = Released(out.m).heap
    /\ last' = [op |-> name, err |-> out.err]
    /\ steps' = steps + 1
    /\ UNCHANGED program

Do(name, out) == Leave(name, out) /\ UNCHANGED file

\* Behind a type trie an operator finds operands of its types.
Match(sig) ==
    /\ Len(ostack) >= Len(sig)
    /\ \A i \in 1..Len(sig) : TagAt(m, Len(sig) - i) = sig[i]

Leaf(name, sig, out) == name \in Ops /\ Match(sig) /\ Do(name, out)

\* What slot i reads as when the code does not look at its type.
RawAt(i) ==
    IF Load(m) <= i THEN {0}
    ELSE IF TagAt(m, i) = "integer" THEN {DataAt(m, i)} ELSE RawReads

CastsOfTop == IF Match(<<"double">>) THEN Casts(At(m, 0)) ELSE {0}

\* What std::sort may make of the array on top.
SortingsOfTop ==
    IF Match(<<"array">>) /\ Body(m, 0) # <<>> /\ Sortable(Body(m, 0))
    THEN Sorted(m, Body(m, 0)) ELSE {<<>>}

\* What is done with a string is another operator, by name.
NoStringOnTop == Load(m) > 0 => TagAt(m, 0) # "string"

-----------------------------------------------------------------------------
StackStep ==
    \/ Do("pop", PopFunction(m))
    \/ Do("dup", DupFunction(m))
    \/ Do("exch", ExchFunction(m))
    \/ Do("over", OverFunction(m))
    \/ Do("rollu", RolluFunction(m))
    \/ Do("rolld", RolldFunction(m))
    \/ Do("rot", RotFunction(m))
    \/ Do("count", CountFunction(m))
    \/ Do("counttomark", CounttomarkFunction(m))
    \/ Do("clear", ClearFunction(m))
    \/ Do("operandstack", OperandstackFunction(m))
    \/ Do("restoreostack", RestoreostackFunction(m))
    \/ "npop" \in Ops /\ \E n \in RawAt(0) : Do("npop", NpopFunction(m, n))
    \/ "index" \in Ops /\ \E n \in RawAt(0) : Do("index", IndexFunction(m, n))
    \/ "copy" \in Ops /\ \E n \in RawAt(0) : Do("copy", CopyFunction(m, n))
    \/ "roll" \in Ops /\ \E n \in RawAt(1), k \in RawAt(0) : Do("roll", RollFunction(m, n, k))

ContainerStep ==
    \/ Do("length", LengthFunction(m))
    \/ Do("empty", EmptyFunction(m))
    \/ Do("size", SizeFunction(m))
    \/ Do("reserve", ReserveFunction(m))
    \/ Do("get", GetFunction(m))
    \/ "put" \in Ops /\ \E char \in RawAt(0) : Do("put", PutFunction(m, char))
    \/ \E n \in RawReads : Do("cvi_s", StringAs(m, IntTok(n)))
    \/ \E n \in RawReads : Do("cvd_s", StringAs(m, Dbl(FromLong(n))))
    \/ Do("cvi_s", StringIsNoNumber(m)) \/ Do("cvd_s", StringIsNoNumber(m))
    \/ Do("keys", KeysFunction(m))
    \/ Do("values", ValuesFunction(m))
    \/ Do("cva", CvaFunction(m))
    \/ Do(">>", DictconstructFunction(m))
    \/ Do("cleardict", CleardictFunction(m))
    \/ Do("clonedict", ClonedictFunction(m))
    \/ Do("known", KnownFunction(m))
    \/ Do("join", JoinFunction(m))
    \/ Do("search", SearchFunction(m))
    \/ Do("getinterval", GetintervalFunction(m))
    \/ Do("insertelement", InsertelementFunction(m))
    \/ Do("append", AppendFunction(m))
    \/ Do("prepend", PrependFunction(m))
    \/ Do("eq", EqFunction(m))
    \/ Do("neq", NeqFunction(m))
    \/ Leaf("insert_a", <<"array", "integer", "array">>, InsertArray(m))
    \/ Leaf("insert_s", <<"string", "integer", "string">>, InsertString(m))
    \/ Leaf("replace_a", <<"array", "integer", "integer", "array">>, ReplaceArray(m))
    \/ Leaf("replace_s", <<"string", "integer", "integer", "string">>, ReplaceString(m))
    \/ Leaf("erase_a", <<"array", "integer", "integer">>, EraseArrayLike(m, "array"))
    \/ Leaf("erase_p", <<"procedure", "integer", "integer">>, EraseArrayLike(m, "procedure"))
    \/ Leaf("erase_s", <<"string", "integer", "integer">>, EraseString(m))
    \/ Do("append_lp", AppendArrayLike(m, "litprocedure"))

ArrayStep ==
    \/ Do("Range", RangeFunction(m))
    \/ Do("array", ArrayFunction(m))
    \/ Do("First", FirstFunction(m))
    \/ Do("Rest", RestFunction(m))
    \/ Do("Reverse", ReverseFunction(m))
    \/ Do("Rotate", RotateFunction(m))
    \/ Do("Flatten", FlattenFunction(m))
    \/ "Sort" \in Ops /\ \E sorted \in SortingsOfTop : Do("Sort", SortFunction(m, sorted))
    \/ Do("Transpose", TransposeFunction(m))
    \/ Do("Partition", PartitionFunction(m))
    \/ Do("arrayload", ArrayloadFunction(m))
    \/ Do("arraystore", ArraystoreFunction(m))
    \/ Do("]", ArraycreateFunction(m))
    \/ Do("GetMax", MinMaxFunction(m, TRUE))
    \/ Do("GetMin", MinMaxFunction(m, FALSE))
    \/ Do("valid", ValidFunction(m))

AccessStep ==
    \/ Do("readonly", NarrowAccess(m, ReadOnly))
    \/ Do("executeonly", NarrowAccess(m, ExecuteOnly))
    \/ Do("noaccess", NarrowAccess(m, NoAccess))
    \/ Do("rcheck", RcheckFunction(m))
    \/ Do("wcheck", WcheckFunction(m))
    \/ Do("xcheck", XcheckFunction(m))
    \/ Do("type", TypeFunction(m))
    \/ Do("typeinfo", TypeinfoFunction(m))
    \/ Do("cvx_lp", CvxLpFunction(m))
    \/ NoStringOnTop /\ Do("cvx", CvxFunction(m))
    \/ NoStringOnTop /\ Do("cvlit", CvlitFunction(m))
    \/ NoStringOnTop /\ Do("cvn", CvnFunction(m))

-----------------------------------------------------------------------------
(* Compact operators on numbers: the tags are looked at here *)

NumberStep ==
    \/ Do("add", AddFunction(m))
    \/ Do("sub", SubFunction(m))
    \/ Do("mul", MulFunction(m))
    \/ Do("div", DivFunction(m))
    \/ "mod" \in Ops /\ \E n \in RawAt(1), d \in RawAt(0) : Do("mod", Mod_iiFunction(m, n, d))
    \/ Do("max", MaxFunction(m))
    \/ Do("min", MinFunction(m))
    \/ Do("gt", GtFunction(m))
    \/ Do("lt", LtFunction(m))
    \/ Do("geq", GeqFunction(m))
    \/ Do("leq", LeqFunction(m))
    \/ Do("and", AndPolyFunction(m))
    \/ Do("or", OrPolyFunction(m))
    \/ Do("xor", XorPolyFunction(m))
    \/ Do("not", NotPolyFunction(m))
    \/ Do("sqr", SqrFunction(m))
    \/ Do("sqrt", SqrtFunction(m))
    \/ Do("pow", PowFunction(m))
    \/ \E f \in LibmNames : Do(f, UnaryFunction(m, f))
    \/ NoStringOnTop /\ Do("cvd", CvdFunction(m))
    \/ NoStringOnTop /\ \E cast \in CastsOfTop : Do("cvi", CviFunction(m, cast))
    \/ Do("log_d", Log_dFunction(m))
    \/ Do("ln_d", Ln_dFunction(m))
    \/ Do("sqr_d", Sqr_dFunction(m))
    \/ Do("sqrt_d", Sqrt_dFunction(m))
    \/ Do("pow_dd", Pow_ddFunction(m))
    \/ Do("pow_di", Pow_diFunction(m))
    \/ Do("sin_d", TrigLeaf(m, "sin"))
    \/ Do("modf_d", Modf_dFunction(m))
    \/ Do("frexp_d", Frexp_dFunction(m))
    \/ Do("ldexp_di", Ldexp_diFunction(m))
    \/ Do("dexp_i", Dexp_iFunction(m))
    \/ Do("abs_i", Abs_iFunction(m))
    \/ Do("abs_d", Abs_dFunction(m))
    \/ Do("neg_i", Neg_iFunction(m))
    \/ Do("neg_d", Neg_dFunction(m))
    \/ Do("inv", Inv_dFunction(m))
    \/ Do("finite_q_d", FiniteQDFunction(m))
    \/ Do("gt_ss", Gt_ssFunction(m))
    \/ Do("lt_ss", Lt_ssFunction(m))

(* The leaves that rely on their type trie *)

II == <<"integer", "integer">>
DD == <<"double", "double">>
DI == <<"double", "integer">>
ID == <<"integer", "double">>

TrieStep ==
    \/ Leaf("add_ii", II, Add_iiFunction(m)) \/ Leaf("add_dd", DD, Add_ddFunction(m))
    \/ Leaf("add_di", DI, Add_diFunction(m)) \/ Leaf("add_id", ID, Add_idFunction(m))
    \/ Leaf("sub_ii", II, Sub_iiFunction(m)) \/ Leaf("sub_dd", DD, Sub_ddFunction(m))
    \/ Leaf("sub_di", DI, Sub_diFunction(m)) \/ Leaf("sub_id", ID, Sub_idFunction(m))
    \/ Leaf("mul_ii", II, Mul_iiFunction(m)) \/ Leaf("mul_dd", DD, Mul_ddFunction(m))
    \/ Leaf("mul_di", DI, Mul_diFunction(m)) \/ Leaf("mul_id", ID, Mul_idFunction(m))
    \/ Leaf("div_ii", II, Div_iiFunction(m)) \/ Leaf("div_dd", DD, Div_ddFunction(m))
    \/ Leaf("div_di", DI, Div_diFunction(m)) \/ Leaf("div_id", ID, Div_idFunction(m))
    \/ Leaf("max_i_i", II, Max_i_iFunction(m)) \/ Leaf("max_i_d", ID, Max_i_dFunction(m))
    \/ Leaf("max_d_i", DI, Max_d_iFunction(m)) \/ Leaf("max_d_d", DD, Max_d_dFunction(m))
    \/ Leaf("min_i_i", II, Min_i_iFunction(m)) \/ Leaf("min_i_d", ID, Min_i_dFunction(m))
    \/ Leaf("min_d_i", DI, Min_d_iFunction(m)) \/ Leaf("min_d_d", DD, Min_d_dFunction(m))
    \/ Leaf("gt_ii", II, Gt_iiFunction(m)) \/ Leaf("gt_dd", DD, Gt_ddFunction(m))
    \/ Leaf("gt_id", ID, Gt_idFunction(m)) \/ Leaf("gt_di", DI, Gt_diFunction(m))
    \/ Leaf("lt_ii", II, Lt_iiFunction(m)) \/ Leaf("lt_dd", DD, Lt_ddFunction(m))
    \/ Leaf("lt_id", ID, Lt_idFunction(m)) \/ Leaf("lt_di", DI, Lt_diFunction(m))
    \/ Leaf("geq_ii", II, Geq_iiFunction(m)) \/ Leaf("geq_dd", DD, Geq_ddFunction(m))
    \/ Leaf("geq_id", ID, Geq_idFunction(m)) \/ Leaf("geq_di", DI, Geq_diFunction(m))
    \/ Leaf("leq_ii", II, Leq_iiFunction(m)) \/ Leaf("leq_dd", DD, Leq_ddFunction(m))
    \/ Leaf("leq_id", ID, Leq_idFunction(m)) \/ Leaf("leq_di", DI, Leq_diFunction(m))
    \/ Leaf("and_ii", II, And_iiFunction(m)) \/ Leaf("or_ii", II, Or_iiFunction(m))
    \/ Leaf("or_bb", <<"bool", "bool">>, Or_bbFunction(m))
    \/ Leaf("xor_bb", <<"bool", "bool">>, Xor_bbFunction(m))
    \/ Leaf("xor_ii", II, Xor_iiFunction(m))
    \/ Leaf("not_b", <<"bool">>, Not_bFunction(m)) \/ Leaf("not_i", <<"integer">>, Not_iFunction(m))
    \/ Leaf("UnitStep_i", <<"integer">>, UnitStep_iFunction(m))
    \/ Leaf("UnitStep_d", <<"double">>, UnitStep_dFunction(m))
    \/ Leaf("UnitStep_ia", <<"array">>, UnitStep_iaFunction(m))
    \/ Leaf("UnitStep_da", <<"array">>, UnitStep_daFunction(m))
    \/ Leaf("round_d", <<"double">>, Round_dFunction(m))
    \/ Leaf("floor_d", <<"double">>, Floor_dFunction(m))
    \/ Leaf("ceil_d", <<"double">>, Ceil_dFunction(m))
    \/ Leaf("double_i", <<"integer">>, DoubleFunction(m))
    \/ Match(<<"double">>) /\ \E cast \in CastsOfTop : Do("int_d", IntegerFunction(m, cast))

\* A file that takes none of the words, all of them, or all but the last.
SavedStateStep ==
    \/ /\ Match(<<"string">>)
       /\ Leave("savestate", SaveStateFunction(m))
       /\ LET image == Image(Popped(m, 1))
          IN  \E n \in {0, Len(image) - 1, Len(image)} : file' = SubSeq(image, 1, n)
    \/ ~Match(<<"string">>) /\ Do("savestate", SaveStateFunction(m))
    \/ file # NoFile /\ Do("restorestate", RestoreStateFunction(m, file))
    \/ Do("savestate", CannotOpen(m)) \/ Do("restorestate", CannotOpen(m))

\* The program is over.
Quit == ~Going /\ UNCHANGED vars

Next ==
    \/ Push
    \/ StackStep
    \/ ContainerStep
    \/ ArrayStep
    \/ AccessStep
    \/ NumberStep
    \/ TrieStep
    \/ SavedStateStep
    \/ Quit

Spec == Init /\ [][Next]_vars

-----------------------------------------------------------------------------
TypeOK ==
    /\ program \in DOMAIN Programs
    /\ AreTokens(heap, ostack) /\ AreTokens(heap, estack) /\ WellFormed(heap)
    /\ IsFile(file)
    /\ last.op \in {"none", "push"} \cup Ops /\ last.err \in {"none"} \cup Errors
    /\ steps \in 0..Length

-----------------------------------------------------------------------------
(* What one step may do *)

\* An operator that raises an error has changed nothing: the operands are
\* there for the handler and for the report, whichever of several checks failed.
\* Only the name of a file that is not there or not whole is gone.
FailureLeavesOperands ==
    [][last'.err # "none" =>
           /\ UNCHANGED <<estack, file>>
           /\ LET left == IF last'.err = "BadIO" THEN Popped(m, 1) ELSE m
              IN  /\ ostack' = left.st
                  /\ \A x \in Ids : heap[x].kind # "free" => heap'[x] = Released(left).heap[x]]_vars

\* Access states only narrow, and a payload that may not be written keeps its
\* contents, whichever tag, path or shared token an operator reaches it by.
StaysNarrowed(old, new) ==
    old.kind # "free" /\ new.kind # "free" =>
        /\ new.acc >= old.acc
        /\ old.acc # Unlimited => new.body = old.body
NarrowedIsFrozen == [][\A x \in Ids : StaysNarrowed(heap[x], heap'[x])]_vars

\* append and prepend show to nobody but the token they leave: what another
\* token holds keeps its contents.
ExtensionIsPrivate ==
    [][last'.op \in {"append", "prepend", "append_lp"} =>
           \A x \in Ids : (Rooted([m EXCEPT !.st = Drop(@, 2)], x) \/ Holders(m, x) # {})
                            => heap'[x] = heap[x]]_vars

\* What these operators leave on top is a payload of its own, unlimited and held
\* by that token alone: a later put changes no operand.
Makers ==
    { "keys", "values", "clonedict", "join", "getinterval", "insertelement",
      "insert_a", "insert_s", "replace_a", "replace_s", "erase_a", "erase_p", "erase_s",
      "operandstack", "Range", "array", "Rest", "Reverse", "Rotate", "Flatten", "Sort",
      "Transpose", "Partition", "arraystore", "]", ">>" }
Made == ostack'[Len(ostack')]
\* Sort returns an empty array as it is.
ResultsAreOwn ==
    [][/\ last'.op \in Makers /\ last'.err = "none"
       /\ ~(last'.op = "Sort" /\ heap'[Data(Made)].body = <<>>)
       => /\ heap[Data(Made)].kind = "free"
          /\ heap'[Data(Made)].acc = Unlimited
          /\ References([st |-> ostack', es |-> estack', heap |-> heap'], Data(Made)) = 1]_vars

\* The payloads that those in S hold, and S, however deep.
Inside(h, x) ==
    LET s == Contents(h[x]) IN {Data(s[i]) : i \in {j \in DOMAIN s : Tag(s[j]) \in CompositeTags}}
ReachedFrom(h, S) ==
    LET holding == {x \in Ids : Inside(h, x) # {}}
        reach[n \in Nat] ==
            IF n = 0 THEN S
            ELSE LET near == reach[n - 1] IN near \cup UNION {Inside(h, x) : x \in near \cap holding}
    IN  reach[Cardinality(holding)]

Leaked(k) ==
    {x \in Ids : k.heap[x].kind # "free"} \ ReachedFrom(k.heap, {x \in Ids : Rooted(k, x)})
Lossy(h) == {x \in Ids : h[x].lost > 0}
Circular(h) == {x \in Ids : Inside(h, x) # {} /\ x \in ReachedFrom(h, Inside(h, x))}

\* A payload that the program can no longer reach is freed, with three exceptions:
\* gt_ss and lt_ss overwrite a string's token without giving the string back, a
\* file that ends too soon leaves half a payload, and payloads that hold each
\* other in a circle never count down, nor do those that they hold.  Only put
\* closes a circle, or restorestate, from the image of one: append and prepend
\* write in place only when no other token, in however deep a payload, refers to
\* the container, so what they put in cannot hold it.
LeaksAreKnown ==
    [][/\ Leaked(m') \subseteq ReachedFrom(heap', Lossy(heap') \cup Circular(heap'))
       /\ \A x \in Ids : heap'[x].lost > heap[x].lost =>
              \/ last'.op \in {"gt_ss", "lt_ss"}
              \/ last'.op = "restorestate" /\ last'.err = "BadIO"
       /\ heap' = heap \/ last'.op \in {"put", "restorestate"}
          \/ Circular(heap') \subseteq Circular(heap)]_vars

-----------------------------------------------------------------------------
(* What operators make of the operands, compared with each other *)

With(ts) == [m EXCEPT !.st = @ \o ts]
Succeeds(out) == out.err = "none" /\ out.m.room
OnTop(tags) == Load(m) > 0 /\ TagAt(m, 0) \in tags
Then(out, F(_)) == IF Succeeds(out) THEN F(out.m) ELSE out
\* An outcome whose top is a container with this body.
Yields(out, body) == Succeeds(out) => Body(out.m, 0) = body

\* The result of an operator on the top of the stack.
Result(out) == DataAt(out.m, 0)

\* A payload that may not be read tells its contents to none of these
\* operators: with other contents they do just the same.
Gated(k) ==
    { GetFunction(k), PutFunction(k, 0), KeysFunction(k), ValuesFunction(k), CvaFunction(k),
      ClonedictFunction(k), KnownFunction(k), JoinFunction(k), SearchFunction(k),
      GetintervalFunction(k), InsertelementFunction(k), AppendFunction(k), PrependFunction(k),
      EqFunction(k), InsertArray(k), InsertString(k), ReplaceArray(k), ReplaceString(k),
      EraseArrayLike(k, "array"), EraseString(k), ReserveFunction(k), CleardictFunction(k) }
\* Other contents that hold the same references.
Altered(o) ==
    IF o.kind = "dictionary"
    THEN [k \in {l \in DOMAIN o.body : Tag(o.body[l]) \in CompositeTags} |-> o.body[k]]
    ELSE <<IF o.kind = "string" THEN 0 ELSE IntTok(0)>> \o Reverse(o.body)
UnreadableIsBlind ==
    \A i \in 0..(Load(m) - 1) :
        TagAt(m, i) \in CompositeTags /\ ~IsReadable(Payload(m, At(m, i)))
        /\ Holders(m, DataAt(m, i)) = {}
        => LET x == DataAt(m, i)
               Masked(outs) == {[out EXCEPT !.m = Written(@, x, <<>>)] : out \in outs}
           IN  Masked(Gated(m)) = Masked(Gated(Written(m, x, Altered(heap[x]))))

\* search cuts the haystack into what is before the first match, the match and
\* what comes after it, or finds that there is none.
Searches ==
    LET out == SearchFunction(m)
        hay == Body(m, 1)
        needle == Body(m, 0)
        Same(t, u) == IF TagAt(m, 1) = "string" THEN t = u ELSE TokenEq(m, t, u)
        Match_at(p) == \A i \in DOMAIN needle : Same(hay[p + i], needle[i])
        pre == Body(out.m, 1)
        p == Len(pre)
    IN  Succeeds(out) /\ hay # <<>> =>
            IF DataAt(out.m, 0)
            THEN /\ pre = SubSeq(hay, 1, p)
                 /\ Body(out.m, 3) = SubSeq(hay, p + Len(needle) + 1, Len(hay))
                 /\ Body(out.m, 2) = needle /\ Match_at(p)
                 /\ \A q \in 0..(p - 1) : ~Match_at(q)
            ELSE \A q \in 0..(Len(hay) - Len(needle)) : ~Match_at(q)

\* Intervals: what erase leaves and what getinterval takes make up the whole;
\* replace is erase and insert.
Intervals ==
    OnTop({"array", "string"}) =>
        LET tag == TagAt(m, 0)
            s == Body(m, 0)
            Piece(i, k) == GetintervalLeaf(With(<<IntTok(i), IntTok(k)>>), tag)
            Rest(i, k) == EraseLeaf(With(<<IntTok(i), IntTok(k)>>), tag)
            Cut(i, k) == ReplaceLeaf(With(<<IntTok(i), IntTok(k), At(m, 0)>>), tag)
            Put(i) == InsertLeaf(With(<<IntTok(i), At(m, 0)>>), tag)
        IN  \A i \in DOMAIN s : \A k \in 0..2 :
               LET whole == Succeeds(Piece(i - 1, k)) /\ Succeeds(Rest(i - 1, k))
                   piece == Body(Piece(i - 1, k).m, 0)
                   rest == Body(Rest(i - 1, k).m, 0)
                   Around(t) == SubSeq(rest, 1, i - 1) \o t \o SubSeq(rest, i, Len(rest))
               IN  whole => /\ Len(piece) = k /\ Around(piece) = s
                            /\ Yields(Cut(i - 1, k), Around(s))
                            /\ k = 0 => Yields(Put(i - 1), Around(s))

\* roll moves the top n tokens round by k, up for a positive k and down for a
\* negative one, and no other.  (Below -n the code moves them by another number.)
RollOf(s, n, k) ==
    LET base == Len(s) - n
    IN  [i \in DOMAIN s |-> IF i <= base THEN s[i] ELSE s[base + 1 + ((i - base - 1 - k) % n)]]
Rolls ==
    \A n \in 0..Load(m) : \A k \in -n..(n + 1) :
        RollFunction(With(<<IntTok(n), IntTok(k)>>), n, k).m.st = RollOf(ostack, n, k)

\* Operators that undo each other, or that cut and move what is there: nothing is
\* lost, made or put in another place on the way.
RoundTrips ==
    /\ Intervals
    /\ Searches
    /\ Rolls
    /\ LET out == Then(OperandstackFunction(m), RestoreostackFunction)
       IN  Succeeds(out) => out.m.st = m.st
    /\ OnTop({"array"}) =>
           LET s == Body(m, 0)
               Turn(k, n) == RotateFunction(Pushed(k, IntTok(n)))
               Back(n) == Then(Turn(m, n), LAMBDA k : Turn(k, -n))
               Rows(n) == Then(PartitionFunction(With(<<IntTok(n), IntTok(n)>>)), FlattenFunction)
               loaded == Then(ArrayloadFunction(m), ArraystoreFunction)
               marked == [m EXCEPT !.st = @ \o <<MarkTok>> \o s]
           IN  /\ Yields(loaded, s)
               /\ Succeeds(loaded) => Drop(loaded.m.st, 1) = Drop(m.st, 1)
               /\ MarkTok \notin ToSet(s) =>
                      /\ Yields(ArraycreateFunction(marked), s)
                      /\ Result(CounttomarkFunction(marked)) = Len(s)
               /\ Yields(Then(ReverseFunction(m), ReverseFunction), s)
               /\ \A n \in {-1, 2} : Yields(Back(n), s)
               /\ \A n \in 1..2 :
                      Yields(Rows(n),
                             SubSeq(s, 1, n * (Len(s) \div n)))
    /\ OnTop({"dictionary"}) =>
           LET keys == KeysFunction(m)
               values == ValuesFunction(m)
               pairs == CvaDictFunction(m)
               Paired(i) == /\ Body(pairs.m, 0)[2 * i - 1] = Body(keys.m, 0)[i]
                            /\ Body(pairs.m, 0)[2 * i] = Body(values.m, 0)[i]
                            /\ At(GetDict(With(<<Body(keys.m, 0)[i]>>)).m, 0) = Body(values.m, 0)[i]
               bracketed == [m EXCEPT !.st = @ \o <<MarkTok>> \o Body(pairs.m, 0)]
           IN  Succeeds(pairs) =>
                   /\ \A i \in 1..Size(m, 0) : Paired(i)
                   /\ MarkTok \notin ToSet(Body(values.m, 0)) =>
                          Yields(DictconstructFunction(bracketed), Body(m, 0))

\* What savestate writes, restorestate reads back, in another interpreter, too:
\* the same stacks over payloads of the same contents and access states, shared
\* where they were shared.  Of a file that lacks a word it makes nothing.
Nowhere == [st |-> <<>>, es |-> <<>>, heap |-> [x \in Ids |-> Free], room |-> TRUE]
Saved(t) == IF Tag(t) = "dictionary" THEN Garbage ELSE t
Counterparts(s, t) ==
    {<<Data(s[i]), Data(t[i])>> : i \in {j \in DOMAIN s \cap DOMAIN t : Tag(s[j]) \in PayloadTags}}
SameTokens(s, t) ==
    /\ DOMAIN s = DOMAIN t
    /\ \A i \in DOMAIN s :
           IF Tag(s[i]) \in PayloadTags THEN Tag(t[i]) = Tag(s[i]) ELSE t[i] = Saved(s[i])
SameState(k, l) ==
    LET More(pairs) ==
            pairs \cup UNION {Counterparts(Contents(k.heap[p[1]]), Contents(l.heap[p[2]])) : p \in pairs}
        pairs == FoldLeft(LAMBDA ps, x : More(ps),
                          Counterparts(k.st, l.st) \cup Counterparts(k.es, l.es),
                          [x \in Ids |-> x])
    IN  /\ SameTokens(k.st, l.st) /\ SameTokens(k.es, l.es)
        /\ \A p \in pairs :
               LET o == k.heap[p[1]]
                   q == l.heap[p[2]]
               IN  /\ o.kind = q.kind /\ o.acc = q.acc
                   /\ IF o.kind = "array" THEN SameTokens(o.body, q.body) ELSE o.body = q.body
        /\ \A p, q \in pairs : (p[1] = q[1]) = (p[2] = q[2])

SavedStateIsWhole ==
    [][last'.op = "savestate" /\ last'.err = "none" =>
           LET saved == [m EXCEPT !.st = ostack', !.es = estack']
               read == ReadState(Nowhere, file')
           IN  IF file' = Image(saved)
               THEN /\ ~read.err
                    /\ SameState(saved, [read.m EXCEPT !.st = read.stacks[1], !.es = read.stacks[2]])
               ELSE read.err]_vars

-----------------------------------------------------------------------------
(* Numbers *)

\* The compact operators, which decide by the tags themselves, do what the
\* leaves do that a type trie would choose by the same tags, errors included.
\* Two differences of the code are excused by name: max and min of a NaN depend
\* on the order in which they compare; and sqrt, ln and log, where the leaf
\* raises RangeCheck, raise nothing and leave what the C library makes of the
\* operand.  (mod is its own leaf, and for booleans there is none of and.)
Unchecked(compact, leaf) ==
    IF leaf.err = "RangeCheck" THEN compact.err = "none" ELSE compact = leaf
NaNs == DLeft(m) = NaN \/ DRight(m) = NaN
CompactIsLeaf ==
    /\ Match(II) =>
           /\ AddFunction(m) = Add_iiFunction(m) /\ SubFunction(m) = Sub_iiFunction(m)
           /\ MulFunction(m) = Mul_iiFunction(m) /\ DivFunction(m) = Div_iiFunction(m)
           /\ MaxFunction(m) = Max_i_iFunction(m) /\ MinFunction(m) = Min_i_iFunction(m)
           /\ GtFunction(m) = Gt_iiFunction(m) /\ LtFunction(m) = Lt_iiFunction(m)
           /\ GeqFunction(m) = Geq_iiFunction(m) /\ LeqFunction(m) = Leq_iiFunction(m)
           /\ AndPolyFunction(m) = And_iiFunction(m) /\ OrPolyFunction(m) = Or_iiFunction(m)
           /\ XorPolyFunction(m) = Xor_iiFunction(m) /\ NotPolyFunction(m) = Not_iFunction(m)
    /\ Match(DD) =>
           /\ AddFunction(m) = Add_ddFunction(m) /\ SubFunction(m) = Sub_ddFunction(m)
           /\ MulFunction(m) = Mul_ddFunction(m) /\ DivFunction(m) = Div_ddFunction(m)
           /\ NaNs \/ (MaxFunction(m) = Max_d_dFunction(m) /\ MinFunction(m) = Min_d_dFunction(m))
           /\ GtFunction(m) = Gt_ddFunction(m) /\ LtFunction(m) = Lt_ddFunction(m)
           /\ GeqFunction(m) = Geq_ddFunction(m) /\ LeqFunction(m) = Leq_ddFunction(m)
           /\ PowFunction(m) = Pow_ddFunction(m)
    /\ Match(DI) =>
           /\ AddFunction(m) = Add_diFunction(m) /\ SubFunction(m) = Sub_diFunction(m)
           /\ MulFunction(m) = Mul_diFunction(m) /\ DivFunction(m) = Div_diFunction(m)
           /\ NaNs \/ (MaxFunction(m) = Max_d_iFunction(m) /\ MinFunction(m) = Min_d_iFunction(m))
           /\ GtFunction(m) = Gt_diFunction(m) /\ LtFunction(m) = Lt_diFunction(m)
           /\ GeqFunction(m) = Geq_diFunction(m) /\ LeqFunction(m) = Leq_diFunction(m)
           /\ PowFunction(m) = Pow_diFunction(m)
    /\ Match(ID) =>
           /\ AddFunction(m) = Add_idFunction(m) /\ SubFunction(m) = Sub_idFunction(m)
           /\ MulFunction(m) = Mul_idFunction(m) /\ DivFunction(m) = Div_idFunction(m)
           /\ NaNs \/ (MaxFunction(m) = Max_i_dFunction(m) /\ MinFunction(m) = Min_i_dFunction(m))
           /\ GtFunction(m) = Gt_idFunction(m) /\ LtFunction(m) = Lt_idFunction(m)
           /\ GeqFunction(m) = Geq_idFunction(m) /\ LeqFunction(m) = Leq_idFunction(m)
    /\ Match(<<"bool", "bool">>) =>
           /\ OrPolyFunction(m) = Or_bbFunction(m) /\ XorPolyFunction(m) = Xor_bbFunction(m)
           /\ NotPolyFunction(m) = Not_bFunction(m)
    /\ Match(<<"double">>) =>
           /\ SqrFunction(m) = Sqr_dFunction(m)
           /\ \A f \in {"sin", "asin", "cos", "acos", "exp"} : UnaryFunction(m, f) = TrigLeaf(m, f)
           /\ Unchecked(SqrtFunction(m), Sqrt_dFunction(m))
           /\ Unchecked(UnaryFunction(m, "ln"), Ln_dFunction(m))
           /\ Unchecked(UnaryFunction(m, "log"), Log_dFunction(m))

\* Sort agrees with leq, and GetMin and GetMax with the ends of what it leaves.
Sorts ==
    OnTop({"array"}) =>
        LET Leq(t, u) == DataAt(LeqFunction(With(<<t, u>>)).m, 0)
            Ordered(s) ==
                /\ \E q \in Bijection(DOMAIN s, DOMAIN s) : s = [i \in DOMAIN s |-> Body(m, 0)[q[i]]]
                /\ \A i \in 2..Len(s) : Leq(s[i - 1], s[i])
                /\ At(MinMaxFunction(m, FALSE).m, 0) = s[1]
                /\ At(MinMaxFunction(m, TRUE).m, 0) = s[Len(s)]
            numbers == \A i \in DOMAIN Body(m, 0) : IsNumber(Body(m, 0)[i]) /\ Body(m, 0)[i] # Dbl(NaN)
        IN  /\ SortingsOfTop # {}
            /\ \A sorted \in SortingsOfTop :
                   LET out == SortFunction(m, sorted)
                   IN  Succeeds(out) /\ numbers /\ Body(m, 0) # <<>> => Ordered(Body(out.m, 0))

\* The comparisons are those of one order: exactly one of lt, eq, gt for two
\* operands of a type that are not NaN, geq and leq their opposites, and the
\* order turns with the operands.
Compares ==
    (\/ Match(II) \/ (Match(DD) /\ ~NaNs)
     \/ (Match(<<"string", "string">>) /\ Succeeds(EqFunction(m))))
    => LET gt == Result(GtFunction(m))
           lt == Result(LtFunction(m))
           eq == Result(EqFunction(m))
           turned == ExchFunction(m).m
       IN  /\ ~(gt /\ lt) /\ eq = (~gt /\ ~lt)
           /\ Result(GeqFunction(m)) = ~lt /\ Result(LeqFunction(m)) = ~gt
           /\ Result(NeqFunction(m)) = ~eq
           /\ Result(GtFunction(turned)) = lt
           /\ Result(LeqFunction(turned)) = ~lt

\* gt, lt, geq, leq, eq and neq are one order, and it is the one that Sort, GetMax
\* and GetMin go by.
ComparisonsAreAnOrder == Compares /\ Sorts

\* The integer operators agree with each other at every pair of longs, errors
\* included: quotient and remainder make up the dividend, the bit operators
\* carry like addition, and abs, neg and not are what subtraction makes of them.
IntegersAgree ==
    Match(II) =>
        LET n == DataAt(m, 1)
            d == DataAt(m, 0)
            div == DivFunction(m)
            mod == Mod_iiFunction(m, n, d)
            under == Popped(m, 2)
            From(x, y) == SubFunction([m EXCEPT !.st = Drop(@, 2) \o <<IntTok(x), IntTok(y)>>])
            Top(out) == IF out.err = "none" THEN At(out.m, 0) ELSE out.err
        IN  /\ div.err = mod.err
            /\ div.err = "none" =>
                   /\ n = Result(div) * d + Result(mod)
                   /\ Abs(Result(mod)) < Abs(d)
                   /\ Result(mod) # 0 => Sign(Result(mod)) = Sign(n)
            /\ n + d = Result(XorPolyFunction(m)) + 2 * Result(AndPolyFunction(m))
            /\ Result(OrPolyFunction(m)) - Result(AndPolyFunction(m)) = Result(XorPolyFunction(m))
            /\ Top(Neg_iFunction(m)) = Top(From(0, d))
            /\ Top(NotPolyFunction(m)) = Top(From(-1, d))
            /\ Top(Abs_iFunction(m)) = (IF d >= 0 THEN IntTok(d) ELSE Top(Neg_iFunction(m)))

\* A double is what its parts make: frexp and ldexp, modf, and the rounding
\* operators, which cvi follows towards zero.
DoublesAgree ==
    Match(<<"double">>) /\ IsFinite(DataAt(m, 0)) =>
        LET x == DataAt(m, 0)
            halves == Modf_dFunction(m)
            floor == Result(Floor_dFunction(m))
            ceil == Result(Ceil_dFunction(m))
            round == Result(Round_dFunction(m))
        IN  /\ Then(Frexp_dFunction(m), Ldexp_diFunction).m = m
            /\ Plus(DataAt(halves.m, 0), DataAt(halves.m, 1)) = x
            /\ DAtMost(floor, x) /\ DAtMost(x, ceil) /\ round \in {floor, ceil}
            /\ DAtMost(Minus(ceil, floor), One)
            /\ DAtMost(Result(Abs_dFunction([m EXCEPT !.st = SetPick(@, 0, Dbl(Minus(x, round)))])),
                       <<"fin", Unit \div 2>>)
            /\ \A n \in Casts(At(m, 0)) :
                   FromLong(n) = DataAt(halves.m, 0) \/ DataAt(halves.m, 0)[2] \div Unit \notin Longs

\* The arithmetic operators agree with each other, on integers and on doubles,
\* and no integer of theirs is too long for a long.
NumbersAgree ==
    /\ IntegersAgree /\ DoublesAgree
    /\ \A i \in DOMAIN ostack : Tag(ostack[i]) = "integer" => DataAt(m, Len(ostack) - i) \in Longs
=============================================================================
