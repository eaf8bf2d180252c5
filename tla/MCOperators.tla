------------------------------ MODULE MCOperators -----------------------------
(***************************************************************************)
(* Operators for TLC: programs on containers, on saved states and on       *)
(* numbers.                                                                *)
(***************************************************************************)
EXTENDS Operators

Payloads(bodies) ==
    [x \in Ids |-> IF x \in DOMAIN bodies THEN bodies[x] ELSE Free]

\* [1 0], (ab), << /k 1 >> and an array with two tokens of the first one.
ContainerHeap == Payloads(
    << Fresh("array", <<IntTok(1), IntTok(0)>>),
       Fresh("string", <<0, 1>>),
       Fresh("dictionary", [k |-> IntTok(1)]),
       Fresh("array", <<<<"array", 1>>, <<"array", 1>>>>) >>)
ContainerLiterals ==
    << <<"array", 1>>, <<"string", 2>>, <<"dictionary", 3>>, <<"array", 4>>,
       IntTok(0), IntTok(1), Lit("k") >>
\* One operand, what lies above a mark, or as many as the longest of the operators takes.
ContainerStacks ==
    { << <<"array", 1>> >>, << <<"string", 2>> >>, << <<"dictionary", 3>> >>, << <<"array", 4>> >>,
      << <<"string", 2>>, IntTok(-1) >>, << <<"litprocedure", 1>>, IntTok(0) >>,
      << <<"procedure", 1>>, IntTok(0), IntTok(1) >>,
      << MarkTok, IntTok(1), <<"array", 4>> >>, << MarkTok, Lit("k"), <<"string", 2>> >>,
      << <<"array", 1>>, IntTok(0), IntTok(1), <<"array", 4>> >>,
      << <<"string", 2>>, IntTok(1), IntTok(0), <<"string", 2>> >> }
SharingStacks ==
    { << <<"array", 4>>, <<"array", 1>> >>, << <<"litprocedure", 1>>, IntTok(0) >> }
\* The names of the types are there before the program's own.
ContainerOrder ==
    << "integer", "double", "bool", "literal", "name", "mark", "array", "procedure",
       "litprocedure", "string", "dictionary", "j", "k" >>

ContainerOperators ==
    { "pop", "dup", "exch", "over", "rollu", "rolld", "rot", "count", "clear", "operandstack",
      "restoreostack", "npop", "index", "copy", "roll", "length", "empty", "size", "reserve",
      "get", "put", "keys", "values", "cva", "cleardict", "clonedict", "known", "join", "search",
      "getinterval", "insertelement", "append", "prepend", "eq", "neq", "insert_a", "insert_s",
      "replace_a", "replace_s", "erase_a", "erase_p", "erase_s", "append_lp", "cvi_s", "Range", "array",
      "First", "Rest", "Reverse", "Rotate", "Flatten", "Sort", "Transpose", "Partition",
      "arrayload", "arraystore", "GetMax", "GetMin", "valid", "readonly", "executeonly",
      "noaccess", "rcheck", "wcheck", "xcheck", "type", "cvx_lp", "cvx", "cvlit", "cvn",
      "gt", "lt", "geq", "leq",
      "counttomark", "]", ">>", "typeinfo" }

\* The ones that share payloads, write them or narrow them.
SharingOperators ==
    { "pop", "dup", "exch", "over", "operandstack", "restoreostack", "get", "put", "join",
      "clonedict", "cleardict", "values", "insertelement", "append", "append_lp",
      "getinterval", "insert_a", "replace_s", "erase_p", "Flatten", "Rest",
      "arrayload", "readonly", "executeonly", "noaccess", "cvlit", "cvx_lp" }

\* An array that holds itself and (ab), and another that holds it twice.
SavedHeap == Payloads(
    << Fresh("array", <<<<"array", 1>>, <<"string", 2>>, IntTok(0)>>),
       Fresh("string", <<0, 1>>),
       Fresh("dictionary", [k |-> IntTok(1)]),
       Fresh("array", <<<<"array", 1>>, <<"procedure", 1>>>>) >>)
SavedOperators ==
    {"pop", "dup", "append", "cvx", "readonly", "operandstack",
     "savestate", "restorestate"}

MCRawReads == {0, 1}

-----------------------------------------------------------------------------
(* Pairs of numbers: the limits, zero, what a double rounds, halves *)

Integer == {MinLong, MinLong + 1, -3, -1, 0, 1, 2, 5, 7, MaxLong}
Double ==
    {Fin(u) : u \in {-MaxFinite, -6, -4, -1, 0, 1, 2, 4, 6, 12, MaxFinite}} \cup {Inf(1), Inf(-1), NaN}
Number == {IntTok(n) : n \in Integer} \cup {Dbl(x) : x \in Double}
Truth == {Bool(TRUE), Bool(FALSE)}

\* Arrays for Range, Sort, GetMax and UnitStep, also of NaN and of two types.
NumberHeap == Payloads(
    << Fresh("array", <<IntTok(1), IntTok(-2), IntTok(0)>>),
       Fresh("array", <<Dbl(Fin(6)), Dbl(Zero), Dbl(Negated(One))>>),
       Fresh("array", <<Dbl(Zero), Dbl(NaN), Dbl(One)>>),
       Fresh("array", <<IntTok(1), Dbl(Fin(12)), Dbl(Fin(6))>>),
       Fresh("array", <<IntTok(-1), IntTok(2), IntTok(2)>>),
       Fresh("array", <<Dbl(Fin(12))>>),
       Fresh("string", <<0, 1>>),
       Fresh("string", <<0>>) >>)
NumberLiterals ==
    [i \in 1..8 |-> <<IF i <= 6 THEN "array" ELSE "string", i>>]
NumberStacks ==
    {<<a, b>> : a, b \in Number} \cup {<<a, b>> : a, b \in Truth}
    \cup {<<NumberLiterals[i]>> : i \in 1..6}
    \cup {<<NumberLiterals[i], NumberLiterals[j]>> : i, j \in 6..8}

NumberOperators ==
    { "add", "sub", "mul", "div", "mod", "max", "min", "gt", "lt", "geq", "leq", "and", "or",
      "xor", "not", "sqr", "sqrt", "pow", "sin", "asin", "cos", "acos", "exp", "ln", "log",
      "cvd", "cvi", "log_d", "ln_d", "sqr_d", "sqrt_d", "pow_dd", "pow_di", "sin_d", "modf_d",
      "frexp_d", "ldexp_di", "dexp_i", "abs_i", "abs_d", "neg_i", "neg_d", "inv", "finite_q_d",
      "add_ii", "add_dd", "add_di", "add_id", "sub_ii", "sub_dd", "sub_di", "sub_id",
      "mul_ii", "mul_dd", "mul_di", "mul_id", "div_ii", "div_dd", "div_di", "div_id",
      "max_i_i", "max_i_d", "max_d_i", "max_d_d", "min_i_i", "min_i_d", "min_d_i", "min_d_d",
      "gt_ii", "gt_dd", "gt_id", "gt_di", "lt_ii", "lt_dd", "lt_id", "lt_di",
      "geq_ii", "geq_dd", "geq_id", "geq_di", "leq_ii", "leq_dd", "leq_id", "leq_di",
      "and_ii", "or_ii", "or_bb", "xor_bb", "xor_ii", "not_b", "not_i", "UnitStep_i",
      "UnitStep_d", "UnitStep_ia", "UnitStep_da", "round_d", "floor_d", "ceil_d", "double_i",
      "int_d", "eq", "neq", "Range", "Sort", "GetMax", "GetMin", "gt_ss", "lt_ss",
      "cvd_s" }

\* The functions of the C library are told apart by name and arguments; there
\* is nothing else that the model knows of them.
LibmOrder == <<"sin", "asin", "cos", "acos", "exp", "ln", "log", "pow">>
MCLibm(f, args) ==
    LET i == CHOOSE j \in DOMAIN LibmOrder : LibmOrder[j] = f
    IN  IF NaN \in ToSet(args) THEN NaN ELSE Times(FromLong(i), args[1])

\* Two strings that nobody holds but the stack.
StringHeap == Payloads(<<Fresh("string", <<0, 1>>), Fresh("string", <<0>>)>>)
StringOperators == {"pop", "dup", "over", "exch", "join", "gt", "lt", "gt_ss", "lt_ss"}

-----------------------------------------------------------------------------
Containers(ops, literals, stacks, length) ==
    [ ops |-> ops, length |-> length, heap |-> ContainerHeap,
      literals |-> SubSeq(ContainerLiterals, 1, literals), stacks |-> stacks ]

ContainerPrograms ==
    [ containers |-> Containers(ContainerOperators, 7, ContainerStacks, 2),
      sharing |-> Containers(SharingOperators, 5, SharingStacks, 3),
      saved |-> [ ops |-> SavedOperators, length |-> 4, heap |-> SavedHeap,
                  literals |-> <<<<"string", 2>>, <<"array", 4>>, <<"dictionary", 3>>>>,
                  stacks |-> {<<<<"array", 1>>, <<"string", 2>>>>} ],
      strings |-> [ ops |-> StringOperators, length |-> 4, heap |-> StringHeap,
                    literals |-> <<>>, stacks |-> {<<<<"string", 1>>, <<"string", 2>>>>} ] ]

NumberPrograms ==
    [ numbers |-> [ ops |-> NumberOperators, length |-> 1, heap |-> NumberHeap,
                    literals |-> NumberLiterals, stacks |-> NumberStacks ] ]

AllPrograms ==
    [ p \in DOMAIN ContainerPrograms \cup DOMAIN NumberPrograms |->
          IF p = "numbers" THEN NumberPrograms.numbers ELSE ContainerPrograms[p] ]
=============================================================================
