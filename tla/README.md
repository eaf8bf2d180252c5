# A TLA+ model of the sli3 interpreter

sli3 is a reimplementation in C++ of the stack language of NEST (SLI, close to
PostScript). This directory holds TLA+ specifications of the parts of it in
which one piece of state must agree with another one over long sequences of
operations, the configurations with which TLC checks them on small instances,
and proofs, checked by TLAPS, for every size.

Paths below are relative to the repository; its interpreter lives in `src/`.

## 1. The system

| Part | State | Operations | Talks to | Modules |
|---|---|---|---|---|
| Dictionary stack (`containers/sli_dictstack.*`, `sli_dictionary.h`) | a list of dictionaries, `cache_` and `basecache_` (name -> pointer into a map node), `base_`, a snapshot array; in each dictionary its map, an access state and `refs_on_dictstack_` | `lookup`, `known`, `baselookup`, `push`, `pop`, `clear`, `restore_from`, `def`, `undef`, `snapshot` | every operator that runs a name; `put`, `cleardict` and `raiseerror` write dictionaries past it | `DictStack`, `Namespaces` |
| Dispatcher (`interpreter/sli_interpreter.cpp`) | execution stack, operand stack, `current_op_`, the position of `execute_dispatch_` | one arm per token type, `body_walk`, `body_exhausted`, `resume_iter` | calls operators, which push and unwind frames on its stack | `Dispatcher`, `Tokens` |
| Control operators (`builtins/sli_control.cpp`, `sli_array_module.cpp`) | none of their own | `exec`, `if`, `ifelse`, `case`, `switch`, `stopped`, `stop`, `loop`, `repeat`, `for`, `forall`, `forallindexed`, `Map`, `MapIndexed`, `MapThread`, `exit`, `return`, `bind`, `closeinput` | the execution stack, whose frame layout they share with the dispatcher | `Dispatcher` |
| Error machinery (`raiseerror`, `raiseagain`, `print_error`, `handleerror` in `lib/sli/sli-init.sli`) | `errordict` (`newerror`, `errorname`, `commandname`, `message`, ...) | record an error, schedule `stop`, print it | the dictionary stack (`baselookup` of `/stop`), the catch clause of the dispatcher | `Dispatcher`, `DictStack` |
| Signals (`interpreter/sli_signal.cpp`) | one flag | the handler sets it, the dispatcher polls and clears it | runs between any two instructions | `Dispatcher` |
| Type tries (`trie/`) | a tree of types per overloaded name | `insert`, `lookup` | the trie arm of the dispatcher | `TypeTrie` |
| Tokens and payloads (`types/`, `containers/sli_array.h`, `sli_string.h`, `builtins/sli_cow.h`) | reference counts, access states | copy, clone-if-shared, release | all stacks and containers | `Heap` |
| Stack operators (`builtins/sli_stack.cpp`) | none of their own | some 20 operators | operand stack | `StackOps` |
| Containers (`builtins/sli_container_ops.cpp`, `sli_op_bodies.h`, `sli_array_module.cpp`, `sli_builtins.cpp`) | none of their own | some 100 operators on arrays, procedures, strings, dictionaries | payloads, access states | `ContainerOps`, `ArrayOps`, `AccessOps` |
| Arithmetic (`builtins/sli_math.cpp`) | none of its own | some 100 operators, most of them twice: a compact one that looks at the tags, and typed leaves behind a trie | operand stack, type tries | `Doubles`, `MathOps` |
| Saved states (`builtins/sli_state_ops.cpp`, `serialize/`) | a file, a table of objects by identity | `savestate`, `restorestate` | both stacks, payloads | `SavedState` |
| Scanner and parser (`parser/`) | an automaton, a digit string, a position; a stack of open procedures | next symbol, next token | the `iparse` arm, `token_is`, `token_s`, `symbol_s` | `Reader` |
| Graphics (`builtins/sli_graphics_module.cpp`, `containers/sli_graphics.*`) | pages with a count of their handles, a Cairo context and its status; the current page and font in the dictionary `gfxstatus` | some 90 commands | tokens, dictionaries, Cairo, SDL | `Graphics` |
| Pool (`util/sli_allocator.h`), names, streams, regular expressions, readline, tracing | free list, a table, library handles | wrappers | outside | none |

The interpreter is one thread. What is hard in it is not a race but agreement
over time:

* **Stale state.** Both lookup caches hold raw pointers into the maps of
  dictionaries. Nine operators move or write dictionaries, and each clears what
  it believes it invalidates, in its own way. The error machinery and the C++
  code's own `baselookup` go past them. The scanner's digit string, the parser
  and the current page outlive the call that set them.
* **One flat stack.** Procedures, ten kinds of loops, `stopped` contexts, the
  parser and scheduled operators share the execution stack. The sizes of frames
  are literals in three places: the operator that pushes them, the exhaust arm
  that pops them, and `return`. `exit` looks for a mark, `stop` for a name,
  `return` for a procedure's marker; the tail call drops a procedure's frame.
* **Errors within errors.** An error schedules `stop` on the stack that the
  failing operator left behind; `newerror` decides whether a second error is
  recorded. An operator that fails at its third check must not have popped
  anything at its second.
* **Sharing.** Payloads are counted by hand. Some operators clone a shared
  payload before they write it, others write it where it is; each checks the
  access state for itself.
* **The one interleaving.** A signal arrives between any two steps and must be
  taken, even by a loop that never comes back to the head of the dispatcher.

For each part, what makes it correct:

* dictionary stack: a cached lookup answers what a walk of the stack answers;
  the base is the bottom; a dictionary on the stack is never thought to be off
  it; the snapshot is current; a narrowed dictionary keeps its bindings;
* dispatcher: every frame stays whole; a program ends as its nesting says;
  tail recursion runs in constant space; an error is put down to the operator
  that failed; a signal is taken;
* type tries: a list that was inserted is found, the exact type before the
  wildcard, in whatever order the lists came;
* payloads and their operators: what nobody can reach is freed, but for known
  leaks; an extension and a result
  are nobody else's; a narrowed payload keeps its contents and one that may
  not be read tells none; a failing operator has changed nothing; operators
  that say the same in two ways agree;
* saved states: sharing survives a save and a restore, a broken file changes
  nothing;
* reader: a symbol is what its characters say, a token is its symbols nested
  as their braces are, a position is that of the text, a call comes back;
* graphics: a context counts its handles, a file is finished, a page stays
  drawable and keeps its matrix.

## 2. The plan

| # | Modules | Abstract side | State |
|---|---|---|---|
| 1 | `DictStack`, `DictStackImplements`, `DictStackProofs` | `Namespaces`: a stack of dictionaries without caches | checked and proved |
| 2 | `Tokens`, `Dispatcher`, `DispatcherProofs` | `Reference`: the meaning of a program by recursion on its structure | checked; types, frames and `current_op_` proved |
| 3 | `TypeTrie`, `TypeTrieProofs` | the accepted parameter lists | checked and proved |
| 4 | `Heap`, `StackOps`, `ContainerOps`, `ArrayOps`, `AccessOps`, `Doubles`, `MathOps`, `Operators`, `HeapProofs`, `OperatorsProofs` | operators compared with each other and with definitions on sequences and integers | checked; types, collection, access, failures, copy on write, new results and compact operators proved |
| 5 | `SavedState` (in `Operators`) | equality up to the names of payloads (`SameState`) | checked; types and access proved |
| 6 | `Reader`, `Grammar`, `ReaderProofs` | what the text says: `Unescaped`, `strtoll`, nested braces, `PositionOf` | checked; types and positions proved |
| 7 | `Graphics`, `GraphicsProofs` | the excused reasons for a broken page | checked and proved |
| 8 | a loop over a payload that its body changes: `Dispatcher` over `Heap` | `Reference` with shared payloads | open |
| 9 | pool | a set of blocks | open |
| 10 | a call stack of closures between modules `Dispatcher` and `Reference` | `Reference` | open |

`Dispatcher` and `Operators` divide the interpreter between them: an operator
in `Dispatcher` is one that looks at the execution stack, and its data are
values; an operator in `Operators` leaves the execution stack alone, and its
data are payloads. An error ends a program of `Operators`, where the
dispatcher's error machinery takes over. `TypeTrie` says which leaf the
dispatcher calls for an overloaded name; `MathOps` has the leaves; `Reader`
delivers the tokens that `Dispatcher` takes from `input`.

Runs stay at sizes at which TLC ends in a minute or two; proofs take the
invariants to all sizes. No module that is proved about, or used by one, has a
`RECURSIVE` operator: those are in `Reference` and `Grammar` and nowhere else.

A definition of the models may be preceded by a variant of it with a slip that
a programmer could make (`KeepAllNames`, `AlwaysTail`, `InPlace`...). No model
uses these; `PROJECT.json` lists, for every property of a passing run, one
that breaks it when it takes the definition's place.

## 3. The dictionary stack

`DictStack.tla`. A cache slot of the code is a `Token*` into a node of one
dictionary's map. A node belongs to one (dictionary, name) pair, and the slot
is found by the name, so a pointer is the dictionary that owns the node;
`Null` is the null pointer and `Freed` a pointer to a node that was erased.

| Variable | Code |
|---|---|
| `d` | the list `d`, bottom first |
| `bind` | the maps of all dictionaries |
| `cache`, `basecache`, `base` | `cache_`, `basecache_`, `base_` |
| `refs` | `refs_on_dictstack_` |
| `locked` | the dictionaries whose access is not unlimited |
| `snap` | `snapshot_` |
| `answer` | the last lookup, its name and what it returned (`Unbound`: `UndefinedName`); empty after any other step |
| `status` | running; after undefined behaviour in `set_basedict`; terminated |

| Action | Code |
|---|---|
| `Lookup` | `find_` behind `lookup`, `load`, `known` and the execution of a name |
| `BaseLookup` | `baselookup`, called by C++ code for its own names |
| `Begin`, `End`, `CallMember` | `begin`, `end`, `call` with `push`, `pop` |
| `Dictstack` | `dictstack`: the snapshot is built on first use |
| `Cleardictstack`, `Restoredstack` | `clear` and pushes, `set_basedict` |
| `Def`, `Put`, `Undef`, `Cleardict`, `Narrow` | the operators that write |
| `RaiseError`, `PrintError` | what `raiseerror` and `print_error` do to `errordict` and the caches |

`Namespaces.tla` is the promise to a program: `Ask`, `Open`, `Close`,
`Replace`, `Write`, `Narrow`, and no cache. It is made for the names that the
C++ code does not itself fetch with `baselookup` and `raiseerror` does not
write. `DictStackImplements.tla` states the refinement.

### Properties

* `LookupIsTopmost`: for those names a filled slot is the topmost binding.
* `CacheCoherent`, `BasecacheCoherent`: for the others, what a slot may be.
  There are just two excuses for hiding a higher binding.
* `BaseIsBottom`, `RefsCoverStack`, `SnapshotFresh`, `LockedUnchanged`.
* `ImplementsNamespaces`: the refinement.

### Runs

| Run | Result | Instance |
|---|---|---|
| `dictstack_core` | holds, with the refinement | 4 dictionaries, an operator name and a user's name, depth 4, counters to 2, arrays to restore; two values, which the program gives to the user's name only: an answer shows which dictionary it came from |
| `dictstack_errors` | holds (the caches' coherence) | `message` and `newerror`, which the error machinery writes and the first of which it erases; the program writes the second |
| `dictstack_load` | violated | `load` of a name that C++ code has fetched answers the base's binding |
| `dictstack_dangling` | violated | `print_error` erases a node a slot points at |

Bounds: `MaxDepth` lets one dictionary stand above the permanent three, or any
of them twice, which is where one binding hides another; `MaxRefs` allows the
counter to leak once (`clear` never takes it back). With two names, one fetched
by the C++ code and one not, every excuse of `CacheCoherent` occurs. The
program may push `errordict`, as `begin` allows. Deadlock is not checked: a
terminated interpreter stops.

## 4. The dispatcher

`Dispatcher.tla` with `Tokens.tla`. A token is a tag and the data that control
looks at; a procedure carries the name of its body. `pc` is the place in
`execute_dispatch_`: `dispatch` is the head of the loop and its switch, `walk`,
`exhausted` and `resume` are the labels `body_walk`, `body_exhausted` and
`resume_iter`, `halted` is the end, and `wild` is undefined behaviour.

| Variable | Code |
|---|---|
| `estack`, `ostack` | the two token stacks, top last |
| `program` | the bodies of the procedures and `show_backtrace_` |
| `bound` | the procedures whose bodies `bind` has rewritten in place |
| `input` | what the stream under `::parse` still holds |
| `signalflag`, `signals` | the flag of the handler; how many arrived |
| `current_op` | `current_op_` |
| `error` | `newerror`, `errorname`, `commandname` of `errordict` |
| `dlevel` | the depth of the dictionary stack |

Each arm of the switch, each way through `body_walk`, and each exhaust arm is
an action. An operator is an operator of the same name over the execution
stack it is called with; `Execute` first does what `require_stack_load` and
`require_stack_type` do (table `Requires`), and an exception leaves
`current_op` as it is. `handleerror`, an SLI procedure, is one step.

`Reference.tla` says what a program means, by recursion on its structure:
`Eval` returns how control leaves a piece of program and the stacks it leaves.
There is no execution stack in it, no frame, no position, no tail call, and it
takes every procedure as it is written, bound or not. It is the specification
the run compares with, and translates no code. Where
`doc/control_flow_spec.md` plans what the code does not do yet, `Meaning` is
the code's and `EndsAsMeant` compares with that: `exit` outside a loop raises
`EStackUnderflow` and not `invalidexit` (its D3), and what was begun inside a
`stopped` stays on the dictionary stack (its D2). For D2 the planned meaning is
there, too: `Specified` is `Meaning` with a `stopped` that brings the
dictionary stack back to its depth, and `dispatcher_stop` compares with it.

`forall` hands a dictionary over to `forall_di`, a procedure of the SLI library
(`Forall_di`), by pushing it on the execution stack. Its body, which is SLI
code that lists the dictionary and walks the list, is not modelled: the
programs walk empty dictionaries only, for which it drops its two operands, and
the body they give it does just that.

### Properties

* `FramesIntact`: every marker sits on a whole frame of its kind, with the
  position inside the body; every mark is the bottom of a loop's frame, except
  one that a program left on top for a step (`mark exec`) or under a `stop`
  that an error has scheduled meanwhile; and without `/backtrace_on` no procedure with nothing left to do waits below
  another frame (`NoSpentFrame`).
* `StaleOpIsUnwinding`: `current_op_` outlives an operator only until the
  `stop` that its error scheduled.
* `EndsAsMeant`: at the end the operand stack, the error state, the depth of
  the dictionary stack and the unread input are those of `Reference`. As
  `Reference` knows nothing of `bind`, this includes that `bind`, also of a
  procedure that is running, changes no result.
* `StopRestoresDictionaries`: at the end the dictionary stack is as deep as
  `Specified` says.
* `SignalTaken`: a signal that arrived is taken, or the interpreter ends.

### Runs

| Run | Result | Programs |
|---|---|---|
| `dispatcher_core` | holds | every construct nested in every other, left by its end, `exit`, `return`, `stop`, errors, `quit`, `closeinput`; with and without the backtrace; `begin` before a `stop`; bound before and while they run; loops and tail recursions that never end, with two signals at any steps |
| `dispatcher_return` | violated | `{ { [3 2] { return } forall } exec 1 } exec` |
| `dispatcher_stop` | violated | `{ <<>> begin <<>> begin stop } stopped`, the program that `doc/control_flow_spec.md:899` sketches as a test: the two dictionaries stay |

Bounds: a program nests two constructs around a short body. The frame
operations look at one frame and what is below it, so two levels show every
pair (what is unwound, what is resumed), and a third level, `H` or the input,
shows what follows. Arrays have two elements and counts are two: the first
round, a middle one and the end differ, more rounds repeat. `IntBits = 4`
makes 7 the largest integer. `MaxOperands` and `MaxExec` cut off programs that
fill the stacks (a loop that pushes); such a program is followed up to the
bound. `return` in a loop that ends a procedure is left out of
`dispatcher_core`, since it is what `dispatcher_return` shows to go wrong, and
so is a procedure that contains itself, on which `bind` never ends.

Fairness: weak fairness of `Step`. The interpreter is one thread that never
waits in the modelled arms, and the processor runs it. Signals are not fair:
they need not come. Deadlock is checked in the three runs: `Ended` stutters in the
final states only.

## 5. Type tries

`TypeTrie.tla`. A name with variants is a tree: one level for each operand,
from the top of the stack down. The nodes of a level hang together by `alt_`,
and all were reached by the same types; so a level is known by that path, and
the tree is a function from paths to lists of nodes. `next_` of the node with
type `t` on level `p` is level `Append(p, t)`.

| Variable | Code |
|---|---|
| `trie` | the nodes: `tag_` and `func_` of each, `alt_` as the order in a level, `next_` as the path |
| `pc` | outside, in the loop of `insert`, in the loop of `lookup` |
| `goal` | the `TypeArray` of `addtotrie`; the types on the operand stack |
| `pos` | `pos` of the two loops; its length is `level` |
| `func` | the function to insert; the one that was found |
| `reply` | how the last call ended |
| `variants` | no variable of the code: what `addtotrie` has accepted, for the properties |

`Addtotrie`, then one `InsertLevel` for each round of `insert`, which ends in
`InsertRefused` or `InsertDone`; `Execute` (the trie arm of the dispatcher),
then one `LookupLevel` for each round of `lookup`, which ends in
`LookupUnderflows`, `LookupMisses` or `LookupDone`; `Rebuild` is `cva_t` and
then `cvt_a`, after which the program goes on with the copy. One call does not
interrupt another; the rounds are steps because what a call that is refused
has changed on its way is a question.

### Properties

* `TypeOK` (in the proofs only) and `WildcardLast`: on a level no type occurs twice and the wildcard is last.
* `TrieIsVariants`: between calls, the tree is that of the accepted lists,
  with their functions at its leaves, whatever the order in which they came.
* `LookupIsGreedy`: what executing the trie comes to is a function of the
  accepted lists: on each level the exact type if any of them has it, the
  wildcard otherwise, and no way back. (A stack that fits a variant may miss
  it for this reason; no document promises otherwise.)
* `VariantAnswers`: a stack with just the types of a variant calls it.

### Runs

| Run | Result | Instance |
|---|---|---|
| `typetrie_core` | holds | every sequence of up to three variants out of eleven lists, two functions, twelve stacks, a rebuild anywhere |
| `typetrie_short` | violated | `[/integertype]` after `[/doubletype /integertype]` |

Bounds: three variants fill one level with two types and the wildcard, in all
orders, so that the wildcard comes first, second or third; lists of up to three types give levels above, at and below the change.
Stacks are shorter than, as long as and longer than the lists, and hold a type
that no list names.

## 6. The operators

`Heap.tla` is what composite tokens refer to. A machine `m` is a record of the
operand stack `st`, of `es`, the tokens with a payload that the execution
stack holds, and of the heap; a payload has a kind, an access state and a
body, and its reference count is the number of places that hold a token of it.
An operator of the language is a function from machines to an outcome: the
machine it leaves and the error it raises. What a `pop` or an overwritten slot
gives back is collected when the operator returns (`Released`), which is
`remove_reference` and the destructors: free is what only dead payloads hold
(`Dead`, the least set with that property, since a payload that holds itself
keeps its count). A reference that the code forgets to take back is counted
(`lost`).

| Module | Operators of |
|---|---|
| `StackOps` | `sli_stack.cpp`: `pop`, `exch`, `index`, `copy`, `roll`, `operandstack`, `counttomark`... |
| `ContainerOps` | `sli_container_ops.cpp`, `sli_op_bodies.h`, `sli_cow.h`: `get`, `put`, `append`, `join`, `getinterval`, `search`, `eq`..., their leaves, and `>>` |
| `ArrayOps` | `sli_array_module.cpp` beside the Map family: `Range`, `Sort`, `Transpose`, `Partition`, `arrayload`..., and `]` |
| `AccessOps` | `sli_access_ops.cpp`, and the conversions of `sli_typecheck.cpp` that keep the payload |
| `MathOps` over `Doubles` | `sli_math.cpp`: the compact operators and their leaves |
| `SavedState` | `savestate` and `restorestate` with the serializer: a file is a sequence of words, a payload is numbered when it is met first |

`Operators.tla` runs them: a program pushes literals, whose payloads stay
shared with the procedure that holds them, and calls operators in any order.
Numbers are words of `LongBits` bits and doubles of a small binary format with
rounding to nearest, infinities and NaN. The functions of the C library are a
constant operator `Libm` (the name and the arguments determine the value).
`Sort` leaves any sorted arrangement of the elements (`Sorted`): `std::sort`
promises no more about equal ones, a long and the same double for instance.

### Properties

* `LeaksAreKnown`: a payload that the program can no longer reach has been
  freed, unless it hangs on one whose count went wrong, or on a circle. Counts
  go wrong in `gt_ss` and `lt_ss`, which overwrite a string's token without
  giving the string back, and in a `restorestate` of a file cut short; circles
  are closed by `put` and by `restorestate` only, since `append` and `prepend`
  write in place only what nothing else refers to. Reachability is computed
  from the stacks down, collection from the counts up (`Orphans`), as the
  reference counts do: the property says that the two agree whatever operators
  have shared, nested and dropped.
* `FailureLeavesOperands`: an operator that raises an error has changed
  nothing. The two excuses are those of the code: a file that is not there or
  not whole has lost its name from the stack.
* `NarrowedIsFrozen`, `UnreadableIsBlind`: by whatever tag, path or shared
  token a payload is reached, one that may not be written keeps its contents,
  and operators do just the same for other contents of one that may not be
  read.
* `ExtensionIsPrivate`, `ResultsAreOwn`: `append` and `prepend` change what
  nobody else holds; what an operator makes is new, unlimited, and held once.
* `RoundTrips`: `Reverse` twice, `Rotate` and back, `Partition` and `Flatten`,
  `arrayload` and `arraystore`, a mark with elements and `]`, `cva` and `>>`,
  `getinterval` with `erase`, `replace` and `insert`, `search`, `roll` against
  a definition on sequences.
* `SavedStateIsWhole`: what is written reads back, in another interpreter, as
  the same stacks over payloads shared in the same way; a file that lacks a
  word is refused.
* `CompactIsLeaf`: a compact operator is the leaf that the trie would choose,
  errors included, on pairs of numbers, on booleans and on one double. Two
  differences of the code are in it by name: `max` and `min` of a NaN depend on
  the order of the comparison, and where the leaves of `sqrt`, `ln` and `log`
  raise `RangeCheck` the compact operators raise nothing (section 9). `mod` is
  its own leaf, and `and` on booleans has no registered one.
* `ComparisonsAreAnOrder`: one order behind six comparisons,
  `Sort`, `GetMax` and `GetMin`. `NumbersAgree`: quotient and remainder,
  bit operators and sums, `neg`, `abs`, `not`; `frexp`, `modf`, rounding.

### Runs

| Run | Result | Instance |
|---|---|---|
| `operators_core` | holds | some 75 operators, two in a row on eleven stacks; 28 operators that share, write or narrow, three in a row; two strings that only the stack holds and the operators that compare and drop them, four steps; saved states of an array that holds itself, four steps, files cut short anywhere; every arithmetic operator on every pair of ten longs (both limits and their neighbours) and fourteen doubles (largest, halves, quarters, infinities, NaN), and arrays of them |

Bounds: the first operator makes a stack that no list of stacks would have
(shared, narrowed, converted), the second one works on it; what takes longer
(share, narrow, write by the other token) is the shorter list of operators at
length three. `MaxObjects = 9` is never reached by a program that could go on
otherwise (`Leave` asks for `room`): the longest needs eight. `MaxStack` cuts
off programs that push. `RawReads` is what an operand of another type reads as
when the code takes its payload for an integer without looking (`npop`,
`index`, `copy`, `roll`): any integer, here two.

## 7. The reader

`Reader.tla` is `Scanner` and `Parser`. The characters of a stream are chosen
as they are read, from the classes of `sli_charcode.cpp`. One step takes one
character through the table `trans` (`Advance`, `Accept`, `Failed`, `Reject`,
`IOError`), or one symbol through the parser (`OpenProcedure`, `Bracket`,
`CloseProcedure`, `NoOpenProcedure`, `EndOfInput`, `SimpleToken`). `Read`
begins a call of `readToken` or `readSymbol` on a stream; `token_s`,
`symbol_s` and `AnswerString` are the operators that read a string on the
operand stack and leave the rest of it. `Grammar.tla` has the one property
whose definition is recursive, the nesting of procedures.

| Variable | Code |
|---|---|
| `streams` | each stream: what has come of it, how much is consumed, `eof`, `bad` |
| `in`, `line`, `col`, `ds` | the members of `Scanner` |
| `scan` | the local variables of `Scanner::operator()` |
| `stack`, `positions` | `stack_`, `open_brace_positions_` |
| `call` | the call that runs, and what it answered |
| `last`, `origin` | no variables of the code: the last symbol with the text it was made of, and where the count of lines began, for the properties |

### Properties

* `SymbolIsItsText`: an integer is what `strtoll` reads in its own characters,
  a double what `atof` does, a string its characters with the escapes undone.
  Numbers that follow something left in the digit string are excused, see
  section 9.
* `TokenIsItsSymbols`: a token of `readToken` is all symbols of the call,
  nested as their braces are; a call that fails leaves none behind.
* `PositionIsCounted`: line and column are those of the last character
  consumed, however often characters went back, and the positions kept are
  those of open braces.
* `CallReturns`: every call comes back, unless the stream breaks.

### Run

`reader_core` (holds): all texts of up to five characters of numbers, four of
strings, comments and literals, seven of nested braces; two streams in turn;
streams that break; strings. Each alphabet holds the characters that lead to
the states its name says, so that every row of the table is taken. Deadlock is
not checked: nobody reads on who has been told that a stream is at its end
(`AtEnd`), so the model stops there.

Fairness: weak fairness of `Work`. The thread that calls the reader runs the
call to its end; calls need not come.

Left out: the characters NUL and 4 (Ctrl-D), which read as the end of input,
and a token whose name is that of the end symbol, which compares equal to it.

## 8. Graphics

`Graphics.tla`. A page is a context with a count of its handles; tokens of the
program (`held`) and the slot `/currentpage` (`current`) hold it. Of Cairo the
model keeps what the module relies on: the graphics state and its stack, the
path and whether it has a point, and the status, which stays once it is an
error. A command is an operation on the current page or on a handle; its
operand is `good`, `other` (good and different), `bad` (the module has a check
for it) or `unusable` (Cairo refuses it and the module does not look): a
matrix that cannot be inverted or a shift, an angle or a size that is not
finite for the commands in `Moving`, a text or a font's family that is not
UTF-8 for those in `Saying`. `answer` is the error's name.

| Variable | Code |
|---|---|
| `pages` | the `GraphicsContext`s: backend, size, scale, `refs_`, open or closed, `cr_` |
| `current`, `currentfont` | the entries of `gfxstatus` |
| `held` | the tokens of the program |
| `answer` | the error of the last command |
| `theme` | no variable of the code: the commands the program keeps to |

### Properties

* `HandlesAreCounted`: a count is the number of holders, and the current page
  is open.
* `FilesAreFinished`: a page that is a file is finished when it goes, in
  whatever way.
* `StaysDrawable`: a page gets an error status only by more `grestore` than
  `gsave`, by drawing relative to no point, or by an `unusable` operand of
  `Moving` or `Saying`, and then the status that goes with it: whatever the
  module does check never gets as far as Cairo.
* `BaselineIsKept`: a matrix that the program has not moved, the present one or
  a saved one, is the page's first: the flip at the height the page has now,
  and its device scale. `by` tells where a matrix comes from, so that only one
  that `initmatrix` made may lack the device scale, and it must have the flip.
* `CurrentPageStays`: the slot is cleared only when that very page is closed.

### Run

`graphics_core` (holds) has four themes, each with the commands that work on
the same state: holding pages (two of them), transforming them, walking paths,
setting attributes. Bounds: two pages, since the slot and a handle can then
name different ones; two handles of each; one `gsave` open, since `resize`
drops all of them at once. The theme of transforming has a page of device scale
2, and each theme `unusable` operands of its commands. The proofs need none of
these bounds. Programs are assumed not to write `gfxstatus` themselves.

## 9. What the models found

Five disagreements between the code and what the repository says of it have a
run that shows them.

| Run | Code | Against |
|---|---|---|
| `dictstack_load` | `sli_dictstack.h:233` | the documentation of `load` |
| `dictstack_dangling` | `sli_interpreter.cpp:745` | the comment in `sli_dictstack.cpp:109` |
| `dispatcher_return` | `sli_control.cpp:203` | the documentation of `return` |
| `dispatcher_stop` | `sli_control.cpp:387`, `stop` leaves the dictionary stack alone | `doc/control_flow_spec.md:825`, I16; also lines 593-661, 688, 838 and 841 (D2), the last of which marks it as done |
| `typetrie_short` | `sli_type_trie.cpp:298` | the documentation of `addtotrie`, the comment of `func_` |

Others were met while the code was read for the models, which follow the code
in all of them. They have no run of their own.

* Control: `exit` outside a loop raises `EStackUnderflow`
  (`sli_control.cpp:147`), where `doc/control_flow_spec.md` says `invalidexit`
  (D3, lines 552-561, and line 837, which marks it as done). The normal end of
  `stopped` does not restore the dictionary stack either (I16, D2).
  `InvalidIterMarker`, which I17 asks for when an iteration marker stands in a
  body, is raised nowhere; a program cannot write such a body. `switch` and `switchdefault` always fail, for nothing binds `::pop`
  (`doc/tutorial/examples_raw/_status.tsv:258`), though `mathematica.sli:1865`
  calls the second. `commandname` of a second error is not that of the
  operator (`sli_interpreter.cpp:606`, `doc/control_flow_spec.md`, I10).
  `stop` without a `stopped` empties the execution stack, and the dispatcher
  then reads the top of the empty stack (`sli_interpreter.cpp:1238`, a call
  that `sli_tokenstack.h:27` rules out). `print_error` leaves
  `newerror` set. `restoreestack` makes any array the execution stack.
* Stack and containers: `roll` by less than `-n` moves by another number
  (`sli_tokenstack.h:125`); `index` reads one slot below the bottom when the
  stack is a token short (`sli_stack.cpp:129`); `>>` keeps the first of two
  pairs with one key (`sli_builtins.cpp:104`); `length`, `First`, `Rest` and
  the string comparisons read payloads that are `noaccess`
  (`sli_access.h:42`); `Sort` returns an empty array itself; `eq` compares
  arrays by identity.
* Arithmetic: `gt_ss` and `lt_ss` leak a reference (`sli_math.cpp:1546`);
  `sqrt`, `ln` and `log` of a number that has none give what the C library
  makes of it (`sli_math.cpp:452`, `783`), where their leaves and the
  documentation of `sqrt` (`sli_math.cpp:836`) have `RangeCheck`; `max` and
  `min` of a NaN depend on which of the two forms is called; `ldexp` and `dexp` cut a long down to an int; `mod` does not
  look at the types of its operands; `AndFunction` is registered nowhere.
* Saved states: `savestate` does not look whether the file was written;
  `savestate` and `restorestate` pop the file's name before they raise
  `BadIO`; a file cut short leaks the payloads being read.
* Reader: the digit string is cleared only after a number, so that a name
  such as `-foo` or a failed literal such as `1.e` changes the next number; a
  sign before a name that begins with `e` is dropped; a literal out of range
  is skipped inside a procedure, where `tests/test_scanner_edge_cases.cpp:6`
  expects a `SyntaxError`; a stream that is bad and not at its end keeps the
  parser in its loop; lines are counted anew when the scanner comes back to a
  stream.
* Graphics: `grestore` without `gsave`, relative drawing without a point, a
  matrix that cannot be inverted, `translate` and `rotate` by what is not
  finite, `drawimage` to an infinite size or to NaN (it asks for `<= 0.0` only,
  `sli_graphics_module.cpp:514`), and a string that is not UTF-8 given to
  `show`, `charpath`, `stringwidth`, `textextents` or as a family to `setfont`
  put the page into Cairo's error state for ever and raise no error.
  `initmatrix` drops the device scale of a hi-DPI page, where its comment
  (`sli_graphics_module.cpp:1788`) says that it resets to the baseline of
  `finish_cairo_setup_`, and that of the page (`sli_graphics.h:83`, `219`) that
  coordinates stay logical regardless; `resize` drops
  the saved states, so that the next `grestore` breaks the page; `currentfont`
  is the font set last on any page.

## 10. Proofs

`DictStackProofs.tla` proves, for every set of names, values and dictionaries,
every depth and every choice of the arrays:

* `TypesAndBase`: `TypeOK`, `BaseIsBottom`, `RefsCoverStack`;
* `SnapshotIsFresh`, `CachesCoherent`, `CachedLookupIsTopmost`,
  `LockedKeepBindings`;
* `DictStackImplementsNamespaces`: the refinement.

Assumptions: those of `DictStack.tla` (`NamesAssumption`, `DictsAssumption`,
`ValuesAssumption`): the three permanent dictionaries are different, the names
the C++ code fetches are not keys of `errordict`, the null pointers are no
dictionaries.

The argument has two layers. `StackOK` (types, the base is the bottom, no
count is too low) is inductive by itself: only `push`, `pop` and the two
operators that rebuild the stack disturb it. `CachesOK` adds the coherence of
both caches. `LookupIsTopmost` alone is not inductive: `put` and `cleardict`
clear a slot only if the counter is positive, so that a slot survives needs
`RefsCoverStack`; and `baselookup` fills `cache_` with a binding that need not
be the topmost, so that what a slot may be has to be said for all names, with
the two excuses, before the plain names fall out (`PlainNames`). A push clears
the keys of what is pushed, so no surviving slot is hidden by it
(`PushCoherent`); a pop clears the keys of what is popped, so no surviving slot
points at it, unless it is on the stack a second time (`PopCoherent`). The
refinement maps the stack, the maps and the answer to themselves and drops the
caches; a lookup is an `Ask` by `LookupIsTopmost`, and every writer writes at
most one dictionary, and no narrowed one except `errordict` (`StepWrites`).

`TypeTrieProofs.tla` proves, for all types, functions, parameter lists of any
length, stacks and numbers of variants:

* `WildcardStaysLast`: `TypeOK` and `WildcardLast`;
* `TrieIsItsVariants`: `TrieIsVariants`;
* `LookupTakesTheGreedyPath`: `LookupIsGreedy`.

Assumptions: `TypesAssumption` (the wildcard and the type of an unset node are
no types of operands, the null token is no function) and `ListsAssumption`
(lists and stacks are sequences of types). `Shape` adds to the order of the
levels that every node with a type has a `next_`, without which a walk could
leave the tree. `TrieIsVariants` says nothing during an insertion, so it is not
inductive: `Content` says instead that the tree is that of the accepted lists
and of the path the insertion has come to (`Known`). One round makes the path
longer by one type, which adds that type to one level (`ContentInsertLevel`);
a refusal happens only at a list already accepted, so that the path adds
nothing to `Known` (`ContentInsertRefused`); at its end the path is the new
list. That functions sit at accepted lists only (`BoundOK`) is what makes the
second point true. `Walk` then follows `lookup`, level by level, along what the
variants say of each level.

`GraphicsProofs.tla` proves, for any places for pages, any themes and any
bounds:

* `ContextsAreCounted`: `TypeOK` and `HandlesAreCounted`;
* `PagesFinishTheirFiles`, `PagesStayDrawable`, `PagesKeepTheirBaseline`;
* `CurrentPageIsKept`: `CurrentPageStays`, an action property, from the same
  invariant: the slot moves in `Open`, `setpage` and `closepage` only.

Assumptions: `GraphicsAssumption` (no context is no place; the bounds are
numbers) and `ThemesAssumption` (a theme has commands that are commands and
room for some of the places). The invariant `IInv` says the theme is one of
the themes and `Ok(pages, current, held)`, which is everything the
theorems say, about every page at once: counts need that the current page is
open, since a page that is closed gives up the slot; drawability needs the
types of the saved states, which a `grestore` makes the present one; baselines
of saved states need the page's present height, which only `resize` changes,
and it drops them. `Ok` is a formula over its parameters, so that a command
is shown to keep it once for the function it applies to the page (drawing
contexts, then pages, then commands), and a command that raises an error keeps
it because it changes nothing of it.

`ReaderProofs.tla` proves, for any streams and strings, any characters of the
classes, texts of any length, and streams that end or break anywhere:

* `ReaderTypes`: `TypeOK`;
* `PositionsAreCounted`: `PositionIsCounted`.

Assumptions: `ReaderAssumption` (what an input consists of) and
`CharsAssumption` (streams hold characters that have a class, and `EOF` is none
of them). Neither property is inductive. That every call leaves nothing open
needs that only `readToken` opens procedures (`SoundNesting`). The position is
claimed for streams that are not at their end; but a string that was read to
its end is read again, so the invariant (`Placed`) says it for every stream
that has something left, too. An open brace is recorded one step after its
character was consumed, when the parser sees the symbol, so in between
(`Beginning`) the position must be that brace's, and all recorded ones earlier
(`AtBrace`); that two places of a text never have the same line and column
(`PositionsDiffer`) then makes the recorded positions different. What goes back
is never the end of a line, which is why line and column need not: the lemma
for a character that is taken (`CountGoesOn`) compares the counts of two texts,
since a stream grows while it is read. `TableLeadsToStates` goes through the
rows of the automaton once: every entry is a state, and only an open brace
leads to the symbol of one.

`DispatcherProofs.tla` proves, for any procedures and any nesting of them, any
input, any depth of the stacks, any width of integers and any signals:

* `DispatcherIsSound`: the inductive invariant `Sound`;
* `DispatcherTypes`: `TypeOK`; `FramesStayIntact`: `FramesIntact`;
  `OpIsStaleOnlyUnwinding`: `StaleOpIsUnwinding`.

Assumptions: `ProgramsAssumption` (every program has a body for each of its
procedures; the bounds are numbers) and `LiteralsAssumption` (what a program
is written with are tokens the scanner makes, down to the elements of an array:
no iteration marker, no stream; operators, tries and procedures that exist; and
not the name `::parse`, which `evalstring` pushes above its stream and a
program has no use for).

`FramesIntact` is not inductive, because it says of a frame only what kind of
token is in each of its slots. `Sound` has three parts. `Settled` is the
program with its input and signals. `Kept` is the stacks: `Whole`, a formula
over the program and any stack, says that each frame is laid out as its marker
demands and that its contents fit each other (`FrameOk`: the counter of a `Map`
has an element to write to, the rows of a `MapThread` are of one length); that
only `stop` stands above a mark that begins no frame or above a procedure that
is done (`Marks`, `Waiting`); that a parser stands on its stream (`Parsers`);
and that what is in no frame is a value. Of the operand stack `Kept` says that
it holds values. `Placed` is what each place of `execute_dispatch_` finds on
top: a marker at `walk` and `exhausted`, a scheduled `stop` while `current_op`
is set. A value (`Value`) has values as elements, all the way down, because a
loop hands out the elements of an array one by one and `exec` may run each of
them. As the depth is not bounded, it is not defined by recursion: a value
belongs to some set of tokens that holds the elements of its elements
(`Closed`), and `ElementsAreValues` follows at once.

The proof goes from the shape of stacks to the actions. `FramesAreApart`: two
whole frames do not overlap, since only the bottom slot of a frame can be a
mark and no slot is a marker. A prefix that no frame reaches over (`Clean`) is
whole again, with a token on top, or with a new frame on top. `exit`, `return`,
`stop` and `closeinput` then each cut at a clean place: `exit` below the
nearest mark, which begins a frame or is in none, `stop` and `closeinput` below
a token that is in no frame, `return` where `StepOver` leads it. `StepOver` is
a recursive function; that there is one (`StepOverDefined`), because each of
its steps goes down by the size of a frame, is proved with the least depth
from which there is one (`LeastExists`, in `Numbers.tla`). A
lemma for each operator says that from a whole stack it leaves a whole one, on
its normal and its failing paths; one for each action combines the operator
with its place; `ArmIsSound` goes through all actions.

`HeapProofs.tla` and `OperatorsProofs.tla` prove of the operators, for any
programs over any heap, any width of integers, any format of doubles, any
C library and stacks of any depth:

* `OperatorsInvariant`: the inductive invariant `TypeOK /\ Held`; `Held` says
  that between two operators all is collected, on which the proof of
  `ExtensionIsPrivate` rests; `OperandsAreTyped`: `TypeOK`;
* `NarrowedStaysFrozen`: `NarrowedIsFrozen`; `FailureKeepsOperands`:
  `FailureLeavesOperands`; `ExtensionStaysPrivate`: `ExtensionIsPrivate`;
  `ResultsStayOwn`: `ResultsAreOwn`, four action properties;
* `CompactOperatorsAreLeaves`: `CompactIsLeaf`, with the two differences it
  states (NaN in `max` and `min`; the range check of `sqrt`, `ln` and `log`).

Assumptions: `ProgramsAssumption` (programs begin with well-typed stacks over a
heap in which every payload is held), `BoundsAssumption` (the bounds are
numbers), `TypeNamesAssumption` (`type` answers with names),
`OrderAssumption` (a dictionary lists its keys in some fixed order),
and what a platform has: `MaxObjectsAssumption`, `CharSizeAssumption`,
`ModulusAssumption`, `DoublesAssumption`, `MaxFiniteAssumption` and
`LibmAssumption` (a heap has a finite number of places; a `char`, a `size_t` and
a `long` have a number of values; the format of doubles has a largest finite one
and holds the limits of a long; a function of the C library yields a double).

`TypeOK` says of a token that its payload is there and is of the kind of its
tag, wherever the token is: on a stack, in an array, in a dictionary, in the
words of a file. No operator keeps that by itself, because one that drops the
last token of a payload leaves the payload to `Released`; and `Released` keeps
it only if what it frees is referred to by nobody that lives. So the proof goes
through machines, not through variables. `Sound` is `TypeOK` of a machine, `Ok`
relates two of them (both sound, and no payload has changed its kind or loosened
its access state, `Kept`), and `Good` is what an outcome has to be: such a
machine, and the one from before if it is an error. `HeapProofs` shows `Good`
of every operator on containers, in terms of the few ways to change a machine
(`Pushed`, `Popped`, `PushedNew`, `Written`, `Replaced`...); `OperatorsProofs`
of the rest, and that a step whose outcome is `Good` (`Stepped`) keeps the
invariant. `NarrowedIsFrozen` and `FailureLeavesOperands` are then already part
of `Good`.

Collection: `Dead` is computed in rounds, as many as there are payloads that no
stack refers to. `DeadIsLeast` shows that so many are enough, since each
round that changes anything adds a payload, and that the outcome is the least
set that holds all its orphans. Hence nothing that lives refers to a dead
payload (`DeadAreUnused`), types survive (`ReleasedIsSound`), what is left is
held by somebody (`ReleasedIsCollected`), and nothing happens at all to a
machine in which everything is held (`CollectedIsReleased`).

Copy on write: a container that is extended in place has a reference count of
at most one, and counting (`CountParts`) shows that this one is the token that is
being extended, so no other place can see the change; otherwise a place that
was free is written. `ExtensionIsPrivate` speaks of the heap after the
collection, so the proof also needs that an extension frees nothing that was
held (`Lasting`).

New results: `Owns` says that the token on top is the only one of a payload
that was free before. `Makes` is `Good` with `Owns`, proved of each operator
in `Makers`; for those that make rows and then an array of the rows
(`Transpose`, `Partition`) it is the array's place that has to be none of the
rows'. `OwnedLasts` carries it over the collection.

Saved states have an invariant of their own: each word that is written is a
word of a file, a number in it is that of a payload met earlier, and the writer
leaves the machine alone; the reader, whatever the words are, is at any time
sound over the payloads it has begun, or has given up.

A compact operator is compared with the leaf by cases of the types of the
operands. Several definitions of the models were `CASE` expressions with arms
that overlap, of which TLA+ leaves open which one is meant, while TLC takes the
first; the comparison could not be proved for them, and they are now the
conditionals that the C++ code has (`Arithmetic`, `Times`, `PathStep`,
`Eval` and three commands of `Graphics`).

`Numbers.tla` has the facts on greatest and least members of sets of integers
that the proofs of the reader, the dispatcher and the operators cite.

### What is model-checked only

* `SymbolIsItsText`, `RoundTrips`, `SavedStateIsWhole`: equations between what
  two folds or recursive functions compute (digits, flattened rows, searches,
  words and payloads). They need induction over data, which the library states
  with an operator as a parameter, out of the reach of the provers that are
  installed. Parts of `RoundTrips` need none (`operandstack` and
  `restoreostack`, the intervals of a string); they are not proved apart from
  the rest.
* `ComparisonsAreAnOrder`, `NumbersAgree`: the order of strings and the bit
  operators are folds; quotients of longs and doubles rounded to a format are
  products of variables, which the SMT solver gives up on.
* `LeaksAreKnown`: what can be reached from the stacks is a recursive function
  over the heap, and the property compares it with another one; again
  induction over data.
* `EndsAsMeant`, `TokenIsItsSymbols`: the same, over `RECURSIVE` definitions
  (`Reference`, `Grammar`).
* `UnreadableIsBlind`: a comparison of two runs of each of 22 operators on
  machines that differ in one payload. The lemmas of `HeapProofs` are about one
  run; nothing of the scheme above carries over, and the property stays with
  TLC, which compares the runs in every state of `operators_core`.
* `SignalTaken`, `CallReturns`: liveness under fairness, which needs `ENABLED`.

## 11. What is not modelled

* Arrays that change while a loop of the dispatcher walks them; recorded
  stacks; the body of `forall_di`, to which `forall` hands a dictionary, and
  so `forall` over dictionaries that are not empty; `execstack` and `restoreestack`: they need `Dispatcher` over `Heap`.
* The pool allocator, a free list, and the table of names, which only grows.
* Streams and files (`sli_io_ops.cpp`, `sli_iostream.cpp`), regular
  expressions, readline with the vendored `linenoise.c`, tracing: calls of the
  operating system and of libraries, with no state of the interpreter's own.
* `src/unported`: code that the build does not compile.
* Negative zero, random numbers, matrices given as text, and what the C
  library and Cairo compute.
* `basedef`: no caller. Read-once auditing of single entries, wording of
  messages, verbosity, profiling counters: no effect on what is modelled.
