------------------------------- MODULE Dispatcher ------------------------------
(***************************************************************************)
(* The dispatcher execute_dispatch_ (src/src/interpreter) with the control *)
(* operators of src/src/builtins/sli_control.cpp: how procedure bodies and *)
(* loops are walked on one flat execution stack, how exit, return, stop    *)
(* and closeinput unwind it, how an error becomes a stop, and when a       *)
(* signal is noticed.                                                      *)
(*                                                                         *)
(* pc is the place in execute_dispatch_: the head of the loop with its     *)
(* switch ("dispatch"), the labels body_walk, body_exhausted and           *)
(* resume_iter ("walk", "exhausted", "resume"), or the end.  The locals    *)
(* proc and pos_p always are pick(2) and pick(1) when they are used, for   *)
(* resume_iter loads them again.                                           *)
(***************************************************************************)
EXTENDS Tokens

CONSTANTS
    Programs,       \* what may be run
    Procedures,     \* the procedures a program has
    Literals,       \* the tokens it is written with, and their elements
    ConstNames,     \* names bound to data: a function to tokens
    Tries,          \* names bound to type tries: a function to leaves
    IntBits,        \* the width of an integer
    MaxOperands,    \* bounds on the operand stack
    MaxExec         \* and on the execution stack

VARIABLES
    pc,
    estack, ostack,     \* execution_stack_, operand_stack_
    program,            \* its procedures, as they are written; show_backtrace_
    bound,              \* the procedures that bind has rewritten
    input,              \* what the stream under ::parse still holds
    signalflag,         \* a signal has arrived
    signals,            \* how many have, all told
    current_op,         \* current_op_
    error,              \* errordict: newerror, errorname, commandname
    dlevel              \* the number of dictionaries on the stack

vars == <<pc, estack, ostack, program, bound, input, signalflag, signals, current_op,
          error, dlevel>>
setting == <<program, signals>>

NoOp == "none"
Interpreter == "interpreter"        \* interpreter_name
Unbound == <<"unbound", 0>>
BadSyntax == <<"badsyntax", 0>>     \* input that the scanner rejects
Stopped == "::stopped"              \* istopped_name
Parse == "::parse"                  \* iparse_name
Forall_di == "forall_di"            \* the library's procedure for dictionaries

IsStopped(t) == t = NameTok(Stopped)
IsMark(t) == Tag(t) = "mark"
IsStream(t) == Tag(t) = "xistream"

-----------------------------------------------------------------------------
(* The operators, and what require_stack_load and require_stack_type ask   *)
(* of the operand stack, top first                                         *)

IsProc == {"procedure"}
IsInt == {"integer"}

Requires ==
    [ pop |-> <<Tags>>, exec |-> <<Tags>>, stopped |-> <<Tags>>,
      if |-> <<Tags, {"bool"}>>, ifelse |-> <<Tags, Tags, {"bool"}>>,
      case |-> <<Tags, Tags>>, switch |-> <<Tags>>, switchdefault |-> <<>>,
      loop |-> <<IsProc>>, repeat |-> <<IsProc, IsInt>>,
      for |-> <<IsProc, IsInt, IsInt, IsInt>>,
      forall |-> <<Tags, Tags>>, forallindexed |-> <<Tags, Tags>>,
      Map |-> <<IsProc, {"array"}>>, MapIndexed |-> <<IsProc, {"array"}>>,
      MapThread |-> <<IsProc, {"array"}>>,
      exit |-> <<>>, return |-> <<>>, stop |-> <<>>, closeinput |-> <<>>,
      raiseerror |-> <<{"literal"}, {"literal"}>>, raiseagain |-> <<>>,
      handleerror |-> <<>>, print_error |-> <<Tags>>, bind_ |-> <<Tags>>,
      begin |-> <<{"dictionary"}>>, end |-> <<>>, add_ii |-> <<Tags, Tags>> ]

Operators == DOMAIN Requires

\* A program is written with tokens that the scanner makes, names procedures
\* that it has, and leaves the name ::parse to evalstring.
ASSUME LiteralsAssumption ==
    /\ \A t \in Literals \cup Range(ConstNames) : Tag(t) \in {"array", "string"} => Data(t) \in Seq(Literals)
    /\ \A t \in Literals :
          /\ Tag(t) \in Tags \ (IterMarkers \cup {"xistream", "iparse"})
          /\ Tag(t) \in {"procedure", "litprocedure"} => Data(t) \in Procedures
          /\ Tag(t) = "function" => Data(t) \in Operators
          /\ Tag(t) = "trie" => Data(t) \in DOMAIN Tries
          /\ Tag(t) = "name" => Data(t) # Parse
    /\ \A n \in DOMAIN ConstNames : Tag(ConstNames[n]) \in DataTags
    /\ \A f \in DOMAIN Tries : Tries[f].leaf \in Operators

ASSUME ProgramsAssumption ==
    /\ IntBits \in Nat \ {0}
    /\ MaxOperands \in Nat /\ MaxExec \in Nat
    /\ Forall_di \in Procedures
    /\ \A g \in Programs :
          /\ DOMAIN g.body = Procedures
          /\ \A p \in Procedures : g.body[p] \in Seq(Range(g.body[p]))
          /\ g.input \in Seq(Range(g.input))
          /\ g.signals \in Nat       \* bound on the signals that arrive
          /\ g.backtrace \in BOOLEAN /\ g.boot \in {"evalstring", "start"}
    /\ UNION {Range(g.input) : g \in Programs} \subseteq Literals \cup {BadSyntax}
    /\ UNION {Range(g.body[p]) : g \in Programs, p \in Procedures} \subseteq Literals

Loaded(f) == Len(ostack) >= Len(Requires[f])
Typed(f) == \A i \in DOMAIN Requires[f] : Tag(Pick(ostack, i - 1)) \in Requires[f][i]

\* What a name is bound to.
Resolve(n) ==
    IF n \in DOMAIN Tries THEN Trie(n)
    ELSE IF n \in Operators THEN Fn(n)
    ELSE IF n \in DOMAIN program.body THEN Proc(n)
    ELSE IF n \in DOMAIN ConstNames THEN ConstNames[n]
    ELSE CASE n = Stopped -> Bool(FALSE)
           [] n = Parse -> Marker("iparse")
           [] n = "quit" -> Marker("quit")
           [] OTHER -> Unbound

\* What a procedure holds.  bind puts operators in the place of the names that
\* mean them, in the body that all holders of the procedure share.
Operator(t) ==
    IF Tag(t) = "name" /\ Tag(Resolve(Data(t))) \in {"function", "trie"}
    THEN Resolve(Data(t)) ELSE t
Body(p) ==
    IF p \in bound THEN [i \in DOMAIN program.body[p] |-> Operator(program.body[p][i])]
    ELSE program.body[p]

\* A long of IntBits bits: what an unchecked addition wraps to.
Wrap(n) == LET h == 2 ^ (IntBits - 1) IN ((n + h) % (2 * h)) - h
Overflows(n) == Wrap(n) # n

-----------------------------------------------------------------------------
(* Errors *)

\* get_current_name
CurrentName(E) ==
    IF current_op # NoOp THEN current_op
    ELSE IF E # <<>> /\ Tag(Last(E)) \in {"function", "trie"} THEN Data(Last(E))
    ELSE Interpreter

\* raiseerror(cmd, err), the execution stack being E and the operand stack
\* O: record the error and schedule stop.  While newerror is still set the
\* error is taken for a failure of the handler.
Raise(E, O, cmd, err) ==
    /\ estack' = Append(E, Fn("stop"))
    /\ \/ /\ ~ error.newerror
          /\ ostack' = Append(O, Lit(cmd))
          /\ error' = [newerror |-> TRUE, errorname |-> err, commandname |-> cmd]
       \/ /\ error.newerror
          /\ ostack' = Append(O, Lit("BadErrorHandler"))
          /\ error' = [error EXCEPT !.newerror = FALSE]

\* An exception reaches the catch clause of the loop, which raises the error.
Throw(E, cmd, err) ==
    /\ Raise(E, ostack, cmd, err)
    /\ pc' = "dispatch"
    /\ UNCHANGED <<dlevel, bound>>

\* One that comes out of execute() leaves current_op_ as it is.
ThrowFrom(f, E, err) == Throw(E, f, err) /\ current_op' = f

\* An exception of the dispatcher itself, with current_op_ not set.
Complain(E, err) == Throw(E, CurrentName(E), err) /\ UNCHANGED current_op

Stacks(E, O) == estack' = E /\ ostack' = O /\ UNCHANGED <<error, dlevel, bound>>
RaiseIn(E, f, err) == Raise(E, ostack, f, err) /\ UNCHANGED <<dlevel, bound>>

-----------------------------------------------------------------------------
(* Operators that push: E is the execution stack without the operator *)

Exec(E) == Stacks(Append(E, Last(ostack)), Drop(ostack, 1))

If(E) ==
    Stacks(IF Data(Pick(ostack, 1)) THEN Append(E, Last(ostack)) ELSE E,
           Drop(ostack, 2))

Ifelse(E) ==
    Stacks(Append(E, IF Data(Pick(ostack, 2)) THEN Pick(ostack, 1) ELSE Pick(ostack, 0)),
           Drop(ostack, 3))

\* case keeps its operand when the flag below it says so.
Case(E) ==
    LET flag == Pick(ostack, 1) IN
    IF Tag(flag) # "bool" THEN RaiseIn(E, "case", "ArgumentType")
    ELSE Stacks(E, IF Data(flag) THEN Append(Drop(ostack, 2), Last(ostack)) ELSE Drop(ostack, 2))

StoppedOp(E) == Stacks(E \o <<NameTok(Stopped), Last(ostack)>>, Drop(ostack, 1))

\* The position of a new frame is at the end of the body, so that the
\* exhaust arm starts the first round.  loop alone starts at 0.
AtEnd(p) == IntTok(Len(Body(Data(p))))

Loop(E) ==
    Stacks(E \o <<MarkTok, Last(ostack), IntTok(0), Marker("iloop")>>, Drop(ostack, 1))

Repeat(E) ==
    LET p == Last(ostack) IN
    Stacks(E \o <<MarkTok, Pick(ostack, 1), p, AtEnd(p), Marker("irepeat")>>,
           Drop(ostack, 2))

For(E) ==
    LET p == Last(ostack) IN
    Stacks(E \o <<MarkTok, Pick(ostack, 2), Pick(ostack, 1), Pick(ostack, 3),
                  p, AtEnd(p), Marker("ifor")>>,
           Drop(ostack, 4))

\* forall takes a procedure for an array, too.
AsArray(t) ==
    IF Tag(t) \in {"procedure", "litprocedure"} THEN Array(Body(Data(t))) ELSE t

\* The frame: the collection, the index of the next element, the procedure.
Forall_x(E, marker) ==
    LET p == Last(ostack) IN
    Stacks(E \o <<MarkTok, AsArray(Pick(ostack, 1)), IntTok(0), p, AtEnd(p), Marker(marker)>>,
           Drop(ostack, 2))
Forall_a(E) == Forall_x(E, "iforall")
Forall_s(E) == Forall_x(E, "iforallstring")

\* For a dictionary the operator leaves its operands to forall_di.
Forall(E) ==
    LET c == Tag(AsArray(Pick(ostack, 1))) IN
    CASE Tag(Last(ostack)) = "procedure" /\ c = "array" -> Forall_a(E)
      [] Tag(Last(ostack)) = "procedure" /\ c = "string" -> Forall_s(E)
      [] Tag(Last(ostack)) = "procedure" /\ c = "dictionary" ->
            Stacks(Append(E, Proc(Forall_di)), ostack)
      [] OTHER -> RaiseIn(E, "forall", "ArgumentType")

Forallindexed_x(E, marker) ==
    LET p == Last(ostack)
        c == Pick(ostack, 1)
    IN  Stacks(E \o <<MarkTok, c, IntTok(Len(Data(c))), IntTok(0), p, AtEnd(p), Marker(marker)>>,
               Drop(ostack, 2))
Forallindexed_a(E) == Forallindexed_x(E, "iforallindexedarray")
Forallindexed_s(E) == Forallindexed_x(E, "iforallindexedstring")

Forallindexed(E) ==
    LET c == Tag(Pick(ostack, 1)) IN
    CASE Tag(Last(ostack)) = "procedure" /\ c = "array" -> Forallindexed_a(E)
      [] Tag(Last(ostack)) = "procedure" /\ c = "string" -> Forallindexed_s(E)
      [] OTHER -> RaiseIn(E, "forallindexed", "ArgumentType")

\* Map and MapIndexed: the array stays on the operand stack, under what the
\* body works on; the frame holds a copy and the load to come back to.
MapOp(E, marker) ==
    LET p == Last(ostack)
        c == Pick(ostack, 1)
    IN  IF Body(Data(p)) = <<>> \/ Data(c) = <<>>
        THEN Stacks(E, Drop(ostack, 1))
        ELSE Stacks(E \o <<MarkTok, IntTok(Len(ostack) - 1), c, IntTok(0), p,
                           AtEnd(p), Marker(marker)>>,
                    Drop(ostack, 1))

\* The first row that is no array, or not as long as the first one.
OddRows(c) ==
    {i \in DOMAIN c : Tag(c[i]) # "array" \/ Len(Data(c[i])) # Len(Data(c[1]))}

MapThread(E) ==
    LET p == Last(ostack)
        c == Data(Pick(ostack, 1))
        Bad(t) == IF Tag(t) = "array" THEN "RangeCheck" ELSE "ArgumentType"
    IN  IF c = <<>> THEN Stacks(E, Drop(ostack, 1))
        ELSE IF Tag(c[1]) # "array" THEN RaiseIn(E, "MapThread", "ArgumentType")
        ELSE IF OddRows(c) # {} THEN RaiseIn(E, "MapThread", Bad(c[Min(OddRows(c))]))
        ELSE IF Body(Data(p)) = <<>> \/ Data(c[1]) = <<>> THEN Stacks(E, Drop(ostack, 1))
        ELSE Stacks(E \o <<MarkTok, IntTok(Len(ostack) - 1), Array(c), c[1], IntTok(0),
                           p, AtEnd(p), Marker("imapthread")>>,
                    Drop(ostack, 1))

-----------------------------------------------------------------------------
(* Operators that unwind the execution stack *)

\* exit drops everything through the topmost mark: the innermost loop.  The
\* error without one is EStackUnderflow, not the invalidexit of the design.
Exit(E) ==
    LET m == SelectLastInSeq(E, IsMark) IN
    IF m = 0 THEN RaiseIn(E, "exit", "EStackUnderflow")
             ELSE Stacks(SubSeq(E, 1, m - 1), ostack)

\* return steps over whole loop frames.  The sizes are the operator's own.
ReturnSize ==
    [ irepeat |-> 5, ifor |-> 7, iforall |-> 6, iloop |-> 4, iforallstring |-> 6,
      iforallindexedarray |-> 7, iforallindexedstring |-> 7,
      imap |-> 7, imapindexed |-> 7, imapthread |-> 8 ]

\* How deep return gets from depth n.
StepOver(E) ==
    LET over[n \in Nat] ==
            IF n < Len(E) /\ Tag(Pick(E, n)) \in LoopMarkers
            THEN over[n + ReturnSize[Tag(Pick(E, n))]]
            ELSE n
    IN  over[0]

Return(E) ==
    LET n == StepOver(E) IN
    IF n >= Len(E) THEN RaiseIn(E, "return", "InvalidReturn")
    ELSE IF Tag(Pick(E, n)) = "iiterate" THEN Stacks(Drop(E, n + 3), ostack)
    ELSE IF n = 0 THEN RaiseIn(E, "return", "InvalidReturn")
    ELSE Stacks(Drop(E, n), ostack)

\* stop drops everything through the topmost ::stopped, marks or not.  The
\* dictionaries opened since stay open.
Stop(E) ==
    LET m == SelectLastInSeq(E, IsStopped) IN
    IF m = 0 THEN Stacks(<<>>, ostack)
             ELSE Stacks(SubSeq(E, 1, m - 1), Append(ostack, Bool(TRUE)))

Closeinput(E) ==
    LET m == SelectLastInSeq(E, IsStream) IN
    IF m = 0 THEN Stacks(<<NameTok("start")>>, ostack)
             ELSE Stacks(SubSeq(E, 1, m - 1), ostack)

-----------------------------------------------------------------------------
(* bind *)

\* A procedure and all that are nested in it.
NestedIn(p) ==
    LET inside(q) == {Data(t) : t \in {u \in Range(Body(q)) : Tag(u) \in {"procedure", "litprocedure"}}}
        within[n \in Nat] ==
            IF n = 0 THEN {p} ELSE within[n - 1] \cup UNION {inside(q) : q \in within[n - 1]}
    IN  within[Cardinality(DOMAIN program.body)]

Bind(E) ==
    IF Tag(Last(ostack)) \notin {"procedure", "litprocedure"}
    THEN RaiseIn(E, "bind_", "ArgumentType")
    ELSE /\ bound' = bound \cup NestedIn(Data(Last(ostack)))
         /\ estack' = E
         /\ UNCHANGED <<ostack, error, dlevel>>

-----------------------------------------------------------------------------
(* Errors, dictionaries and arithmetic, as operators *)

Raiseerror(E) ==
    /\ Raise(E, Drop(ostack, 2), Data(Pick(ostack, 1)), Data(Pick(ostack, 0)))
    /\ UNCHANGED <<dlevel, bound>>

\* raiseagain schedules stop for the command recorded last.
Raiseagain(E) ==
    IF error.commandname # NoOp
    THEN /\ estack' = Append(E, Fn("stop"))
         /\ ostack' = Append(ostack, Lit(error.commandname))
         /\ error' = [error EXCEPT !.newerror = TRUE]
         /\ UNCHANGED <<dlevel, bound>>
    ELSE RaiseIn(E, "raiseagain", "BadErrorHandler")

\* print_error takes the command name away; the error is still recorded.
Print_error(E) == Stacks(E, Drop(ostack, 1))

\* The SLI procedure, in one step: print_error and reset newerror when an
\* error is recorded; otherwise it is an extra stop, and nothing is.
Handleerror(E) ==
    IF error.newerror /\ ostack = <<>> THEN RaiseIn(E, "print_error", "StackUnderflow")
    ELSE /\ estack' = E
         /\ ostack' = IF error.newerror THEN Drop(ostack, 1) ELSE ostack
         /\ error' = [error EXCEPT !.newerror = FALSE]
         /\ UNCHANGED <<dlevel, bound>>

Begin(E) ==
    /\ estack' = E /\ ostack' = Drop(ostack, 1)
    /\ dlevel' = dlevel + 1
    /\ UNCHANGED <<error, bound>>

\* The three permanent dictionaries stay.
NothingPermanent == FALSE
OnlyPermanent == dlevel <= 3

End(E) ==
    IF OnlyPermanent THEN RaiseIn(E, "end", "KernelError")
    ELSE /\ estack' = E /\ dlevel' = dlevel - 1
         /\ UNCHANGED <<ostack, error, bound>>

Add(E) ==
    LET sum == Data(Pick(ostack, 1)) + Data(Pick(ostack, 0)) IN
    IF Overflows(sum) THEN RaiseIn(E, "add_ii", "RangeCheck")
                      ELSE Stacks(E, Append(Drop(ostack, 2), IntTok(sum)))

Effect(f, E) ==
    \/ f = "pop" /\ Stacks(E, Drop(ostack, 1))
    \/ f = "exec" /\ Exec(E)
    \/ f = "if" /\ If(E)
    \/ f = "ifelse" /\ Ifelse(E)
    \/ f = "case" /\ Case(E)
    \/ f = "stopped" /\ StoppedOp(E)
    \/ f = "loop" /\ Loop(E)
    \/ f = "repeat" /\ Repeat(E)
    \/ f = "for" /\ For(E)
    \/ f = "forall" /\ Forall(E)
    \/ f = "forallindexed" /\ Forallindexed(E)
    \/ f = "Map" /\ MapOp(E, "imap")
    \/ f = "MapIndexed" /\ MapOp(E, "imapindexed")
    \/ f = "MapThread" /\ MapThread(E)
    \/ f = "exit" /\ Exit(E)
    \/ f = "return" /\ Return(E)
    \/ f = "stop" /\ Stop(E)
    \/ f = "closeinput" /\ Closeinput(E)
    \/ f = "raiseerror" /\ Raiseerror(E)
    \/ f = "raiseagain" /\ Raiseagain(E)
    \/ f = "handleerror" /\ Handleerror(E)
    \/ f = "print_error" /\ Print_error(E)
    \/ f = "bind_" /\ Bind(E)
    \/ f = "begin" /\ Begin(E)
    \/ f = "end" /\ End(E)
    \/ f = "add_ii" /\ Add(E)

\* current_op_ is cleared when execute() returns.
StillSet(f) == f
Cleared(f) == NoOp

\* switch and switchdefault push the mark for exit, and then ::pop, which
\* nothing defines: they throw, and the mark stays.
Switch(f, E) == f = "switch" /\ ThrowFrom(f, Append(E, MarkTok), "UndefinedName")
Switchdefault(f, E) ==
    f = "switchdefault" /\ ThrowFrom(f, Append(E, MarkTok), "UndefinedName")

\* fn->execute with the execution stack E; the dispatcher goes on at next.
Execute(f, E, next) ==
    \/ ~ Loaded(f) /\ ThrowFrom(f, E, "StackUnderflow")
    \/ Loaded(f) /\ ~ Typed(f) /\ ThrowFrom(f, E, "TypeMismatch")
    \/ Loaded(f) /\ Typed(f) /\ (Switch(f, E) \/ Switchdefault(f, E))
    \/ /\ Loaded(f) /\ Typed(f)
       /\ Effect(f, E)
       /\ pc' = next
       /\ current_op' = Cleared(f)

-----------------------------------------------------------------------------
(* The loop of execute_dispatch_ and its switch *)

Quiet == UNCHANGED <<input, signalflag, setting>>

\* The switch runs on a nonempty execution stack, after the signal poll.
Dispatching(S) ==
    /\ pc = "dispatch"
    /\ estack # <<>> /\ ~ signalflag
    /\ Tag(Last(estack)) \in S
    /\ Quiet

Goto(l) == pc' = l /\ UNCHANGED current_op

TakeSignal ==
    /\ pc = "dispatch"
    /\ estack # <<>> /\ signalflag
    /\ signalflag' = FALSE
    /\ RaiseIn(estack, CurrentName(estack), "SystemSignal")
    /\ UNCHANGED <<pc, input, current_op, setting>>

Halt ==
    /\ pc = "dispatch"
    /\ estack = <<>>
    /\ Goto("halted")
    /\ UNCHANGED <<estack, ostack, error, dlevel, bound>> /\ Quiet

DispatchData ==
    /\ Dispatching(DataTags)
    /\ Stacks(Drop(estack, 1), Append(ostack, Last(estack)))
    /\ Goto("dispatch")

DispatchName ==
    /\ Dispatching({"name"})
    /\ LET t == Resolve(Data(Last(estack))) IN
       \/ /\ t = Unbound
          /\ Complain(estack, "UndefinedName")
       \/ /\ IsExecutable(t)
          /\ Stacks(SetPick(estack, 0, t), ostack)
          /\ Goto("dispatch")
       \/ /\ t # Unbound /\ ~ IsExecutable(t)
          /\ Stacks(Drop(estack, 1), Append(ostack, t))
          /\ Goto("dispatch")

\* The levels of a trie at which the operands end or have another type.
Misfits(types) ==
    {i \in DOMAIN types : i > Len(ostack) \/ Tag(Pick(ostack, i - 1)) # types[i]}

\* The trie replaces itself by the leaf for the types on the operand stack;
\* a trie that finds none stays on the execution stack, and the first level
\* that does not fit names the error.
DispatchTrie ==
    /\ Dispatching({"trie"})
    /\ LET f == Data(Last(estack))
           bad == Misfits(Tries[f].types)
       IN  \/ /\ bad # {} /\ Min(bad) > Len(ostack)
              /\ Complain(estack, "StackUnderflow")
           \/ /\ bad # {} /\ Min(bad) <= Len(ostack)
              /\ Complain(estack, "ArgumentType")
           \/ /\ bad = {}
              /\ Stacks(SetPick(estack, 0, Fn(Tries[f].leaf)), ostack)
              /\ Goto("dispatch")

DispatchLitproc ==
    /\ Dispatching({"litprocedure"})
    /\ Stacks(Drop(estack, 1), Append(ostack, Proc(Data(Last(estack)))))
    /\ Goto("dispatch")

DispatchFunction ==
    /\ Dispatching({"function"})
    /\ Execute(Data(Last(estack)), Drop(estack, 1), "dispatch")

DispatchProcedure ==
    /\ Dispatching({"procedure"})
    /\ Stacks(estack \o <<IntTok(0), Marker("iiterate")>>, ostack)
    /\ Goto("walk")

DispatchIter ==
    /\ Dispatching(IterMarkers)
    /\ Stacks(estack, ostack)
    /\ Goto("walk")

\* quittype leaves the loop with the stacks as they are.
Quit ==
    /\ Dispatching({"quit"})
    /\ Stacks(estack, ostack)
    /\ Goto("halted")

\* iparse reads one token; at the end of the input it drops the stream.
Iparse ==
    /\ pc = "dispatch"
    /\ estack # <<>> /\ ~ signalflag
    /\ Tag(Last(estack)) = "iparse"
    /\ UNCHANGED <<signalflag, setting>>
    /\ \/ /\ input = <<>>
          /\ Stacks(Drop(estack, 2), ostack) /\ UNCHANGED input
          /\ Goto("dispatch")
       \/ /\ input # <<>> /\ input' = Tail(input)
          /\ Head(input) = BadSyntax
          /\ Complain(estack, "SyntaxError")
       \/ /\ input # <<>> /\ input' = Tail(input)
          /\ Head(input) # BadSyntax
          /\ Stacks(Append(estack, Head(input)), ostack)
          /\ Goto("dispatch")

-----------------------------------------------------------------------------
(* body_walk *)

Walked == Body(Data(Pick(estack, 2)))
Pos == Data(Pick(estack, 1))
Fetched == Walked[Pos + 1]
More == Pos + 1 < Len(Walked)
Advanced == SetPick(estack, 1, IntTok(Pos + 1))
NextInBody == IF More THEN "walk" ELSE "exhausted"

\* The tail call: the last token of a procedure's body takes the place of
\* its whole frame, unless /backtrace_on asks for every frame.
AlwaysTail == ~ More
TailCall == ~ More /\ Tag(Last(estack)) = "iiterate" /\ ~ program.backtrace

Walking(S) ==
    /\ pc = "walk"
    /\ Pos < Len(Walked)
    /\ Tag(Fetched) \in S
    /\ Quiet

WalkEnd ==
    /\ pc = "walk"
    /\ Pos >= Len(Walked)
    /\ Goto("exhausted")
    /\ UNCHANGED <<estack, ostack, error, dlevel, bound>> /\ Quiet

WalkData ==
    /\ Walking(DataTags)
    /\ Stacks(Advanced, Append(ostack, Fetched))
    /\ Goto(NextInBody)

WalkTail ==
    /\ Walking(ExecTags)
    /\ TailCall
    /\ Stacks(Append(Drop(estack, 3), Fetched), ostack)
    /\ Goto("dispatch")

WalkFunction ==
    /\ Walking({"function"})
    /\ ~ TailCall
    /\ Execute(Data(Fetched), Advanced, "resume")

WalkName ==
    /\ Walking({"name"})
    /\ ~ TailCall
    /\ LET t == Resolve(Data(Fetched)) IN
       \/ /\ t = Unbound
          /\ Complain(Advanced, "UndefinedName")
       \/ /\ Tag(t) = "function"
          /\ Execute(Data(t), Advanced, "resume")
       \/ /\ IsExecutable(t) /\ Tag(t) # "function"
          /\ Stacks(Append(Advanced, t), ostack)
          /\ Goto("dispatch")
       \/ /\ t # Unbound /\ ~ IsExecutable(t)
          /\ Stacks(Advanced, Append(ostack, t))
          /\ Goto("walk")

WalkLitproc ==
    /\ Walking({"litprocedure"})
    /\ ~ TailCall
    /\ Stacks(Advanced, Append(ostack, Proc(Data(Fetched))))
    /\ Goto(NextInBody)

WalkPush ==
    /\ Walking(ExecTags \ {"function", "name", "litprocedure"})
    /\ ~ TailCall
    /\ Stacks(Append(Advanced, Fetched), ostack)
    /\ Goto("dispatch")

-----------------------------------------------------------------------------
(* body_exhausted *)

\* The poll once per body, so that a loop that never comes back to the head
\* of the dispatcher still notices a signal.
IgnoreSignal == FALSE
PollSignal == signalflag

LeaveForSignal ==
    /\ pc = "exhausted"
    /\ PollSignal
    /\ Goto("dispatch")
    /\ UNCHANGED <<estack, ostack, error, dlevel, bound>> /\ Quiet

Exhausted(S) ==
    /\ pc = "exhausted"
    /\ ~ PollSignal
    /\ Tag(Last(estack)) \in S
    /\ Goto("resume")
    /\ Quiet

Rewound == SetPick(estack, 1, IntTok(0))
SlotInt(i) == Data(Pick(estack, i))

EndProcedure == Exhausted({"iiterate"}) /\ Stacks(Drop(estack, 3), ostack)

RepeatOnceMore(n) == n >= 0
RepeatAgain(n) == n > 0

NextRepeat ==
    /\ Exhausted({"irepeat"})
    /\ IF RepeatAgain(SlotInt(3))
       THEN Stacks(SetPick(Rewound, 3, IntTok(SlotInt(3) - 1)), ostack)
       ELSE Stacks(Drop(estack, 5), ostack)

\* The counter is advanced without a check for overflow.
NextFor ==
    LET counter == SlotInt(3)
        lim == SlotInt(4)
        inc == SlotInt(5)
    IN  /\ Exhausted({"ifor"})
        /\ IF (inc > 0 /\ counter <= lim) \/ (inc < 0 /\ counter >= lim)
           THEN Stacks(SetPick(Rewound, 3, IntTok(Wrap(counter + inc))),
                       Append(ostack, Pick(estack, 3)))
           ELSE Stacks(Drop(estack, 7), ostack)

NextLoop == Exhausted({"iloop"}) /\ Stacks(Rewound, ostack)

NextForall ==
    LET elements == Data(Pick(estack, 4))
        idx == SlotInt(3)
    IN  /\ Exhausted({"iforall", "iforallstring"})
        /\ IF idx < Len(elements)
           THEN Stacks(SetPick(Rewound, 3, IntTok(idx + 1)),
                       Append(ostack, elements[idx + 1]))
           ELSE Stacks(Drop(estack, 6), ostack)

NextForallindexed ==
    LET elements == Data(Pick(estack, 5))
        count == SlotInt(3)
    IN  /\ Exhausted({"iforallindexedarray", "iforallindexedstring"})
        /\ IF count < SlotInt(4)
           THEN Stacks(SetPick(Rewound, 3, IntTok(count + 1)),
                       ostack \o <<elements[count + 1], IntTok(count)>>)
           ELSE Stacks(Drop(estack, 7), ostack)

\* One round of the Map family.  The body must have left exactly one token
\* more than the load saved at the start (slot), which is written back; then
\* feed(idx) goes onto the operand stack, or, after the last round, the
\* result takes the place of the array.
OneResult(idx, saved) == idx > 0 => Len(ostack) = saved + 1

NextMapped(slot, size, feed) ==
    LET target == Data(Pick(estack, 4))
        idx == SlotInt(3)
        written == IF idx > 0 THEN [target EXCEPT ![idx] = Last(ostack)] ELSE target
        rest == IF idx > 0 THEN Drop(ostack, 1) ELSE ostack
    IN  IF ~ OneResult(idx, SlotInt(slot))
        THEN RaiseIn(estack, CurrentName(estack), "StackUnderflow")
        ELSE IF idx < Len(target)
        THEN Stacks(SetPick(SetPick(Rewound, 4, Array(written)), 3, IntTok(idx + 1)),
                    rest \o feed[idx + 1])
        ELSE Stacks(Drop(estack, size), SetPick(rest, 0, Array(written)))

Element(i) == Data(Pick(estack, 4))[i]
MapRounds == DOMAIN Data(Pick(estack, 4))

NextMap ==
    Exhausted({"imap"}) /\ NextMapped(5, 7, [i \in MapRounds |-> <<Element(i)>>])

NextMapIndexed ==
    Exhausted({"imapindexed"}) /\ NextMapped(5, 7, [i \in MapRounds |-> <<Element(i), IntTok(i)>>])

NextMapThread ==
    LET sources == Data(Pick(estack, 5))
    IN  /\ Exhausted({"imapthread"})
        /\ NextMapped(6, 8, [i \in MapRounds |-> [r \in DOMAIN sources |-> Data(sources[r])[i]]])

-----------------------------------------------------------------------------
(* resume_iter *)

\* top() of an empty stack is undefined: what lies before the buffer may
\* look like a marker ("wild"), or it may not.
Resume ==
    /\ pc = "resume"
    /\ \/ estack # <<>> /\ Tag(Last(estack)) \in IterMarkers /\ Goto("walk")
       \/ estack # <<>> /\ Tag(Last(estack)) \notin IterMarkers /\ Goto("dispatch")
       \/ estack = <<>> /\ Goto("dispatch")
       \/ estack = <<>> /\ Goto("wild")
    /\ UNCHANGED <<estack, ostack, error, dlevel, bound>> /\ Quiet

-----------------------------------------------------------------------------

\* A program that fills the stacks (a loop that pushes, say) is followed up
\* to a bound.
Room == Len(ostack) <= MaxOperands /\ Len(estack) <= MaxExec

Arm ==
    \/ TakeSignal \/ Halt
    \/ DispatchData \/ DispatchName \/ DispatchTrie \/ DispatchLitproc
    \/ DispatchFunction \/ DispatchProcedure \/ DispatchIter \/ Quit \/ Iparse
    \/ WalkEnd \/ WalkData \/ WalkTail \/ WalkFunction \/ WalkName
    \/ WalkLitproc \/ WalkPush
    \/ LeaveForSignal \/ EndProcedure \/ NextRepeat \/ NextFor \/ NextLoop
    \/ NextForall \/ NextForallindexed \/ NextMap \/ NextMapIndexed \/ NextMapThread
    \/ Resume

Step == Room /\ Arm

\* The handler keeps only the first signal until it is taken.
SignalArrives ==
    /\ pc \notin {"halted", "wild"}
    /\ signals < program.signals
    /\ signalflag' = TRUE
    /\ signals' = signals + 1
    /\ UNCHANGED <<pc, estack, ostack, program, bound, input, current_op, error, dlevel>>

\* Stuttering at the end, so that any other state without a step is an error.
Ended == (pc \in {"halted", "wild"} \/ ~ Room) /\ UNCHANGED vars

Init ==
    /\ pc = "dispatch"
    /\ program \in Programs
    /\ input = program.input
    /\ estack = IF program.boot = "evalstring" THEN <<<<"xistream", 0>>, NameTok(Parse)>>
                                               ELSE <<Marker("quit"), NameTok("start")>>
    /\ ostack = <<>> /\ bound = {}
    /\ signalflag = FALSE /\ signals = 0
    /\ current_op = NoOp
    /\ error = [newerror |-> FALSE, errorname |-> NoOp, commandname |-> NoOp]
    /\ dlevel = 3

Next == Step \/ SignalArrives \/ Ended

Spec == Init /\ [][Next]_vars /\ WF_vars(Step)

-----------------------------------------------------------------------------
(* Properties *)

TypeOK ==
    /\ pc \in {"dispatch", "walk", "exhausted", "resume", "halted", "wild"}
    /\ \A i \in DOMAIN estack : Tag(estack[i]) \in Tags
    /\ \A i \in DOMAIN ostack : Tag(ostack[i]) \in Tags \ IterMarkers
    /\ signalflag \in BOOLEAN /\ signals \in 0..program.signals
    /\ current_op \in Operators \cup {NoOp}
    /\ error.newerror \in BOOLEAN
    /\ dlevel >= 3

\* Every iteration marker on the execution stack sits on a whole frame of its
\* kind with the position inside its procedure's body, and every mark is the
\* bottom of such a frame, or about to be unwound by a stop.
FrameStart(i) == i - Len(Layout[Tag(estack[i])])
FramesWhole ==
    /\ \A i \in DOMAIN estack : Tag(estack[i]) \in IterMarkers =>
          /\ HasLayout(estack, FrameStart(i), Layout[Tag(estack[i])])
          /\ Data(estack[i-1]) \in 0..Len(Body(Data(estack[i-2])))
    /\ \A i \in DOMAIN estack : IsMark(estack[i]) =>
          \/ \E j \in DOMAIN estack : Tag(estack[j]) \in LoopMarkers /\ FrameStart(j) = i
          \/ i = Len(estack) /\ pc \in {"dispatch", "resume"}
          \/ i < Len(estack) /\ estack[i+1] = Fn("stop")
    /\ pc \in {"walk", "exhausted"} =>
          estack # <<>> /\ Tag(Last(estack)) \in IterMarkers

\* A procedure that waits under another frame has tokens left to run: the
\* tail call keeps no spent frame, so tail recursion runs in constant space.
\* (stop may be scheduled on top of a spent frame, by a signal.)
NoSpentFrame ==
    ~ program.backtrace =>
        \A i \in 1..(Len(estack) - 1) :
            Tag(estack[i]) = "iiterate" =>
                \/ Data(estack[i-1]) < Len(Body(Data(estack[i-2])))
                \/ estack[i+1] = Fn("stop")

\* exit, return, stop, the tail call and the exhaust arms, each with its own idea
\* of the sizes, always cut between frames, and leave none that is spent.
FramesIntact == FramesWhole /\ NoSpentFrame

\* current_op_ outlives an operator only when it threw, and then only until
\* the stop it scheduled runs: no later error is put down to it.
StaleOpIsUnwinding ==
    current_op # NoOp =>
        pc = "dispatch" /\ estack # <<>> /\ Last(estack) = Fn("stop")

\* A signal that has arrived is raised as an error, however tight the loop
\* the program is in, unless the interpreter ends first.
SignalTaken == signalflag ~> (~ signalflag \/ pc \in {"halted", "wild"})
=============================================================================
