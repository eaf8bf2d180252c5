-------------------------------- MODULE Reference ------------------------------
(***************************************************************************)
(* What a program means, as a recursive definition on the structure of the *)
(* program: no execution stack, no frames, no tail calls.  The dispatcher  *)
(* has to end with the operand stack, the errordict, the dictionary stack  *)
(* and the rest of the input that this definition gives.                   *)
(*                                                                         *)
(* A state is a record: r says how control leaves the piece of program     *)
(* evaluated last ("ok" for its end, or the unwinding that is under way),  *)
(* o is the operand stack, err the errordict, d the depth of the           *)
(* dictionary stack, in the unread input.  A context c tells whether a     *)
(* loop encloses the piece (for exit), what return would leave, how much   *)
(* deeper to look before the program is said to diverge, and whether       *)
(* stopped restores the dictionary stack.                                  *)
(*                                                                         *)
(* The meaning is the code's where doc/control_flow_spec.md plans another: *)
(* exit outside a loop raises EStackUnderflow (the document's D3 wants     *)
(* invalidexit), and stop and the end of stopped leave the dictionaries    *)
(* that were opened inside (its D2 and I16 want the depth restored).  For  *)
(* the second the document's meaning is defined, too: Specified.           *)
(***************************************************************************)
EXTENDS Dispatcher

\* The program as it is written, whatever bind has made of it since.
Source(p) == program.body[p]

Leave(S, how) == [S EXCEPT !.r = how]
Push(S, ts) == [S EXCEPT !.o = @ \o ts]
Take(S, n) == [S EXCEPT !.o = Drop(@, n)]
Arg(S, i) == Pick(S.o, i)

\* An error: the first one is recorded, one during its handling is not.
Fail(S, cmd, err) ==
    IF S.err.newerror
    THEN [Push(S, <<Lit("BadErrorHandler")>>) EXCEPT !.r = "stop", !.err.newerror = FALSE]
    ELSE [Push(S, <<Lit(cmd)>>) EXCEPT !.r = "stop",
             !.err = [newerror |-> TRUE, errorname |-> err, commandname |-> cmd]]

\* The counters a for loop gives to its body.
Counters(from, inc, lim) ==
    IF inc = 0 THEN <<>>
    ELSE LET n == IF inc > 0 THEN (lim - from) \div inc + 1
                             ELSE (from - lim) \div (-inc) + 1
         IN  [k \in 1..(IF n > 0 THEN n ELSE 0) |-> <<IntTok(from + (k - 1) * inc)>>]

Elements(c) == [k \in DOMAIN Data(c) |-> <<Data(c)[k]>>]
IndexedFrom(c, first) == [k \in DOMAIN Data(c) |-> <<Data(c)[k], IntTok(k - 1 + first)>>]
Columns(c) == [k \in DOMAIN Data(Data(c)[1]) |-> [r \in DOMAIN Data(c) |-> Data(Data(c)[r])[k]]]

RECURSIVE Eval(_, _, _), EvalAll(_, _, _), Apply(_, _, _),
          Rounds(_, _, _, _), Forever(_, _, _), Mapped(_, _, _, _, _)

InLoop(c) == [c EXCEPT !.loop = TRUE, !.return = IF @ = "proc" THEN @ ELSE "loop"]

EvalAll(ts, S, c) ==
    IF ts = <<>> \/ S.r # "ok" THEN S ELSE EvalAll(Tail(ts), Eval(Head(ts), S, c), c)

\* One round of a loop for every element of feeds, which it is given.
Rounds(feeds, p, S, c) ==
    IF feeds = <<>> THEN S
    ELSE LET R == EvalAll(Source(Data(p)), Push(S, Head(feeds)), InLoop(c)) IN
         IF R.r = "exit" THEN Leave(R, "ok")
         ELSE IF R.r # "ok" THEN R
         ELSE Rounds(Tail(feeds), p, R, c)

Forever(p, S, c) ==
    IF c.fuel = 0 THEN Leave(S, "diverges")
    ELSE LET R == EvalAll(Source(Data(p)), S, InLoop(c)) IN
         IF R.r = "exit" THEN Leave(R, "ok")
         ELSE IF R.r # "ok" THEN R
         ELSE Forever(p, R, [c EXCEPT !.fuel = @ - 1])

\* Map: each round turns what it is given into one result, above the array.
Mapped(feeds, p, results, S, c) ==
    IF feeds = <<>> THEN [S EXCEPT !.o = SetPick(@, 0, Array(results))]
    ELSE LET R == EvalAll(Source(Data(p)), Push(S, Head(feeds)), InLoop(c)) IN
         IF R.r = "exit" THEN Leave(R, "ok")
         ELSE IF R.r # "ok" THEN R
         ELSE IF Len(R.o) # Len(S.o) + 1 THEN Fail(R, Interpreter, "StackUnderflow")
         ELSE Mapped(Tail(feeds), p, Append(results, Last(R.o)), Take(R, 1), c)

MapOver(feeds, S, c) ==
    IF feeds = <<>> \/ Source(Data(Arg(S, 0))) = <<>> THEN Take(S, 1)
    ELSE Mapped(feeds, Arg(S, 0), <<>>, Take(S, 1), c)

Apply(f, S, c) ==
    LET a0 == Arg(S, 0)
        a1 == Arg(S, 1)
        iterable == Tag(a0) = "procedure" /\ Tag(a1) \in {"array", "string"}
    IN  CASE f = "pop" -> Take(S, 1)
          [] f = "exec" -> Eval(a0, Take(S, 1), c)
          [] f = "if" -> IF Data(a1) THEN Eval(a0, Take(S, 2), c) ELSE Take(S, 2)
          [] f = "ifelse" -> Eval(IF Data(Arg(S, 2)) THEN a1 ELSE a0, Take(S, 3), c)
          [] f = "case" ->
                IF Tag(a1) # "bool" THEN Fail(S, "case", "ArgumentType")
                ELSE Push(Take(S, 2), IF Data(a1) THEN <<a0>> ELSE <<>>)
          [] f \in {"switch", "switchdefault"} -> Fail(S, f, "UndefinedName")
          [] f = "bind_" ->
                IF Tag(a0) \in {"procedure", "litprocedure"} THEN S
                ELSE Fail(S, "bind_", "ArgumentType")
          [] f = "stopped" ->
                LET R == Eval(a0, Take(S, 1), [c EXCEPT !.return = "none"])
                    D == IF c.restores THEN [R EXCEPT !.d = S.d] ELSE R IN
                CASE R.r = "stop" -> Leave(Push(D, <<Bool(TRUE)>>), "ok")
                  [] R.r = "ok" -> Push(D, <<Bool(FALSE)>>)
                  [] OTHER -> R
          [] f = "loop" -> Forever(a0, Take(S, 1), c)
          [] f = "repeat" -> Rounds([k \in 1..Data(a1) |-> <<>>], a0, Take(S, 2), c)
          [] f = "for" ->
                Rounds(Counters(Data(Arg(S, 3)), Data(Arg(S, 2)), Data(a1)), a0, Take(S, 4), c)
          [] f = "forall" ->
                IF Tag(a0) # "procedure" \/ Tag(AsArray(a1)) \notin {"array", "string", "dictionary"}
                THEN Fail(S, "forall", "ArgumentType")
                ELSE IF Tag(a1) = "dictionary" THEN Take(S, 2)
                ELSE Rounds(Elements(AsArray(a1)), a0, Take(S, 2), c)
          [] f = "forallindexed" ->
                IF ~ iterable THEN Fail(S, "forallindexed", "ArgumentType")
                ELSE Rounds(IndexedFrom(a1, 0), a0, Take(S, 2), c)
          [] f = "Map" -> MapOver(Elements(a1), S, c)
          [] f = "MapIndexed" -> MapOver(IndexedFrom(a1, 1), S, c)
          [] f = "MapThread" ->
                IF Data(a1) = <<>> THEN Take(S, 1)
                ELSE IF \E r \in Range(Data(a1)) : Tag(r) # "array"
                THEN Fail(S, "MapThread", "ArgumentType")
                ELSE IF \E r \in Range(Data(a1)) : Len(Data(r)) # Len(Data(Data(a1)[1]))
                THEN Fail(S, "MapThread", "RangeCheck")
                ELSE MapOver(Columns(a1), S, c)
          [] f = "exit" -> IF c.loop THEN Leave(S, "exit") ELSE Fail(S, "exit", "EStackUnderflow")
          [] f = "return" ->
                IF c.return = "none" THEN Fail(S, "return", "InvalidReturn") ELSE Leave(S, "return")
          [] f = "stop" -> Leave(S, "stop")
          [] f = "closeinput" -> Leave(S, "close")
          [] f = "raiseerror" -> Fail(Take(S, 2), Data(a1), Data(a0))
          [] f = "raiseagain" ->
                IF S.err.commandname = NoOp THEN Fail(S, "raiseagain", "BadErrorHandler")
                ELSE [Push(S, <<Lit(S.err.commandname)>>)
                         EXCEPT !.r = "stop", !.err.newerror = TRUE]
          [] f = "handleerror" ->
                IF S.err.newerror /\ S.o = <<>> THEN Fail(S, "print_error", "StackUnderflow")
                ELSE [Take(S, IF S.err.newerror THEN 1 ELSE 0) EXCEPT !.err.newerror = FALSE]
          [] f = "print_error" -> Take(S, 1)
          [] f = "begin" -> [Take(S, 1) EXCEPT !.d = @ + 1]
          [] f = "end" -> IF S.d <= 3 THEN Fail(S, "end", "KernelError") ELSE [S EXCEPT !.d = @ - 1]
          [] f = "add_ii" ->
                IF Overflows(Data(a1) + Data(a0)) THEN Fail(S, "add_ii", "RangeCheck")
                ELSE Push(Take(S, 2), <<IntTok(Data(a1) + Data(a0))>>)

Checked(types, f, S, Then(_)) ==
    IF Len(S.o) < Len(types) THEN Fail(S, f, "StackUnderflow")
    ELSE IF \E i \in DOMAIN types : Tag(Arg(S, i - 1)) \notin types[i]
    THEN Fail(S, f, "TypeMismatch")
    ELSE Then(S)

\* A trie looks at one operand after the other.
Matched(types, f, S, Then(_)) ==
    LET Fits(i) == i <= Len(S.o) /\ Tag(Arg(S, i - 1)) = types[i]
        fitting == {k \in 0..Len(types) : \A i \in 1..k : Fits(i)}
    IN  IF Max(fitting) = Len(types) THEN Then(S)
        ELSE Fail(S, f, IF Max(fitting) = Len(S.o) THEN "StackUnderflow" ELSE "ArgumentType")

Eval(t, S, c) ==
    LET deeper == [c EXCEPT !.fuel = @ - 1]
        name == Data(t)
        call(T) == Apply(name, T, deeper)
        leaf(T) == Apply(Tries[name].leaf, T, deeper)
        result == EvalAll(Source(name), S, [deeper EXCEPT !.return = "proc"])
    IN  IF c.fuel = 0 THEN Leave(S, "diverges")
        ELSE
          CASE Tag(t) \in DataTags -> Push(S, <<t>>)
            [] Tag(t) = "litprocedure" -> Push(S, <<Proc(name)>>)
            [] Tag(t) = "name" ->
                  IF Resolve(name) = Unbound THEN Fail(S, Interpreter, "UndefinedName")
                  ELSE Eval(Resolve(name), S, deeper)
            [] Tag(t) = "procedure" -> IF result.r = "return" THEN Leave(result, "ok") ELSE result
            [] Tag(t) = "function" -> Checked(Requires[name], name, S, call)
            [] Tag(t) = "trie" -> Matched(Tries[name].types, name, S, leaf)
            [] Tag(t) = "quit" -> Leave(S, "quit")

RECURSIVE ReadAll(_, _), Restart(_, _)

\* evalstring: token by token, until something unwinds past the stream.
ReadAll(S, c) ==
    IF S.in = <<>> \/ S.r \notin {"ok", "return"} THEN Leave(S, "ok")
    ELSE LET T == [S EXCEPT !.in = Tail(@), !.r = "ok"] IN
         ReadAll(IF Head(S.in) = BadSyntax THEN Fail(T, Interpreter, "SyntaxError")
                                           ELSE Eval(Head(S.in), T, c), c)

\* execute(int): closeinput without an input starts the interpreter again.
Restart(S, c) ==
    LET R == Eval(NameTok("start"), S, c) IN
    IF R.r = "close" /\ c.fuel > 0
    THEN Restart(Leave(R, "ok"), [c EXCEPT !.fuel = @ - 1])
    ELSE R

MeaningWhere(restores) ==
    LET S == [r |-> "ok", o |-> <<>>, d |-> 3, in |-> program.input,
              err |-> [newerror |-> FALSE, errorname |-> NoOp, commandname |-> NoOp]]
        c == [loop |-> FALSE, return |-> "none", fuel |-> 100, restores |-> restores]
    IN  IF program.boot = "evalstring" THEN ReadAll(S, c) ELSE Restart(S, c)

Meaning == MeaningWhere(FALSE)
Specified == MeaningWhere(TRUE)

-----------------------------------------------------------------------------

\* The dispatcher ends every program (that no signal interrupts) as its
\* structure says: loops run as often as they should, exit leaves the
\* innermost loop and stop the innermost stopped, an error is recorded once
\* and unwinds to the nearest stopped, and no token is run twice or skipped
\* whatever frames the tail call and the cascade of body_exhausted drop.  The
\* dictionaries opened on the way to a stop or an error stay open, as in the
\* code (StopRestoresDictionaries says what was planned instead), and exit
\* outside a loop raises EStackUnderflow.
EndsAsMeant ==
    pc = "halted" /\ signals = 0 =>
        LET R == Meaning IN
        ostack = R.o /\ error = R.err /\ dlevel = R.d /\ input = R.in

\* "The dictionary stack IS unwound by stop to the depth saved at `stopped`
\* entry" (doc/control_flow_spec.md, I16).
StopRestoresDictionaries == pc = "halted" => dlevel = Specified.d

\* "return unwinds the execution stack up to and including the nearest
\* enclosing procedure invocation": no more, no less, as the program is written.
ReturnLeavesNearestProcedure == pc = "halted" => ostack = Meaning.o
=============================================================================
