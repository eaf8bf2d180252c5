------------------------------ MODULE MCDispatcher -----------------------------
(***************************************************************************)
(* Programs for TLC.  A program puts a procedure P under one of the        *)
(* constructs, P puts Q under another one, and Q does something short; so  *)
(* every construct is nested in every other one, and left in every way.    *)
(***************************************************************************)
EXTENDS Reference

MCConstNames == [x |-> IntTok(5), nil |-> Array(<<>>)]
MCTries == [add |-> [types |-> <<"integer", "integer">>, leaf |-> "add_ii"]]

Str(s) == <<"string", s>>
Dictionary == <<"dictionary", 0>>       \* an empty one
\* What forall_di of lib/sli/typeinit.sli comes to for an empty dictionary.
ForallOfNothing == <<Fn("pop"), Fn("pop")>>
One == IntTok(1)
Two == IntTok(2)
Pair == Array(<<IntTok(3), IntTok(2)>>)
Text == Str(<<IntTok(1), IntTok(0)>>)
Matrix == Array(<<Pair, Array(<<One, One>>)>>)

\* The procedure q under each construct, f(name) being the operator's token.
Constructs(q, f(_)) ==
    { <<Litproc(q), f("exec")>>,
      <<NameTok(q)>>,
      <<Bool(TRUE), Litproc(q), f("if")>>,
      <<Bool(FALSE), Litproc(q), f("if")>>,
      <<Bool(FALSE), Litproc("start"), Litproc(q), f("ifelse")>>,
      <<Litproc(q), f("stopped")>>,
      <<Litproc(q), f("loop")>>,
      <<Two, Litproc(q), f("repeat")>>,
      <<Two, IntTok(-1), One, Litproc(q), f("for")>>,
      <<Pair, Litproc(q), f("forall")>>,
      <<Text, Litproc(q), f("forall")>>,
      <<Pair, Litproc(q), f("forallindexed")>>,
      <<Pair, Litproc(q), f("Map")>>,
      <<Matrix, Litproc(q), f("MapThread")>> }

\* Constructs whose variations matter less, or that fail.
Oddities(q) ==
    { <<One, Litproc(q), Fn("forall")>>,
      <<Litproc("start"), Litproc(q), Fn("forall")>>,
      <<One, Litproc(q), Fn("forallindexed")>>,
      <<Text, Litproc(q), Fn("forallindexed")>>,
      <<Pair, Litproc(q), Fn("MapIndexed")>>,
      <<NameTok("nil"), Litproc(q), Fn("MapIndexed")>>,
      <<NameTok("nil"), Litproc(q), Fn("MapThread")>>,
      <<Pair, Litproc(q), Fn("MapThread")>>,
      <<Array(<<Pair, NameTok("nil")>>), Litproc(q), Fn("MapThread")>>,
      <<Array(<<Pair, Array(<<One>>)>>), Litproc(q), Fn("MapThread")>>,
      <<Array(<<Array(<<>>)>>), Litproc(q), Fn("MapThread")>>,
      <<Dictionary, Litproc(q), Fn("forall")>>,
      <<Two, IntTok(0), One, Litproc(q), Fn("for")>>,
      <<IntTok(-1), Litproc(q), Fn("repeat")>>,
      <<Dictionary, Fn("begin"), Litproc(q), Fn("stopped"), Fn("end")>>,
      <<Litproc(q), Fn("stopped"), Litproc("H"), Fn("if"), Litproc(q), Fn("stopped")>>,
      <<Litproc(q), Fn("stopped"), Fn("raiseagain")>>,
      <<BadSyntax, Litproc(q), Fn("exec")>>,
      <<Litproc(q), Fn("bind_"), NameTok("exec")>>,
      <<One, Fn("bind_"), Litproc(q)>>,
      <<Bool(TRUE), Litproc(q), Fn("case"), Fn("exec")>>,
      <<Bool(FALSE), Litproc(q), Fn("case")>>,
      <<One, Litproc(q), Fn("case")>>,
      <<MarkTok, Litproc(q), Fn("switch")>>,
      <<MarkTok, Litproc(q), Fn("switchdefault")>>,
      <<Litproc(q), Fn("stopped"), Fn("print_error"), Fn("handleerror")>> }

Short == { <<>>, <<One>>, <<Fn("pop")>>, <<Fn("exit")>>, <<Fn("stop")>>,
           <<NameTok("x"), Fn("exit")>>, <<NameTok("missing")>>,
           <<One, Trie("add")>>, <<NameTok("x"), NameTok("add")>>,
           <<One, Fn("pop")>>, <<Fn("pop"), Litproc("H")>> }

Shorter == { <<>>, <<Fn("exit")>>, <<Fn("stop"), One>>, <<One, NameTok("missing")>>,
             <<NameTok("add")>>, <<Fn("pop"), NameTok("x")>>, <<Dictionary, Fn("begin"), Fn("stop")>> }

Odd == { <<Fn("raiseagain")>>, <<Fn("handleerror")>>, <<Fn("end"), One>>,
         <<Lit("f"), Lit("e"), Fn("raiseerror")>>, <<NameTok("quit"), One>>,
         <<Fn("closeinput"), One>>, <<IntTok(7), One, Fn("add_ii")>>,
         <<Bool(TRUE), Trie("add")>>, <<Marker("quit")>>,
         <<Proc("H"), One>>, <<MarkTok, Fn("exec"), One>> }

Evalstring(in, p, q, backtrace) ==
    [ boot |-> "evalstring", input |-> in, backtrace |-> backtrace, signals |-> 0,
      body |-> [P |-> p, Q |-> q, H |-> <<Fn("handleerror")>>, start |-> <<>>,
                forall_di |-> ForallOfNothing] ]

\* Every construct in every other one, under a stopped of its own, and with
\* something left to do afterwards.
Afterwards == { <<>>, <<One>>, <<Fn("exit")>>, <<Fn("stop")>> }

Nested ==
    { Evalstring(outer \o <<Litproc("H"), Two>>, inner \o after, q, bt) :
        outer \in Constructs("P", NameTok), inner \in Constructs("Q", Fn),
        after \in Afterwards, q \in Shorter, bt \in BOOLEAN }

\* Procedures that are bound while they run, or before.
Binding ==
    { Evalstring(<<Litproc("P"), Fn("bind_"), NameTok("exec"), Two>>, inner \o after, q, bt) :
        inner \in Constructs("Q", NameTok), after \in Afterwards,
        q \in Shorter \cup { <<Litproc("Q"), NameTok("bind_"), One, NameTok("pop")>> }, bt \in BOOLEAN }

\* return, where the tail call has left the procedures it counts on.
Returning ==
    { Evalstring(outer \o <<Two>>, inner \o after, <<One, Fn("return"), Two>>, bt) :
        outer \in Constructs("P", Fn), inner \in Constructs("Q", Fn),
        after \in Afterwards \ {<<>>}, bt \in BOOLEAN }
    \cup
    { Evalstring(outer \o <<Two>>, inner, q, TRUE) :
        outer \in Constructs("P", Fn), inner \in Constructs("Q", Fn),
        q \in { <<Fn("return")>>, <<Fn("return"), One>> } }
    \cup
    { Evalstring(<<Fn("return"), One>>, <<>>, <<>>, FALSE) }

\* What is short, or odd, directly under every construct, with and without a
\* stopped around it, with and without the backtrace.
Flat ==
    { Evalstring(IF caught THEN <<Litproc("Q"), Fn("stopped"), One>> ELSE outer, p, outer, bt) :
        outer \in Constructs("P", Fn) \cup Oddities("P"),
        p \in Short \cup Odd, caught \in BOOLEAN, bt \in BOOLEAN }

\* Started by execute(int), with no input to close.
Started ==
    { [ boot |-> "start", input |-> <<>>, backtrace |-> FALSE, signals |-> 0,
        body |-> [P |-> p, Q |-> <<>>, H |-> <<>>, start |-> q,
                  forall_di |-> ForallOfNothing] ] :
      p \in Odd, q \in Constructs("P", Fn) }

CorePrograms ==
    Nested \cup Binding \cup Returning \cup Started \cup {g \in Flat : BadSyntax \notin Range(g.body.Q)}

-----------------------------------------------------------------------------
\* Programs that are long, or never end, for a signal to arrive in.  Those
\* that call themselves need the tail call to stay within bounds.
Recursions == { <<NameTok("P")>>, <<Bool(TRUE), Litproc("P"), Fn("if")>> }

SignalBodies ==
    { <<>>, <<One, Fn("pop")>>, <<Two, Litproc("Q"), Fn("repeat")>>,
      <<One, NameTok("missing")>>,
      <<Two, One, Fn("pop"), Litproc("Q"), Fn("repeat")>>,
      <<Litproc("Q"), Fn("stopped"), Fn("pop")>>,
      <<Pair, Litproc("Q"), Fn("Map"), Fn("pop")>> }

Endless ==
    { g \in { Evalstring(<<Litproc("P")>> \o how \o <<Litproc("H"), Fn("if"), One>>,
                          p, <<>>, bt) :
                 how \in { <<Fn("stopped")>>, <<Fn("loop")>>, <<Fn("exec")>> },
                 p \in SignalBodies \cup Recursions, bt \in BOOLEAN } :
        g.body.P \in Recursions => ~ g.backtrace }
SignalPrograms == { [g EXCEPT !.signals = 2] : g \in Endless }

AllPrograms == CorePrograms \cup SignalPrograms

\* What all of them are written with.
MCProcedures == {"P", "Q", "H", "start", Forall_di}
Words == Operators \cup MCProcedures \cup {"x", "nil", "add", "missing", "quit"}
MCLiterals ==
    {NameTok(n) : n \in Words} \cup {Fn(f) : f \in Operators} \cup {Trie("add")}
        \cup {Litproc(p) : p \in MCProcedures} \cup {Proc("H"), MarkTok, Marker("quit"), Dictionary}
        \cup {IntTok(i) : i \in -1..7} \cup {Bool(TRUE), Bool(FALSE), Lit("e"), Lit("f")}
        \cup { Pair, Text, Matrix, Array(<<>>), Array(<<Array(<<>>)>>), Array(<<One>>),
               Array(<<One, One>>), Array(<<Pair, NameTok("nil")>>), Array(<<Pair, Array(<<One>>)>>) }

-----------------------------------------------------------------------------
(* One program for each of the things the documentation promises *)

\* { { [3 2] { return } forall } exec 1 } exec
ReturnProgram ==
    { [ boot |-> "evalstring", backtrace |-> FALSE, signals |-> 0,
        input |-> <<Litproc("P"), Fn("exec")>>,
        body |-> [ P |-> <<Litproc("Q"), Fn("exec"), One>>,
                   Q |-> <<Pair, Litproc("H"), Fn("forall")>>,
                   H |-> <<Fn("return")>>, start |-> <<>>, forall_di |-> <<>> ] ] }

\* { <<>> begin <<>> begin stop } stopped
StopProgram ==
    { Evalstring(<<Litproc("P"), Fn("stopped")>>,
                 <<Dictionary, Fn("begin"), Dictionary, Fn("begin"), Fn("stop")>>, <<>>, FALSE) }
=============================================================================
