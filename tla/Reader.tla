-------------------------------- MODULE Reader --------------------------------
(***************************************************************************)
(* The reader: Scanner (parser/sli_scanner.cpp), a finite automaton over   *)
(* the classes of characters, makes symbols of the characters of a stream, *)
(* and Parser (parser/sli_parser.cpp) makes tokens of the symbols.  One    *)
(* step takes one character, or one symbol.  What a stream holds is chosen *)
(* as it is read.  The parser lives as long as the interpreter, and its    *)
(* digit string ds with it.                                                *)
(***************************************************************************)
EXTENDS Integers, FiniteSets, SequencesExt

CONSTANTS
    Inputs,         \* what programs may read: records of names of streams,
                    \* the names of those that are strings on the operand
                    \* stack, characters, a bound on the length of a stream,
                    \* and whether reading may fail
    MaxInteger      \* LONG_MAX, scaled

ASSUME ReaderAssumption ==
    /\ \A i \in Inputs : /\ i.length \in Nat /\ i.breaks \in BOOLEAN
                         /\ IsFiniteSet(i.streams) /\ i.strings \subseteq i.streams
                         /\ i.strings # {} => ~i.breaks
    /\ MaxInteger \in Nat

VARIABLES
    input,      \* one of the Inputs
    streams,    \* each stream: what has come of it, how much of that is consumed;
                \* of a string, where the part begins that is still an operand
    in,         \* Scanner: the present stream
    line, col,  \* Scanner: the position in it
    ds,         \* Scanner: the digit string, a member that outlives the call
    scan,       \* the local variables of Scanner::operator()
    stack,      \* Parser: the procedures that are open
    positions,  \* Parser: open_brace_positions_
    call,       \* the call of readToken or readSymbol, and what it answered
    last,       \* the last symbol, with the text it was made of
    origin      \* where in the present stream the lines are counted from

scanner == <<in, line, col, ds, origin>>
parser == <<stack, positions>>
vars == <<input, streams, scanner, scan, parser, call, last>>

-----------------------------------------------------------------------------
(* The automaton *)

ClassOf ==
    [ whitespace |-> {" ", "TAB"}, eof |-> {"EOF"}, digit |-> {"1", "2", "9"}, null |-> {"0"},
      expntl |-> {"e", "E"}, decpoint |-> {"."}, plus |-> {"+"}, minus |-> {"-"},
      openbracket |-> {"["}, closebracket |-> {"]"}, openbrace |-> {"{"}, closebrace |-> {"}"},
      openparenth |-> {"("}, closeparenth |-> {")"}, alpha |-> {"a", "x"}, slash |-> {"/"},
      backslash |-> {"\\"}, newline |-> {"n"}, tabulator |-> {"t"}, asterisk |-> {"*"},
      percent |-> {"%"}, eoln |-> {"LF", "CR"}, invalid |-> {"BEL"} ]
Codes == DOMAIN ClassOf
Chars == UNION {ClassOf[k] : k \in Codes}
code(c) == CHOOSE k \in Codes : c \in ClassOf[k]

\* Streams hold characters; their end is none of them.
ASSUME CharsAssumption == \A i \in Inputs : i.chars \subseteq Chars \ {"EOF"}

Digits == {"digit", "null"}
Letters == {"alpha", "newline", "tabulator", "backslash"}
\* What ends a name or a number.
Delimiters == {"whitespace", "eoln", "openbracket", "closebracket", "openbrace", "closebrace",
               "percent", "openparenth", "slash", "eof"}
InName == Letters \cup Digits \cup {"asterisk", "expntl", "plus", "minus", "decpoint"}
Printable == Codes \ {"eof", "invalid"}

\* Rows of the table: from these states, on these classes, to that state.
StartRows ==
    { <<{"start"}, {"whitespace", "eoln"}, "start">>,
      <<{"start"}, {"minus"}, "minusst">>, <<{"start"}, {"plus"}, "plusst">>,
      <<{"start"}, {"openbracket"}, "openbracketst">>, <<{"start"}, {"closebracket"}, "closebracketst">>,
      <<{"start"}, {"openbrace"}, "openbracest">>, <<{"start"}, {"closebrace"}, "closebracest">>,
      <<{"start"}, Letters \cup {"asterisk", "expntl"}, "alphast">>,
      <<{"start"}, {"slash"}, "slashst">>, <<{"start"}, {"percent"}, "percentst">>,
      <<{"start"}, {"openparenth"}, "startstringst">>, <<{"start"}, {"eof"}, "eofst">>,
      <<{"start"}, {"digit"}, "intdgtst">>, <<{"start"}, {"null"}, "nullst">>,
      <<{"start"}, {"decpoint"}, "decpfirstst">> }
SignRows ==
    { <<{"minusst", "plusst"}, {"digit"}, "intdgtst">>, <<{"minusst", "plusst"}, {"null"}, "nullst">>,
      <<{"minusst", "plusst"}, {"decpoint"}, "decpfirstst">>,
      <<{"minusst", "plusst"}, Letters, "sgalphast">>, <<{"minusst"}, {"minus"}, "sgalphast">>,
      <<{"minusst", "plusst"}, {"expntl"}, "alphast">>,
      <<{"minusst", "plusst"}, Delimiters, "aheadsgst">> }
StringRows ==
    { <<{"startstringst", "stringst"}, Printable \ {"openparenth", "closeparenth", "backslash"}, "stringst">>,
      <<{"startstringst", "stringst"}, {"openparenth"}, "openparst">>,
      <<{"startstringst", "stringst"}, {"closeparenth"}, "closeparst">>,
      <<{"startstringst", "stringst"}, {"backslash"}, "backslashst">>,
      <<{"backslashst"}, {"newline"}, "newlinest">>, <<{"backslashst"}, {"tabulator"}, "tabulatorst">>,
      <<{"backslashst"}, {"backslash"}, "backslashcst">>,
      <<{"backslashst"}, {"openparenth"}, "oparenthcst">>,
      <<{"backslashst"}, {"closeparenth"}, "cparenthcst">> }
NumberRows ==
    { <<{"intdgtst"}, Digits, "intdgtst">>, <<{"intdgtst"}, {"expntl"}, "intexpst">>,
      <<{"nullst", "decpointst", "fracdgtst"}, {"expntl"}, "expntlst">>,
      <<{"intdgtst", "nullst"}, {"decpoint"}, "decpointst">>,
      <<{"intdgtst", "nullst"}, Delimiters \cup Letters, "aheadintst">>,
      <<{"decpfirstst"}, Digits, "decpdgtst">>,
      <<{"decpointst", "fracdgtst"}, Digits, "fracdgtst">>,
      <<{"decpointst", "fracdgtst", "expdigst"}, Delimiters \cup Letters, "aheadfracst">>,
      <<{"expntlst", "plexpst", "mnexpst", "expdigst"}, Digits, "expdigst">>,
      <<{"expntlst"}, {"plus"}, "plexpst">>, <<{"expntlst"}, {"minus"}, "mnexpst">> }
NameRows ==
    { <<{"alphast"}, InName, "alphast">>, <<{"alphast"}, Delimiters, "aheadalphst">> }
LineCommentRows ==
    { <<{"percentst"}, {"eoln"}, "start">>, <<{"percentst"}, Printable \ {"eoln"}, "percentst">>,
      <<{"percentst"}, {"eof"}, "eofst">> }
LiteralRows ==
    { <<{"slashst"}, InName \ {"asterisk"}, "literalst">>, <<{"slashst"}, {"asterisk"}, "ccommentst">>,
      <<{"literalst"}, InName, "literalst">>, <<{"literalst"}, Delimiters, "aheadlitst">> }
CommentRows ==
    { <<{"ccommentst", "asteriskst"}, {"asterisk"}, "asteriskst">>, <<{"asteriskst"}, {"slash"}, "start">>,
      <<{"ccommentst"}, Printable \ {"asterisk"}, "ccommentst">>,
      <<{"asteriskst"}, Printable \ {"asterisk", "slash"}, "ccommentst">> }
Rows ==
    UNION {StartRows, SignRows, StringRows, NumberRows, NameRows, LineCommentRows, LiteralRows, CommentRows}

ScanStates == (UNION {r[1] \cup {r[3]} : r \in Rows}) \cup {"error"}

Hits(s, k) == {r \in Rows : s \in r[1] /\ k \in r[2]}
trans == [s \in ScanStates |-> [k \in Codes |->
             IF Hits(s, k) = {} THEN "error" ELSE (CHOOSE r \in Hits(s, k) : TRUE)[3]]]

\* The states that look one character ahead, and all that end a symbol.
Ahead == {"aheadintst", "aheadfracst", "aheadsgst", "aheadalphst", "aheadlitst"}
SymbolOf == [ openbracest |-> "BeginProcedure", closebracest |-> "EndProcedure",
              openbracketst |-> "BeginArray", closebracketst |-> "EndArray", eofst |-> "End" ]
Final(q) == q \in Ahead \cup DOMAIN SymbolOf \/ (q = "closeparst" /\ scan.parenth = 0)

\* The state that the switch leaves in place of some.
Settled ==
    [ intexpst |-> "expntlst", decpdgtst |-> "fracdgtst", sgalphast |-> "alphast",
      openparst |-> "stringst", closeparst |-> "stringst", newlinest |-> "stringst",
      tabulatorst |-> "stringst", backslashcst |-> "stringst", oparenthcst |-> "stringst",
      cparenthcst |-> "stringst" ]

\* What goes into the digit string and into the text.
CollectedOne(q, c) ==
    CASE q \in {"intdgtst", "fracdgtst", "expdigst"} -> <<c>>
      [] q \in {"expntlst", "intexpst"} -> <<"e">>
      [] q \in {"decpointst", "decpdgtst"} -> <<".">>
      [] q \in {"minusst", "mnexpst"} -> <<"-">>
      [] OTHER -> <<>>
Collected(q, c) ==
    CASE q \in {"intdgtst", "fracdgtst", "expdigst"} -> <<c>>
      [] q \in {"expntlst", "intexpst"} -> <<"e">>
      [] q = "decpointst" -> <<".">>
      [] q = "decpdgtst" -> <<".", c>>
      [] q \in {"minusst", "mnexpst"} -> <<"-">>
      [] OTHER -> <<>>
Escaped == [ newlinest |-> "LF", tabulatorst |-> "TAB", backslashcst |-> "\\",
             oparenthcst |-> "(", cparenthcst |-> ")" ]
Spelled(q, c) ==
    CASE q \in {"alphast", "literalst", "stringst", "openparst"} -> <<c>>
      [] q = "closeparst" -> IF scan.parenth > 0 THEN <<c>> ELSE <<>>
      [] q = "sgalphast" -> <<scan.sgc, c>>
      [] q = "aheadsgst" -> <<scan.sgc>>
      [] q \in DOMAIN Escaped -> <<Escaped[q]>>
      [] OTHER -> <<>>

-----------------------------------------------------------------------------
(* Numbers as the C library reads them *)

DigitValue == [x \in {"0", "1", "2", "9"} |->
                  CASE x = "0" -> 0 [] x = "1" -> 1 [] x = "2" -> 2 [] x = "9" -> 9]
Numeral(w) == FoldLeft(LAMBDA v, x : 10 * v + DigitValue[x], 0, w)

\* The last of the digits that start at i; where a sign at i lets them start.
RunEnd(w, i) ==
    CHOOSE j \in (i - 1)..Len(w) : /\ \A k \in i..j : w[k] \in DOMAIN DigitValue
                                   /\ j < Len(w) => w[j + 1] \notin DOMAIN DigitValue
IsAt(w, i, xs) == i <= Len(w) /\ w[i] \in xs
Signed(w, i) == IF IsAt(w, i, {"+", "-"}) THEN i + 1 ELSE i
Negate(w, i, n) == IF IsAt(w, i, {"-"}) THEN -n ELSE n

strtoll(w) == Negate(w, 1, Numeral(SubSeq(w, Signed(w, 1), RunEnd(w, Signed(w, 1)))))
InLong(n) == n \in (-MaxInteger - 1)..MaxInteger

\* The longest number at the start, as m * 10^e with m no multiple of 10.
Decimal(m, e) ==
    IF m = 0 THEN <<0, 0>>
    ELSE LET k == CHOOSE j \in 0..12 : m % 10^j = 0 /\ m % 10^(j + 1) # 0
         IN  <<m \div 10^k, e + k>>
atof(w) ==
    LET first == Signed(w, 1)
        point == RunEnd(w, first) + 1
        last_ == IF IsAt(w, point, {"."}) THEN RunEnd(w, point + 1) ELSE point - 1
        whole == SubSeq(w, first, point - 1)
        part == SubSeq(w, point + 1, last_)
        digits == Signed(w, last_ + 2)
        hasExp == IsAt(w, last_ + 1, {"e", "E"}) /\ IsAt(w, digits, DOMAIN DigitValue)
        exponent == Negate(w, last_ + 2, Numeral(SubSeq(w, digits, RunEnd(w, digits))))
    IN  IF whole \o part = <<>> THEN <<0, 0>>
        ELSE Decimal(Negate(w, 1, Numeral(whole \o part)),
                     (IF hasExp THEN exponent ELSE 0) - Len(part))

-----------------------------------------------------------------------------
(* Tokens *)

Token(type, text, number, body) == [type |-> type, text |-> text, number |-> number, body |-> body]
NoToken == Token("none", <<>>, <<0, 0>>, <<>>)
SymbolToken(n) == Token("symbol", <<n>>, <<0, 0>>, <<>>)
NameToken(w) == Token("name", w, <<0, 0>>, <<>>)
Procedure(body) == Token("procedure", <<>>, <<0, 0>>, body)

\* The token of a final state, of the digits and the text.
Made(q, w, s) ==
    CASE q = "aheadintst" -> Token("integer", <<>>, <<strtoll(w), 0>>, <<>>)
      [] q = "aheadfracst" -> Token("double", <<>>, atof(w), <<>>)
      [] q = "closeparst" -> Token("string", s, <<0, 0>>, <<>>)
      [] q = "aheadlitst" -> Token("literal", s, <<0, 0>>, <<>>)
      [] q \in {"aheadalphst", "aheadsgst"} -> NameToken(s)
      [] OTHER -> SymbolToken(SymbolOf[q])

-----------------------------------------------------------------------------
(* Reading characters *)

NewScan(w) == [state |-> "start", s |-> <<>>, sgc |-> "", parenth |-> 0, from |-> 0, clean |-> w = <<>>]
NewStream == [text |-> <<>>, at |-> 0, ended |-> FALSE, bad |-> FALSE, start |-> 0, popped |-> FALSE]
NewCall == [phase |-> "idle", op |-> "none", t |-> NoToken, ok |-> TRUE, symbols |-> <<>>]
NoSymbol == [t |-> NoToken, own |-> <<>>, clean |-> TRUE]

Init ==
    /\ input \in Inputs
    /\ streams = [x \in input.streams |-> NewStream]
    /\ in = "cin" /\ line = 1 /\ col = 0 /\ origin = 0
    /\ ds = <<>> /\ scan = NewScan(<<>>)
    /\ stack = <<>> /\ positions = <<>>
    /\ call = NewCall /\ last = NoSymbol

\* Scanner::source: a change of stream starts the count of lines anew.
source(is) ==
    IF in = is THEN UNCHANGED <<in, line, col, origin>>
    ELSE in' = is /\ line' = 1 /\ col' = 0 /\ origin' = streams[is].at

\* Bound: nobody reads on who has just been told that a stream is at its end.
AtEnd(is) == in = is /\ streams[is].ended /\ last.t = SymbolToken("End")

NewRead(op) ==
    /\ call.phase = "idle"
    /\ scan' = NewScan(ds)
    /\ call' = [NewCall EXCEPT !.phase = "scan", !.op = op]
    /\ last' = NoSymbol
    /\ UNCHANGED <<input, ds, parser>>

\* By ::parse, or by token_is.
Read(op, is) ==
    /\ is \notin input.strings /\ ~AtEnd(is)
    /\ NewRead(op)
    /\ source(is)
    /\ UNCHANGED streams

\* token_s and symbol_s read from a new stream over the string.
ReadString(op, is) ==
    /\ is \in input.strings /\ ~streams[is].popped
    /\ NewRead(op)
    /\ streams' = [streams EXCEPT ![is].at = streams[is].start]
    /\ in' = is /\ line' = 1 /\ col' = 0 /\ origin' = streams[is].start
token_s(is) == ReadString("readToken", is)
symbol_s(is) == ReadString("readSymbol", is)

\* What is to be done when the parser returns.
Returned == IF in \in input.strings THEN "answer" ELSE "idle"

\* The string becomes what was not read of it, or goes when nothing was
\* left; an error leaves it as it was.
AnswerString ==
    /\ call.phase = "answer"
    /\ call' = [call EXCEPT !.phase = "idle"]
    /\ LET end == call.t = SymbolToken("End") IN
       streams' = [streams EXCEPT ![in].popped = call.ok /\ end,
                                  ![in].start = IF call.ok /\ ~end THEN streams[in].at ELSE @]
    /\ UNCHANGED <<input, scanner, scan, parser, last>>

\* in->get(): the next character, one nobody has read yet, or none.
Arrivals ==
    LET st == streams[in]
        Fresh == IF Len(st.text) < input.length THEN input.chars ELSE {}
    IN  IF st.at < Len(st.text) THEN {[c |-> st.text[st.at + 1], st |-> [st EXCEPT !.at = @ + 1]]}
        ELSE IF st.ended THEN {[c |-> "EOF", st |-> st]}
        ELSE {[c |-> x, st |-> [st EXCEPT !.text = Append(@, x), !.at = @ + 1]] : x \in Fresh}
             \cup {[c |-> "EOF", st |-> [st EXCEPT !.ended = TRUE]]}
             \cup {[c |-> "EOF", st |-> [st EXCEPT !.bad = TRUE]] : x \in {y \in {0} : input.breaks}}

Scanning == call.phase = "scan" /\ ~streams[in].bad
\* The state the table leads to.
Taken(a) == trans[scan.state][code(a.c)]

PositionRunsOn(c, back) ==
    /\ line' = IF c = "LF" THEN line + 1 ELSE line
    /\ col' = IF c = "LF" THEN 0 ELSE col + 1
Position(c, back) ==
    /\ line' = IF c = "LF" THEN line + 1 ELSE line
    /\ col' = IF c = "LF" THEN 0 ELSE IF back THEN col ELSE col + 1

Advance(a, q) ==
    /\ ~Final(q) /\ q # "error"
    /\ streams' = [streams EXCEPT ![in] = a.st]
    /\ Position(a.c, FALSE)
    /\ ds' = ds \o Collected(q, a.c)
    /\ scan' = [scan EXCEPT
          !.state = IF q \in DOMAIN Settled THEN Settled[q] ELSE q,
          !.s = @ \o Spelled(q, a.c),
          !.sgc = IF q \in {"minusst", "plusst"} THEN a.c ELSE @,
          !.parenth = CASE q = "openparst" -> @ + 1 [] q = "closeparst" -> @ - 1 [] OTHER -> @,
          !.from = IF scan.state = "start" THEN streams[in].at ELSE @]
    /\ UNCHANGED <<input, in, origin, parser, call, last>>

OutOfRange(q) == q = "aheadintst" /\ ~InLong(strtoll(ds))

\* A character that is only looked at goes back, but not the end of a line.
Accept(a, q) ==
    LET back == q \in Ahead /\ a.c \notin {"LF", "EOF"}
        t == Made(q, ds, scan.s \o Spelled(q, a.c))
        from == IF scan.state = "start" THEN streams[in].at ELSE scan.from
        upto == IF q \in Ahead THEN streams[in].at ELSE a.st.at
    IN  /\ Final(q) /\ ~OutOfRange(q)
        /\ streams' = [streams EXCEPT ![in] = IF back THEN [a.st EXCEPT !.at = @ - 1] ELSE a.st]
        /\ Position(a.c, back)
        /\ ds' = IF q \in {"aheadintst", "aheadfracst"} THEN <<>> ELSE ds
        /\ scan' = NewScan(<<>>)
        /\ last' = [t |-> t, own |-> SubSeq(a.st.text, from + 1, upto), clean |-> scan.clean]
        /\ call' = [call EXCEPT !.phase = IF call.op = "readToken" THEN "parse" ELSE Returned,
                                !.t = t, !.symbols = Append(@, t)]
        /\ UNCHANGED <<input, in, origin, parser>>

\* print_error, and the call of the scanner fails.  The parser just calls it
\* again.
Failed ==
    /\ scan' = NewScan(ds')
    /\ call' = IF call.op = "readToken" THEN call
               ELSE [call EXCEPT !.phase = Returned, !.t = NoToken, !.ok = FALSE]
    /\ UNCHANGED <<input, in, origin, parser, last>>

RejectPutsBack(a, q) ==
    /\ q = "error" \/ OutOfRange(q)
    /\ streams' = [streams EXCEPT ![in] = [a.st EXCEPT !.at = IF a.c = "EOF" THEN @ ELSE @ - 1]]
    /\ Position(a.c, TRUE)
    /\ ds' = ds
    /\ Failed
Reject(a, q) ==
    /\ q = "error" \/ OutOfRange(q)
    /\ streams' = [streams EXCEPT ![in] = a.st]
    /\ Position(a.c, FALSE)
    /\ ds' = ds
    /\ Failed

IOError ==
    /\ call.phase = "scan"
    /\ streams[in].bad
    /\ UNCHANGED <<streams, line, col, ds>>
    /\ Failed

ScanStep ==
    \/ Scanning /\ \E a \in Arrivals : Advance(a, Taken(a))
    \/ Scanning /\ \E a \in Arrivals : Accept(a, Taken(a))
    \/ Scanning /\ \E a \in Arrivals : Reject(a, Taken(a))
    \/ IOError

-----------------------------------------------------------------------------
(* Parsing symbols *)

Parsing(n) == call.phase = "parse" /\ call.t = SymbolToken(n)
Scanned == UNCHANGED <<input, streams, scanner, scan, last>>
ScanOn == call' = [call EXCEPT !.phase = "scan"]
Answer(t, ok) == call' = [call EXCEPT !.phase = Returned, !.t = t, !.ok = ok]

OpenProcedure ==
    /\ Parsing("BeginProcedure")
    /\ stack' = Append(stack, <<>>)
    /\ positions' = Append(positions, <<line, col>>)
    /\ ScanOn /\ Scanned

\* A bracket is a name like any other.
Bracket ==
    /\ \/ Parsing("BeginArray") /\ call' = [call EXCEPT !.t = NameToken(<<"[">>)]
       \/ Parsing("EndArray") /\ call' = [call EXCEPT !.t = NameToken(<<"]">>)]
    /\ UNCHANGED parser /\ Scanned

\* The procedure goes on as a token itself.
CloseProcedure ==
    /\ Parsing("EndProcedure")
    /\ stack # <<>>
    /\ call' = [call EXCEPT !.t = Procedure(Last(stack))]
    /\ stack' = Front(stack)
    /\ positions' = Front(positions)
    /\ Scanned

NoOpenProcedure ==
    /\ Parsing("EndProcedure")
    /\ stack = <<>>
    /\ Answer(SymbolToken("End"), FALSE)
    /\ UNCHANGED parser /\ Scanned

EndKeepsProcedures ==
    /\ Parsing("End")
    /\ Answer(SymbolToken("End"), stack = <<>>)
    /\ UNCHANGED parser /\ Scanned
EndKeepsPositions ==
    /\ Parsing("End")
    /\ Answer(SymbolToken("End"), stack = <<>>)
    /\ stack' = <<>> /\ UNCHANGED positions
    /\ Scanned
\* An end inside of a procedure gives up all that is open.
EndOfInput ==
    /\ Parsing("End")
    /\ Answer(SymbolToken("End"), stack = <<>>)
    /\ stack' = <<>> /\ positions' = <<>>
    /\ Scanned

SimpleToken ==
    /\ call.phase = "parse" /\ call.t.type # "symbol"
    /\ IF stack = <<>> THEN Answer(call.t, TRUE) /\ UNCHANGED stack
       ELSE stack' = [stack EXCEPT ![Len(stack)] = Append(@, call.t)] /\ ScanOn
    /\ UNCHANGED positions /\ Scanned

ParseStep ==
    OpenProcedure \/ Bracket \/ CloseProcedure \/ NoOpenProcedure \/ EndOfInput \/ SimpleToken

-----------------------------------------------------------------------------
Call ==
    \/ \E op \in {"readToken", "readSymbol"}, is \in DOMAIN streams : Read(op, is)
    \/ \E is \in DOMAIN streams : token_s(is) \/ symbol_s(is)
Work == ScanStep \/ ParseStep \/ AnswerString
Next == Call \/ Work

\* The thread that calls the reader runs the call to its end.
Spec == Init /\ [][Next]_vars /\ WF_vars(Work)

-----------------------------------------------------------------------------
(* Properties *)

IsToken(t) == t.type \in {"none", "symbol", "name", "literal", "string", "integer", "double", "procedure"}

\* Types; every open procedure has its position; between calls none is open.
TypeOK ==
    /\ \A x \in DOMAIN streams : /\ streams[x].text \in Seq(Chars)
                                 /\ streams[x].at \in 0..Len(streams[x].text)
    /\ in \in DOMAIN streams \cup {"cin"} /\ line \in Nat \ {0} /\ col \in Nat
    /\ scan.state \in ScanStates /\ scan.parenth \in Nat
    /\ call.phase \in {"idle", "scan", "parse", "answer"}
    /\ IsToken(call.t) /\ \A i \in DOMAIN call.symbols : IsToken(call.symbols[i])
    /\ Len(stack) = Len(positions)
    /\ call.phase \in {"idle", "answer"} => stack = <<>>

\* What the characters between the outer parentheses of a string stand for.
Unescaped(w) ==
    FoldLeft(LAMBDA r, c :
                 IF r.escape THEN [escape |-> FALSE,
                                   out |-> Append(r.out, CASE c = "n" -> "LF" [] c = "t" -> "TAB" [] OTHER -> c)]
                 ELSE IF c = "\\" THEN [r EXCEPT !.escape = TRUE]
                 ELSE [r EXCEPT !.out = Append(@, c)],
             [escape |-> FALSE, out |-> <<>>], w).out
Inner(w) == SubSeq(w, 2, Len(w) - 1)
\* A sign before a name that starts with e is dropped.
SignDropped(w) == Len(w) > 1 /\ w[1] \in {"+", "-"} /\ w[2] \in ClassOf.expntl

\* The scanner makes of each symbol what its own characters say: a number is
\* what the C library reads in them, a name is them, a string has them with
\* its escapes undone.  Of numbers that only holds when nothing is left in
\* the digit string; of names, but for a sign in front of an e.
SymbolIsItsText ==
    CASE last.t.type = "integer" -> last.clean => last.t.number[1] = strtoll(last.own)
      [] last.t.type = "double" -> last.clean => last.t.number = atof(last.own)
      [] last.t.type = "string" -> last.t.text = Unescaped(Inner(last.own))
      [] last.t.type = "literal" -> last.t.text = Tail(last.own)
      [] last.t.type = "name" ->
            last.t.text = IF SignDropped(last.own) THEN Tail(last.own) ELSE last.own
      [] OTHER -> TRUE

\* The line and column of the k-th character, counted from the o-th.
Breaks(w, o, k) == {i \in (o + 1)..k : w[i] = "LF"}
LineOf(w, o, k) == 1 + Cardinality(Breaks(w, o, k))
ColumnOf(w, o, k) == IF Breaks(w, o, k) = {} THEN k - o ELSE k - Max(Breaks(w, o, k))
PositionOf(w, o, k) == <<LineOf(w, o, k), ColumnOf(w, o, k)>>

\* The position that an error message gives is that of the last character
\* consumed, however often characters went back, counted since the scanner
\* came to this stream; and the positions kept are those of the braces that
\* are open.
PositionIsCounted ==
    in \in DOMAIN streams =>
        LET st == streams[in]
            Braces == {i \in (origin + 1)..st.at : st.text[i] = "{"}
        IN  /\ ~st.ended /\ ~st.bad => <<line, col>> = PositionOf(st.text, origin, st.at)
            /\ \A i \in DOMAIN positions : \E k \in Braces : positions[i] = PositionOf(st.text, origin, k)
            /\ \A i, j \in DOMAIN positions : i # j => positions[i] # positions[j]

\* Every call is answered, in whatever state the last one left the reader,
\* unless the stream can no longer be read.
CallReturns == call.phase # "idle" ~> (call.phase = "idle" \/ streams[in].bad)
===============================================================================
