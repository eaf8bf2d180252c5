----------------------------- MODULE ReaderProofs -----------------------------
(***************************************************************************)
(* The types of the reader, and the lines and columns that it counts, for  *)
(* any streams, characters and lengths.                                    *)
(***************************************************************************)
EXTENDS Reader, Numbers, FiniteSetTheorems, TLAPS

-----------------------------------------------------------------------------
(* Sequences *)

\* Front keeps all elements but the last.
LEMMA FrontElements ==
    ASSUME NEW S, NEW s \in Seq(S), s # <<>>
    PROVE  /\ Front(s) \in Seq(S) /\ Len(Front(s)) = Len(s) - 1
           /\ \A i \in 1..(Len(s) - 1) : Front(s)[i] = s[i]
<1> DEFINE n == Len(s) - 1
<1>1. Len(s) \in Nat /\ Len(s) > 0 /\ n \in Nat
  OBVIOUS
<1>2. \A i \in 1..n : i \in 1..Len(s)
  BY <1>1
<1>3. \A i \in 1..n : s[i] \in S
  BY <1>2
<1>4. SubSeq(s, 1, n) = [i \in 1..n |-> s[i]]
  BY <1>1
<1>5. [i \in 1..n |-> s[i]] \in Seq(S) /\ Len([i \in 1..n |-> s[i]]) = n
  BY <1>1, <1>3
<1> QED
  BY <1>4, <1>5 DEF Front

LEMMA AppendElements ==
    ASSUME NEW S, NEW s \in Seq(S), NEW x \in S
    PROVE  /\ Append(s, x) \in Seq(S) /\ Len(Append(s, x)) = Len(s) + 1
           /\ Append(s, x)[Len(s) + 1] = x
           /\ \A i \in 1..Len(s) : Append(s, x)[i] = s[i]
OBVIOUS

LEMMA ExceptElements ==
    ASSUME NEW S, NEW s \in Seq(S), NEW n \in 1..Len(s), NEW x \in S
    PROVE  [s EXCEPT ![n] = x] \in Seq(S) /\ Len([s EXCEPT ![n] = x]) = Len(s)
OBVIOUS

-----------------------------------------------------------------------------
(* Lines and columns *)

LEMMA BreaksAreFinite ==
    ASSUME NEW w, NEW o \in Nat, NEW k \in Nat
    PROVE  /\ IsFiniteSet(Breaks(w, o, k)) /\ Cardinality(Breaks(w, o, k)) \in Nat
           /\ Breaks(w, o, k) \subseteq (o + 1)..k
<1>1. IsFiniteSet((o + 1)..k)
  BY FS_Interval
<1>2. Breaks(w, o, k) \subseteq (o + 1)..k
  BY DEF Breaks
<1> QED
  BY <1>1, <1>2, FS_Subset, FS_CardinalityType

LEMMA PositionsAreNumbers ==
    ASSUME NEW w, NEW o \in Nat, NEW k \in Nat, o <= k
    PROVE  LineOf(w, o, k) \in Nat \ {0} /\ ColumnOf(w, o, k) \in Nat
<1> DEFINE B == Breaks(w, o, k)
<1>1. Cardinality(B) \in Nat /\ B \subseteq 0..k
  <2>1. Cardinality(B) \in Nat /\ B \subseteq (o + 1)..k
    BY BreaksAreFinite
  <2> QED
    BY <2>1
<1>2. LineOf(w, o, k) = 1 + Cardinality(B) /\ ColumnOf(w, o, k) = IF B = {} THEN k - o ELSE k - Max(B)
  BY DEF LineOf, ColumnOf
<1> HIDE DEF B
<1>3. B # {} => Max(B) \in 0..k
  BY <1>1, GreatestExists
<1> QED
  BY <1>1, <1>2, <1>3

\* What follows the k-th character does not change its position.
LEMMA PositionOfPrefix ==
    ASSUME NEW w, NEW v, NEW o \in Nat, NEW k \in Nat, \A i \in (o + 1)..k : w[i] = v[i]
    PROVE  LineOf(w, o, k) = LineOf(v, o, k) /\ ColumnOf(w, o, k) = ColumnOf(v, o, k)
<1>1. Breaks(w, o, k) = Breaks(v, o, k)
  BY DEF Breaks
<1> QED
  BY <1>1 DEF LineOf, ColumnOf

\* At the origin the count begins.
LEMMA PositionOfOrigin ==
    ASSUME NEW w, NEW o \in Nat
    PROVE  LineOf(w, o, o) = 1 /\ ColumnOf(w, o, o) = 0
<1>1. Breaks(w, o, o) = {}
  BY DEF Breaks
<1> QED
  BY <1>1, FS_EmptySet DEF LineOf, ColumnOf

\* One character on: the next column, or a new line.
LEMMA PositionOfNext ==
    ASSUME NEW w, NEW o \in Nat, NEW k \in Nat, NEW l \in Nat, o <= k, l = k + 1
    PROVE  /\ w[l] = "LF" => LineOf(w, o, l) = LineOf(w, o, k) + 1 /\ ColumnOf(w, o, l) = 0
           /\ w[l] # "LF" => /\ LineOf(w, o, l) = LineOf(w, o, k)
                            /\ ColumnOf(w, o, l) = ColumnOf(w, o, k) + 1
<1> DEFINE B == Breaks(w, o, k)
           C == Breaks(w, o, l)
<1>1. IsFiniteSet(B) /\ Cardinality(B) \in Nat /\ B \subseteq (o + 1)..k
  BY BreaksAreFinite
<1>2. /\ LineOf(w, o, k) = 1 + Cardinality(B) /\ LineOf(w, o, l) = 1 + Cardinality(C)
      /\ ColumnOf(w, o, k) = IF B = {} THEN k - o ELSE k - Max(B)
      /\ ColumnOf(w, o, l) = IF C = {} THEN l - o ELSE l - Max(C)
  BY DEF LineOf, ColumnOf
<1>3. CASE w[l] = "LF"
  <2>1. C = B \cup {l} /\ l \notin B
    BY <1>1, <1>3 DEF Breaks
  <2>2. Max(C) = l
    <3>1. l \in C /\ \A i \in C : i <= l
      BY <1>1, <2>1
    <3>2. C \subseteq 0..l
      BY <1>1, <2>1
    <3> HIDE DEF C
    <3> QED
      BY <3>1, <3>2, TheGreatest
  <2> HIDE DEF B, C
  <2>3. Cardinality(C) = Cardinality(B) + 1
    BY <1>1, <2>1, FS_AddElement
  <2> QED
    BY <1>1, <1>2, <1>3, <2>1, <2>2, <2>3
<1>4. CASE w[l] # "LF"
  <2>1. C = B
    BY <1>4 DEF Breaks
  <2>2. B # {} => Max(B) \in Nat
    <3> SUFFICES ASSUME B # {} PROVE Max(B) \in Nat
      OBVIOUS
    <3>1. B \subseteq 0..k
      BY <1>1
    <3> HIDE DEF B
    <3> QED
      BY <3>1, TheGreatest
  <2> HIDE DEF B, C
  <2> QED
    BY <1>1, <1>2, <1>4, <2>1, <2>2
<1> QED
  BY <1>3, <1>4

\* Two characters are at two positions.
LEMMA PositionsDiffer ==
    ASSUME NEW w, NEW o \in Nat, NEW k \in Nat, NEW l \in Nat, o <= k, k < l
    PROVE  PositionOf(w, o, k) # PositionOf(w, o, l)
<1> DEFINE B == Breaks(w, o, k)
           C == Breaks(w, o, l)
<1>1. /\ PositionOf(w, o, k) = <<1 + Cardinality(B), IF B = {} THEN k - o ELSE k - Max(B)>>
      /\ PositionOf(w, o, l) = <<1 + Cardinality(C), IF C = {} THEN l - o ELSE l - Max(C)>>
  BY DEF PositionOf, LineOf, ColumnOf
<1>2. /\ IsFiniteSet(C) /\ Cardinality(B) \in Nat /\ Cardinality(C) \in Nat
      /\ B \subseteq 0..k /\ B \subseteq C
  <2>1. /\ IsFiniteSet(C) /\ Cardinality(B) \in Nat /\ Cardinality(C) \in Nat
        /\ B \subseteq (o + 1)..k
    BY BreaksAreFinite
  <2>2. B \subseteq C
    BY DEF Breaks
  <2> QED
    BY <2>1, <2>2
<1> HIDE DEF B, C
<1>3. CASE B = C
  <2>1. B # {} => Max(B) \in Nat
    BY <1>2, TheGreatest
  <2>2. (IF B = {} THEN k - o ELSE k - Max(B)) # (IF C = {} THEN l - o ELSE l - Max(C))
    BY <1>3, <2>1
  <2> QED
    BY <1>1, <2>2
<1>4. CASE B # C
  <2>1. Cardinality(B) # Cardinality(C)
    BY <1>2, <1>4, FS_Subset
  <2>2. 1 + Cardinality(B) # 1 + Cardinality(C)
    BY <1>2, <2>1
  <2> QED
    BY <1>1, <2>2
<1> QED
  BY <1>3, <1>4

-----------------------------------------------------------------------------
(* The automaton *)

\* Every row leads to a state, and only one character opens a procedure.
LEMMA RowsLeadToStates ==
    /\ \A r \in Rows : r[3] \in ScanStates
    /\ \A r \in Rows : r[3] = "openbracest" => r[2] = {"openbrace"}
<1>1. \A r \in Rows : r[3] \in ScanStates
  BY DEF ScanStates
<1>2. \A r \in StartRows : r[3] = "openbracest" => r[2] = {"openbrace"}
  BY DEF StartRows
<1>3. \A r \in SignRows \cup StringRows : r[3] # "openbracest"
  BY DEF SignRows, StringRows
<1>4. \A r \in NumberRows \cup NameRows : r[3] # "openbracest"
  BY DEF NumberRows, NameRows
<1>5. \A r \in LineCommentRows \cup LiteralRows \cup CommentRows : r[3] # "openbracest"
  BY DEF LineCommentRows, LiteralRows, CommentRows
<1> QED
  BY <1>1, <1>2, <1>3, <1>4, <1>5 DEF Rows

LEMMA CodesOfCharacters ==
    /\ "EOF" \in Chars
    /\ \A c \in Chars : code(c) \in Codes /\ c \in ClassOf[code(c)]
<1>1. "eof" \in Codes /\ "EOF" \in ClassOf["eof"]
  BY DEF Codes, ClassOf
<1>2. ASSUME NEW c \in Chars PROVE code(c) \in Codes /\ c \in ClassOf[code(c)]
  <2>1. \E k \in Codes : c \in ClassOf[k]
    BY DEF Chars
  <2> QED
    BY <2>1 DEF code
<1> QED
  BY <1>1, <1>2 DEF Chars

\* From every state, on every character, the table leads to a state; to the
\* beginning of a procedure on a brace.
LEMMA TableLeadsToStates ==
    ASSUME NEW q \in ScanStates, NEW c \in Chars
    PROVE  /\ trans[q][code(c)] \in ScanStates
           /\ trans[q][code(c)] = "openbracest" => c = "{"
<1> DEFINE hits == Hits(q, code(c))
           taken == CHOOSE r \in hits : TRUE
<1>1. code(c) \in Codes /\ c \in ClassOf[code(c)]
  BY CodesOfCharacters
<1>2. trans[q][code(c)] = IF hits = {} THEN "error" ELSE taken[3]
  BY <1>1 DEF trans
<1>3. hits # {} => taken \in hits
  <2> HIDE DEF hits
  <2> QED
    OBVIOUS
<1>4. CASE hits = {}
  BY <1>2, <1>4 DEF ScanStates
<1>5. CASE hits # {}
  <2>1. taken \in Rows /\ code(c) \in taken[2]
    BY <1>3, <1>5 DEF Hits
  <2>2. ASSUME taken[3] = "openbracest" PROVE c = "{"
    <3>1. code(c) = "openbrace"
      BY <2>1, <2>2, RowsLeadToStates
    <3>2. ClassOf["openbrace"] = {"{"}
      BY DEF ClassOf
    <3> QED
      BY <1>1, <3>1, <3>2
  <2> QED
    BY <1>2, <1>5, <2>1, <2>2, RowsLeadToStates
<1> QED
  BY <1>4, <1>5

LEMMA SettledStates == \A q \in DOMAIN Settled : Settled[q] \in ScanStates
<1>1. <<{"start"}, Letters \cup {"asterisk", "expntl"}, "alphast">> \in Rows
  BY DEF StartRows, Rows
<1>2. <<{"backslashst"}, {"newline"}, "newlinest">> \in Rows
  BY DEF StringRows, Rows
<1>3. /\ <<{"nullst", "decpointst", "fracdgtst"}, {"expntl"}, "expntlst">> \in Rows
      /\ <<{"decpointst", "fracdgtst"}, Digits, "fracdgtst">> \in Rows
  BY DEF NumberRows, Rows
<1>4. <<{"startstringst", "stringst"}, {"backslash"}, "backslashst">> \in Rows
  BY DEF StringRows, Rows
<1>5. {"alphast", "expntlst", "fracdgtst", "stringst"} \subseteq ScanStates
  <2>1. \A r \in Rows : r[1] \subseteq ScanStates /\ r[3] \in ScanStates
    BY DEF ScanStates
  <2> QED
    BY <1>1, <1>3, <1>4, <2>1
<1> QED
  BY <1>5 DEF Settled

LEMMA StartIsAState == "start" \in ScanStates
<1>1. <<{"start"}, {"minus"}, "minusst">> \in Rows
  BY DEF StartRows, Rows
<1> QED
  BY <1>1 DEF ScanStates

-----------------------------------------------------------------------------
(* The invariant *)

Legible == Chars \ {"EOF"}
SoundStream(st) ==
    /\ DOMAIN st = {"text", "at", "ended", "bad", "start", "popped"}
    /\ st.text \in Seq(Legible) /\ st.at \in Nat /\ st.start \in Nat
    /\ st.at <= Len(st.text) /\ st.start <= Len(st.text)
SoundScan(s) ==
    /\ DOMAIN s = {"state", "s", "sgc", "parenth", "from", "clean"}
    /\ s.state \in ScanStates /\ s.parenth \in Nat
TokenList(w) == \E S : w \in Seq(S) /\ \A t \in S : IsToken(t)
SoundCall(c) ==
    /\ DOMAIN c = {"phase", "op", "t", "ok", "symbols"}
    /\ c.phase \in {"idle", "scan", "parse", "answer"} /\ c.ok \in BOOLEAN
    /\ IsToken(c.t)
    /\ TokenList(c.symbols)

\* What is open has its position, and only readToken opens anything.
SoundNesting(c, stk, pos) ==
    /\ \E S : stk \in Seq(S)
    /\ pos \in Seq(Nat \X Nat)
    /\ Len(stk) = Len(pos)
    /\ c.phase \in {"idle", "answer"} => stk = <<>>
    /\ c.phase # "idle" /\ c.op # "readToken" => stk = <<>>
    /\ c.phase = "parse" => c.op = "readToken"

IsBrace(x) == x = "{"
\* The positions are those of braces up to the k-th character.
Braces(st, o, pos, k) ==
    \A i \in DOMAIN pos : \E b \in (o + 1)..k : IsBrace(st.text[b]) /\ pos[i] = PositionOf(st.text, o, b)
Distinct(pos) == \A i, j \in DOMAIN pos : i # j => pos[i] # pos[j]
\* The position is right as long as no end of the stream has been read.
Stands(st, o, l, k) == l = LineOf(st.text, o, st.at) /\ k = ColumnOf(st.text, o, st.at)
Placed(st, o, l, k) == ~st.bad /\ (st.at < Len(st.text) \/ ~st.ended) => Stands(st, o, l, k)
\* The brace that has just been read is the last one, and the position is its.
AtBrace(st, o, l, k, pos) ==
    /\ o < st.at /\ IsBrace(st.text[st.at]) /\ Stands(st, o, l, k)
    /\ Braces(st, o, pos, st.at - 1)
Beginning(c) == c.phase = "parse" /\ c.t = SymbolToken("BeginProcedure")
Counted(st, o, l, k, pos, c) ==
    /\ o <= st.at
    /\ Placed(st, o, l, k)
    /\ Braces(st, o, pos, st.at) /\ Distinct(pos)
    /\ Beginning(c) => AtBrace(st, o, l, k, pos)

Types ==
    /\ input \in Inputs
    /\ DOMAIN streams = input.streams /\ \A x \in input.streams : SoundStream(streams[x])
    /\ streams = [x \in input.streams |-> streams[x]]
    /\ in \in input.streams \cup {"cin"}
    /\ line \in Nat \ {0} /\ col \in Nat /\ origin \in Nat
IInv ==
    /\ Types
    /\ SoundScan(scan) /\ SoundCall(call) /\ SoundNesting(call, stack, positions)
    /\ call.phase # "idle" => in \in input.streams
    /\ in \in input.streams => Counted(streams[in], origin, line, col, positions, call)

LEMMA InvariantSaysAll ==
    ASSUME IInv PROVE TypeOK /\ PositionIsCounted
<1>1. TypeOK
  <2>1. ASSUME NEW x \in DOMAIN streams
        PROVE  streams[x].text \in Seq(Chars) /\ streams[x].at \in 0..Len(streams[x].text)
    <3>1. SoundStream(streams[x])
      BY DEF IInv, Types
    <3>2. streams[x].text \in Seq(Chars)
      BY <3>1 DEF SoundStream, Legible
    <3>3. streams[x].at \in 0..Len(streams[x].text)
      BY <3>1 DEF SoundStream
    <3> QED
      BY <3>2, <3>3
  <2>2. \A i \in DOMAIN call.symbols : IsToken(call.symbols[i])
    BY DEF IInv, SoundCall, TokenList
  <2> QED
    BY <2>1, <2>2 DEF IInv, Types, SoundScan, SoundCall, SoundNesting, TypeOK
<1>2. PositionIsCounted
  <2> SUFFICES ASSUME in \in DOMAIN streams
               PROVE  LET st == streams[in]
                          Those == {i \in (origin + 1)..st.at : st.text[i] = "{"}
                      IN  /\ ~st.ended /\ ~st.bad => <<line, col>> = PositionOf(st.text, origin, st.at)
                          /\ \A i \in DOMAIN positions : \E k \in Those : positions[i] = PositionOf(st.text, origin, k)
                          /\ Distinct(positions)
    BY DEF PositionIsCounted, Distinct
  <2>1. Counted(streams[in], origin, line, col, positions, call)
    BY DEF IInv, Types
  <2> QED
    BY <2>1 DEF Counted, Placed, Stands, PositionOf, Braces, IsBrace
<1> QED
  BY <1>1, <1>2

\* What the reader makes are tokens, and only a brace makes the symbol of one.
LEMMA TokensAreTokens ==
    /\ IsToken(NoToken)
    /\ \A n : IsToken(SymbolToken(n)) /\ IsToken(NameToken(n)) /\ IsToken(Procedure(n))
    /\ \A q, w, s : IsToken(Made(q, w, s))
    /\ \A q, w, s : Final(q) /\ Made(q, w, s) = SymbolToken("BeginProcedure") => q = "openbracest"
<1>1. /\ IsToken(NoToken)
      /\ \A n : IsToken(SymbolToken(n)) /\ IsToken(NameToken(n)) /\ IsToken(Procedure(n))
  BY DEF IsToken, NoToken, SymbolToken, NameToken, Procedure, Token
<1>2. ASSUME NEW q, NEW w, NEW s PROVE IsToken(Made(q, w, s))
  BY <1>1 DEF Made, Token, IsToken
<1>3. ASSUME NEW q, NEW w, NEW s, Final(q), Made(q, w, s) = SymbolToken("BeginProcedure")
      PROVE  q = "openbracest"
  <2>1. Made(q, w, s).type = "symbol" /\ Made(q, w, s).text[1] = "BeginProcedure"
    BY <1>3 DEF SymbolToken, Token
  <2>2. q \in DOMAIN SymbolOf
    BY <1>3, <2>1 DEF Made, Token, NameToken, Final, Ahead
  <2>3. Made(q, w, s) = SymbolToken(SymbolOf[q])
    BY <2>2 DEF Made, SymbolOf
  <2>4. SymbolOf[q] = "BeginProcedure"
    BY <2>1, <2>3 DEF SymbolToken, Token
  <2> QED
    BY <2>2, <2>4 DEF SymbolOf
<1> QED
  BY <1>1, <1>2, <1>3

LEMMA TokenLists ==
    /\ TokenList(<<>>)
    /\ \A w, t : TokenList(w) /\ IsToken(t) => TokenList(Append(w, t))
<1>1. TokenList(<<>>)
  <2>1. PICK S : S = {}
    OBVIOUS
  <2>2. <<>> \in Seq(S) /\ \A t \in S : IsToken(t)
    BY <2>1
  <2> QED
    BY <2>2 DEF TokenList
<1>2. ASSUME NEW w, NEW t, TokenList(w), IsToken(t) PROVE TokenList(Append(w, t))
  <2>1. PICK S : w \in Seq(S) /\ \A x \in S : IsToken(x)
    BY <1>2 DEF TokenList
  <2>2. w \in Seq(S \cup {t}) /\ \A x \in S \cup {t} : IsToken(x)
    BY <1>2, <2>1
  <2>3. Append(w, t) \in Seq(S \cup {t})
    BY <2>2
  <2> QED
    BY <2>2, <2>3 DEF TokenList
<1> QED
  BY <1>1, <1>2

LEMMA InitIsOk == ASSUME Init PROVE IInv
<1>1. SoundScan(scan) /\ SoundCall(call) /\ SoundNesting(call, stack, positions) /\ call.phase = "idle"
  <2>1. SoundScan(scan)
    BY StartIsAState DEF Init, SoundScan, NewScan
  <2>2. SoundCall(call) /\ call.phase = "idle"
    <3>1. TokenList(NewCall.symbols)
      BY TokenLists DEF NewCall
    <3>2. SoundCall(NewCall)
      BY <3>1, TokensAreTokens DEF SoundCall, NewCall
    <3> QED
      BY <3>2 DEF Init, NewCall
  <2>3. SoundNesting(call, stack, positions)
    BY <2>2 DEF Init, SoundNesting
  <2> QED
    BY <2>1, <2>2, <2>3
<1>2. SoundStream(NewStream)
  BY DEF SoundStream, NewStream
<1>3. Types
  BY <1>2 DEF Init, Types
<1>4. in \in input.streams => Counted(streams[in], origin, line, col, positions, call)
  <2> SUFFICES ASSUME in \in input.streams PROVE Counted(NewStream, 0, 1, 0, <<>>, call)
    BY DEF Init
  <2>1. LineOf(NewStream.text, 0, 0) = 1 /\ ColumnOf(NewStream.text, 0, 0) = 0
    BY PositionOfOrigin
  <2>2. Placed(NewStream, 0, 1, 0)
    BY <2>1 DEF Placed, Stands, NewStream
  <2>3. Braces(NewStream, 0, <<>>, NewStream.at) /\ Distinct(<<>>) /\ 0 <= NewStream.at /\ ~Beginning(call)
    BY <1>1 DEF Braces, Distinct, NewStream, Beginning
  <2> QED
    BY <2>2, <2>3 DEF Counted
<1> QED
  BY <1>1, <1>3, <1>4 DEF IInv

-----------------------------------------------------------------------------
(* Characters arrive *)

\* The next character is taken, of those that were there or a new one.
Consumed(st, nu, c) ==
    /\ c # "EOF" /\ nu.at = st.at + 1 /\ nu.text[nu.at] = c
    /\ Len(st.text) <= Len(nu.text) /\ \A i \in 1..Len(st.text) : nu.text[i] = st.text[i]
    /\ nu.ended = st.ended /\ nu.bad = st.bad
    /\ st.at < Len(st.text) \/ ~st.ended
\* The end is read, or reading fails.
Exhausted(st, nu, c) ==
    /\ c = "EOF" /\ nu.text = st.text /\ nu.at = st.at
    /\ (st.at = Len(st.text) /\ nu.ended) \/ nu.bad

\* What arrives, case by case.
LEMMA ArrivalCases ==
    ASSUME NEW st, st = streams[in], NEW a \in Arrivals
    PROVE  /\ st.at < Len(st.text) => a.c = st.text[st.at + 1] /\ a.st = [st EXCEPT !.at = @ + 1]
           /\ ~(st.at < Len(st.text)) /\ st.ended => a.c = "EOF" /\ a.st = st
           /\ ~(st.at < Len(st.text)) /\ ~st.ended =>
                \/ \E x \in input.chars : a.c = x /\ a.st = [st EXCEPT !.text = Append(@, x), !.at = @ + 1]
                \/ a.c = "EOF" /\ a.st = [st EXCEPT !.ended = TRUE]
                \/ a.c = "EOF" /\ a.st = [st EXCEPT !.bad = TRUE]
<1> DEFINE Arrived(x, y) == [c |-> x, st |-> y]
           Longer(x) == [st EXCEPT !.text = Append(@, x), !.at = @ + 1]
           Further == [st EXCEPT !.at = @ + 1]
           AtItsEnd == [st EXCEPT !.ended = TRUE]
           Broken == [st EXCEPT !.bad = TRUE]
<1>1. \A x, y : Arrived(x, y).c = x /\ Arrived(x, y).st = y
  OBVIOUS
<1>2. CASE st.at < Len(st.text)
  <2>1. a = Arrived(st.text[st.at + 1], Further)
    BY <1>2 DEF Arrivals
  <2> HIDE DEF Arrived, Further
  <2>2. a.c = st.text[st.at + 1] /\ a.st = Further
    BY <1>1, <2>1
  <2> QED
    BY <1>2, <2>2 DEF Further
<1>3. CASE ~(st.at < Len(st.text)) /\ st.ended
  <2>1. a = Arrived("EOF", st)
    BY <1>3 DEF Arrivals
  <2> HIDE DEF Arrived
  <2> QED
    BY <1>1, <1>3, <2>1
<1>4. CASE ~(st.at < Len(st.text)) /\ ~st.ended
  <2>1. \/ \E x \in (IF Len(st.text) < input.length THEN input.chars ELSE {}) : a = Arrived(x, Longer(x))
        \/ a = Arrived("EOF", AtItsEnd)
        \/ a = Arrived("EOF", Broken)
    BY <1>4 DEF Arrivals
  <2> HIDE DEF Arrived, Longer, AtItsEnd, Broken
  <2>2. \/ \E x \in input.chars : a.c = x /\ a.st = Longer(x)
        \/ a.c = "EOF" /\ a.st = AtItsEnd
        \/ a.c = "EOF" /\ a.st = Broken
    BY <1>1, <2>1
  <2> QED
    BY <1>4, <2>2 DEF Longer, AtItsEnd, Broken
<1> QED
  BY <1>2, <1>3, <1>4

LEMMA ArrivalsAreSound ==
    ASSUME IInv, Scanning, NEW a \in Arrivals
    PROVE  /\ in \in input.streams /\ a.c \in Chars /\ SoundStream(a.st)
           /\ Consumed(streams[in], a.st, a.c) \/ Exhausted(streams[in], a.st, a.c)
<1> DEFINE st == streams[in]
<1>1. /\ in \in input.streams /\ SoundStream(st) /\ ~st.bad
      /\ st.text \in Seq(Legible) /\ st.at \in Nat /\ Len(st.text) \in Nat /\ st.at <= Len(st.text)
  <2>1. in \in input.streams /\ SoundStream(st) /\ ~st.bad
    BY DEF IInv, Types, Scanning
  <2> QED
    BY <2>1 DEF SoundStream
<1>2. input.chars \subseteq Legible
  BY CharsAssumption DEF IInv, Types, Legible
<1>3. "EOF" \in Chars /\ "EOF" \notin Legible /\ Legible \subseteq Chars
  BY CodesOfCharacters DEF Legible
<1> HIDE DEF st
<1>4. CASE st.at < Len(st.text)
  <2>1. a.c = st.text[st.at + 1] /\ a.st = [st EXCEPT !.at = @ + 1]
    BY <1>4, ArrivalCases DEF st
  <2>2. st.at + 1 \in 1..Len(st.text)
    BY <1>1, <1>4
  <2>3. a.c \in Legible
    BY <1>1, <2>1, <2>2
  <2>4. SoundStream(a.st) /\ a.st.text = st.text /\ a.st.at = st.at + 1
        /\ a.st.ended = st.ended /\ a.st.bad = st.bad
    BY <1>1, <2>1, <2>2 DEF SoundStream
  <2>5. Consumed(st, a.st, a.c)
    BY <1>1, <1>3, <1>4, <2>1, <2>3, <2>4 DEF Consumed
  <2> QED
    BY <1>1, <1>3, <2>3, <2>4, <2>5 DEF st
<1>5. CASE st.at >= Len(st.text) /\ a.c = "EOF"
  <2>1. ~(st.at < Len(st.text)) /\ st.at = Len(st.text)
    BY <1>1, <1>5
  <2>2. /\ st.ended => a.c = "EOF" /\ a.st = st
        /\ ~st.ended => \/ \E x \in input.chars : a.c = x /\ a.st = [st EXCEPT !.text = Append(@, x), !.at = @ + 1]
                        \/ a.c = "EOF" /\ a.st = [st EXCEPT !.ended = TRUE]
                        \/ a.c = "EOF" /\ a.st = [st EXCEPT !.bad = TRUE]
    BY <2>1, ArrivalCases DEF st
  <2>3. ~(\E x \in input.chars : a.c = x)
    BY <1>2, <1>3, <1>5
  <2>4. SoundStream(a.st) /\ Exhausted(st, a.st, a.c)
    BY <1>1, <1>5, <2>1, <2>2, <2>3 DEF SoundStream, Exhausted
  <2> QED
    BY <1>1, <1>3, <1>5, <2>4 DEF st
<1>6. CASE st.at >= Len(st.text) /\ a.c # "EOF"
  <2>1. ~(st.at < Len(st.text)) /\ st.at = Len(st.text)
    BY <1>1, <1>6
  <2>2. /\ ~st.ended
        /\ \E x \in input.chars : a.c = x /\ a.st = [st EXCEPT !.text = Append(@, x), !.at = @ + 1]
    BY <1>6, <2>1, ArrivalCases DEF st
  <2>3. a.c \in Legible /\ a.st = [st EXCEPT !.text = Append(st.text, a.c), !.at = st.at + 1]
    BY <1>2, <2>2
  <2>4. /\ Append(st.text, a.c) \in Seq(Legible) /\ Len(Append(st.text, a.c)) = Len(st.text) + 1
        /\ Append(st.text, a.c)[Len(st.text) + 1] = a.c
        /\ \A i \in 1..Len(st.text) : Append(st.text, a.c)[i] = st.text[i]
    BY <1>1, <2>3, AppendElements
  <2>5. /\ SoundStream(a.st) /\ a.st.text = Append(st.text, a.c) /\ a.st.at = st.at + 1
        /\ a.st.ended = st.ended /\ a.st.bad = st.bad
    BY <1>1, <2>1, <2>3, <2>4 DEF SoundStream
  <2>6. Consumed(st, a.st, a.c)
    BY <1>1, <1>6, <2>1, <2>2, <2>4, <2>5 DEF Consumed
  <2> QED
    BY <1>1, <1>3, <2>3, <2>5, <2>6 DEF st
<1> QED
  BY <1>1, <1>4, <1>5, <1>6

\* A character more leaves the positions what they were, and moves the
\* present one as a line or a column does.
LEMMA CountGoesOn ==
    ASSUME NEW w, NEW v, NEW o \in Nat, NEW k \in Nat, NEW l \in Nat, o <= k, l = k + 1,
           \A i \in 1..k : v[i] = w[i]
    PROVE  /\ LineOf(v, o, k) = LineOf(w, o, k) /\ ColumnOf(v, o, k) = ColumnOf(w, o, k)
           /\ v[l] = "LF" => LineOf(v, o, l) = LineOf(w, o, k) + 1 /\ ColumnOf(v, o, l) = 0
           /\ v[l] # "LF" => /\ LineOf(v, o, l) = LineOf(w, o, k)
                            /\ ColumnOf(v, o, l) = ColumnOf(w, o, k) + 1
           /\ \A b \in (o + 1)..k : v[b] = w[b] /\ PositionOf(v, o, b) = PositionOf(w, o, b)
<1>1. LineOf(v, o, k) = LineOf(w, o, k) /\ ColumnOf(v, o, k) = ColumnOf(w, o, k)
  <2>1. \A i \in (o + 1)..k : v[i] = w[i]
    OBVIOUS
  <2> QED
    BY <2>1, PositionOfPrefix
<1>2. ASSUME NEW b \in (o + 1)..k
      PROVE  v[b] = w[b] /\ PositionOf(v, o, b) = PositionOf(w, o, b)
  <2>1. b \in Nat /\ \A i \in (o + 1)..b : v[i] = w[i]
    OBVIOUS
  <2>2. LineOf(v, o, b) = LineOf(w, o, b) /\ ColumnOf(v, o, b) = ColumnOf(w, o, b)
    BY <2>1, PositionOfPrefix
  <2> QED
    BY <2>2 DEF PositionOf
<1>3. /\ v[l] = "LF" => LineOf(v, o, l) = LineOf(v, o, k) + 1 /\ ColumnOf(v, o, l) = 0
      /\ v[l] # "LF" => /\ LineOf(v, o, l) = LineOf(v, o, k)
                       /\ ColumnOf(v, o, l) = ColumnOf(v, o, k) + 1
  BY PositionOfNext
<1> QED
  BY <1>1, <1>2, <1>3

LEMMA PositionMoves ==
    ASSUME NEW st, NEW nu, NEW c, NEW o \in Nat, NEW l, NEW k, NEW pos, NEW cl,
           SoundStream(st), SoundStream(nu), Consumed(st, nu, c), ~st.bad,
           Counted(st, o, l, k, pos, cl)
    PROVE  /\ c = "LF" => Stands(nu, o, l + 1, 0)
           /\ c # "LF" => Stands(nu, o, l, k + 1)
           /\ l = LineOf(nu.text, o, st.at) /\ k = ColumnOf(nu.text, o, st.at)
           /\ Braces(nu, o, pos, st.at)
<1>0. st.at \in Nat /\ nu.at \in Nat
  BY DEF SoundStream
<1>1. PICK w, v, i, j : w = st.text /\ v = nu.text /\ i = st.at /\ j = nu.at
  OBVIOUS
<1> i \in Nat /\ j \in Nat
  BY <1>0, <1>1
<1>2. /\ j = i + 1 /\ o <= i /\ v[j] = c
      /\ \A x \in 1..i : v[x] = w[x]
  <2>1. i <= Len(w) /\ Len(w) \in Nat
    BY <1>1 DEF SoundStream
  <2>2. j = i + 1 /\ v[j] = c /\ \A x \in 1..Len(w) : v[x] = w[x]
    BY <1>1 DEF Consumed
  <2>3. o <= i
    BY <1>1 DEF Counted
  <2>4. \A x \in 1..i : x \in 1..Len(w)
    BY <2>1
  <2> QED
    BY <2>2, <2>3, <2>4
<1>3. l = LineOf(w, o, i) /\ k = ColumnOf(w, o, i)
  BY <1>1 DEF Consumed, Counted, Placed, Stands
<1>4. /\ LineOf(v, o, i) = LineOf(w, o, i) /\ ColumnOf(v, o, i) = ColumnOf(w, o, i)
      /\ v[j] = "LF" => LineOf(v, o, j) = LineOf(w, o, i) + 1 /\ ColumnOf(v, o, j) = 0
      /\ v[j] # "LF" => /\ LineOf(v, o, j) = LineOf(w, o, i)
                       /\ ColumnOf(v, o, j) = ColumnOf(w, o, i) + 1
      /\ \A b \in (o + 1)..i : v[b] = w[b] /\ PositionOf(v, o, b) = PositionOf(w, o, b)
  BY <1>2, CountGoesOn
<1>5. Braces(nu, o, pos, st.at)
  <2>1. Braces(st, o, pos, st.at)
    BY DEF Counted
  <2> QED
    BY <1>1, <1>4, <2>1 DEF Braces
<1>6. (c = "LF" => Stands(nu, o, l + 1, 0)) /\ (c # "LF" => Stands(nu, o, l, k + 1))
  BY <1>1, <1>2, <1>3, <1>4 DEF Stands
<1> QED
  BY <1>1, <1>3, <1>4, <1>5, <1>6

\* The stream after the character, with the new position.
LEMMA CountedAfterwards ==
    ASSUME NEW st, NEW nu, NEW c, NEW o \in Nat, NEW l, NEW k, NEW m, NEW n, NEW pos, NEW cl, NEW cm,
           SoundStream(st), SoundStream(nu), ~st.bad,
           Consumed(st, nu, c) \/ Exhausted(st, nu, c),
           Counted(st, o, l, k, pos, cl),
           c = "LF" => m = l + 1 /\ n = 0,
           c # "LF" /\ c # "EOF" => m = l /\ n = k + 1,
           Beginning(cm) => IsBrace(c)
    PROVE  Counted(nu, o, m, n, pos, cm)
<1>1. st.at \in Nat /\ nu.at \in Nat /\ o <= st.at /\ Len(st.text) \in Nat /\ Distinct(pos)
  BY DEF SoundStream, Counted
<1>2. CASE Consumed(st, nu, c)
  <2>1. Stands(nu, o, m, n) /\ Braces(nu, o, pos, st.at)
    <3>1. (c = "LF" => Stands(nu, o, l + 1, 0)) /\ (c # "LF" => Stands(nu, o, l, k + 1))
          /\ Braces(nu, o, pos, st.at)
      BY <1>2, PositionMoves
    <3>2. c # "EOF"
      BY <1>2 DEF Consumed
    <3> QED
      BY <3>1, <3>2
  <2>2. nu.at = st.at + 1 /\ nu.text[nu.at] = c
    BY <1>2 DEF Consumed
  <2>3. Braces(nu, o, pos, nu.at)
    <3>1. (o + 1)..st.at \subseteq (o + 1)..nu.at
      BY <1>1, <2>2
    <3> QED
      BY <2>1, <3>1 DEF Braces
  <2>4. Beginning(cm) => AtBrace(nu, o, m, n, pos)
    <3>1. nu.at - 1 = st.at /\ o < nu.at
      BY <1>1, <2>2
    <3> QED
      BY <2>1, <2>2, <3>1 DEF AtBrace
  <2> QED
    BY <1>1, <2>1, <2>2, <2>3, <2>4 DEF Counted, Placed
<1>3. CASE Exhausted(st, nu, c)
  <2>1. Braces(nu, o, pos, nu.at)
    BY <1>3 DEF Exhausted, Counted, Braces
  <2>2. Placed(nu, o, m, n)
    BY <1>1, <1>3 DEF Exhausted, Placed
  <2>3. ~Beginning(cm)
    BY <1>3 DEF Exhausted, IsBrace
  <2> QED
    BY <1>1, <1>3, <2>1, <2>2, <2>3 DEF Counted, Exhausted
<1> QED
  BY <1>2, <1>3

\* A character that goes back leaves everything where it was.
LEMMA CountedWhenPutBack ==
    ASSUME NEW st, NEW nu, NEW c, NEW o \in Nat, NEW l, NEW k, NEW pos, NEW cl, NEW cm,
           SoundStream(st), SoundStream(nu), ~st.bad, Consumed(st, nu, c),
           Counted(st, o, l, k, pos, cl), ~Beginning(cm)
    PROVE  /\ SoundStream([nu EXCEPT !.at = @ - 1])
           /\ Counted([nu EXCEPT !.at = @ - 1], o, l, k, pos, cm)
<1> DEFINE nb == [nu EXCEPT !.at = @ - 1]
<1>1. st.at \in Nat /\ nu.at = st.at + 1 /\ o <= st.at /\ Distinct(pos)
  BY DEF SoundStream, Counted, Consumed
<1>2. /\ DOMAIN nu = {"text", "at", "ended", "bad", "start", "popped"}
      /\ nu.text \in Seq(Legible) /\ nu.at \in Nat /\ nu.start \in Nat
      /\ nu.at <= Len(nu.text) /\ nu.start <= Len(nu.text) /\ Len(nu.text) \in Nat
  BY DEF SoundStream
<1>3. nb.at = st.at /\ nb.text = nu.text
  BY <1>1, <1>2
<1>4. SoundStream(nb)
  BY <1>1, <1>2, <1>3 DEF SoundStream
<1>5. l = LineOf(nu.text, o, st.at) /\ k = ColumnOf(nu.text, o, st.at) /\ Braces(nu, o, pos, st.at)
  BY PositionMoves
<1> HIDE DEF nb
<1>6. Braces(nb, o, pos, nb.at) /\ Placed(nb, o, l, k)
  BY <1>3, <1>5 DEF Braces, Placed, Stands
<1>7. Counted(nb, o, l, k, pos, cm)
  BY <1>1, <1>3, <1>6 DEF Counted
<1> QED
  BY <1>4, <1>7 DEF nb

-----------------------------------------------------------------------------
(* The steps of the scanner *)

LEMMA StreamTypes ==
    ASSUME Types, in \in input.streams, NEW nu, SoundStream(nu),
           streams' = [streams EXCEPT ![in] = nu], UNCHANGED <<input, in, origin>>,
           line' \in Nat \ {0}, col' \in Nat
    PROVE  Types' /\ streams'[in'] = nu
<1>1. in \in DOMAIN streams
  BY DEF Types
<1>2. DOMAIN streams' = input.streams /\ streams' = [x \in input.streams |-> streams'[x]]
  BY DEF Types
<1>3. \A x \in input.streams : streams'[x] = IF x = in THEN nu ELSE streams[x]
  BY DEF Types
<1> QED
  BY <1>2, <1>3 DEF Types

\* A character is taken for good.
LEMMA MovesOn ==
    ASSUME IInv, Scanning, NEW a \in Arrivals, Position(a.c, FALSE),
           streams' = [streams EXCEPT ![in] = a.st], UNCHANGED <<input, in, origin, positions>>,
           Beginning(call') => IsBrace(a.c)
    PROVE  Types' /\ Counted(streams'[in'], origin', line', col', positions', call')
<1>1. /\ in \in input.streams /\ SoundStream(a.st)
      /\ Consumed(streams[in], a.st, a.c) \/ Exhausted(streams[in], a.st, a.c)
  BY ArrivalsAreSound
<1>2. /\ SoundStream(streams[in]) /\ ~streams[in].bad /\ origin \in Nat
      /\ Counted(streams[in], origin, line, col, positions, call)
      /\ line \in Nat \ {0} /\ col \in Nat /\ Types
  BY <1>1 DEF IInv, Types, Scanning
<1>3. /\ a.c = "LF" => line' = line + 1 /\ col' = 0
      /\ a.c # "LF" => line' = line /\ col' = col + 1
      /\ line' \in Nat \ {0} /\ col' \in Nat
  BY <1>2 DEF Position
<1>4. Counted(a.st, origin, line', col', positions, call')
  BY <1>1, <1>2, <1>3, CountedAfterwards
<1>5. Types' /\ streams'[in'] = a.st
  BY <1>1, <1>2, <1>3, StreamTypes
<1> QED
  BY <1>4, <1>5

\* A character goes back.
LEMMA MovesBack ==
    ASSUME IInv, Scanning, NEW a \in Arrivals, a.c \notin {"LF", "EOF"}, Position(a.c, TRUE),
           streams' = [streams EXCEPT ![in] = [a.st EXCEPT !.at = @ - 1]],
           UNCHANGED <<input, in, origin, positions>>, ~Beginning(call')
    PROVE  Types' /\ Counted(streams'[in'], origin', line', col', positions', call')
<1>1. /\ in \in input.streams /\ SoundStream(a.st)
      /\ Consumed(streams[in], a.st, a.c)
  BY ArrivalsAreSound DEF Exhausted
<1>2. /\ SoundStream(streams[in]) /\ ~streams[in].bad /\ origin \in Nat
      /\ Counted(streams[in], origin, line, col, positions, call)
      /\ line \in Nat \ {0} /\ col \in Nat /\ Types
  BY <1>1 DEF IInv, Types, Scanning
<1>3. line' = line /\ col' = col
  BY DEF Position
<1>4. PICK nu : nu = [a.st EXCEPT !.at = @ - 1]
  OBVIOUS
<1>5. SoundStream(nu) /\ Counted(nu, origin, line, col, positions, call')
  BY <1>1, <1>2, <1>4, CountedWhenPutBack
<1>6. Types' /\ streams'[in'] = nu
  BY <1>1, <1>2, <1>3, <1>4, <1>5, StreamTypes
<1> QED
  BY <1>3, <1>5, <1>6

LEMMA NewScanIsSound == \A w : SoundScan(NewScan(w))
BY StartIsAState DEF SoundScan, NewScan

LEMMA AdvanceStep ==
    ASSUME IInv, Scanning, NEW a \in Arrivals, Advance(a, Taken(a)) PROVE IInv'
<1> DEFINE q == Taken(a)
<1>1. call' = call /\ ~Beginning(call) /\ UNCHANGED <<input, in, origin, stack, positions>>
  BY DEF Advance, parser, Scanning, Beginning
<1>2. Types' /\ Counted(streams'[in'], origin', line', col', positions', call')
  <2>1. Position(a.c, FALSE) /\ streams' = [streams EXCEPT ![in] = a.st]
    BY DEF Advance
  <2> QED
    BY <1>1, <2>1, MovesOn
<1>3. SoundScan(scan')
  <2>1. a.c \in Chars
    BY ArrivalsAreSound
  <2>2. SoundScan(scan)
    BY DEF IInv
  <2>3. q \in ScanStates
    BY <2>1, <2>2, TableLeadsToStates DEF SoundScan, Taken
  <2> HIDE DEF q
  <2>4. ~(q = "closeparst" /\ scan.parenth = 0)
    BY DEF Advance, Final, q
  <2>5. scan' = [scan EXCEPT
          !.state = IF q \in DOMAIN Settled THEN Settled[q] ELSE q,
          !.s = @ \o Spelled(q, a.c),
          !.sgc = IF q \in {"minusst", "plusst"} THEN a.c ELSE @,
          !.parenth = CASE q = "openparst" -> @ + 1 [] q = "closeparst" -> @ - 1 [] OTHER -> @,
          !.from = IF scan.state = "start" THEN streams[in].at ELSE @]
    BY DEF Advance, q
  <2>6. /\ DOMAIN scan' = DOMAIN scan
        /\ scan'.state = IF q \in DOMAIN Settled THEN Settled[q] ELSE q
        /\ scan'.parenth = IF q = "openparst" THEN scan.parenth + 1
                           ELSE IF q = "closeparst" THEN scan.parenth - 1 ELSE scan.parenth
    BY <2>2, <2>5 DEF SoundScan
  <2>7. scan'.state \in ScanStates
    BY <2>3, <2>6, SettledStates
  <2>8. scan'.parenth \in Nat
    BY <2>2, <2>4, <2>6 DEF SoundScan
  <2> QED
    BY <2>2, <2>6, <2>7, <2>8 DEF SoundScan
<1> QED
  BY <1>1, <1>2, <1>3 DEF IInv

\* Only a brace makes the symbol that opens a procedure.
LEMMA OnlyABraceOpens ==
    ASSUME IInv, Scanning, NEW a \in Arrivals, Final(Taken(a)), NEW w, NEW s,
           Made(Taken(a), w, s) = SymbolToken("BeginProcedure")
    PROVE  IsBrace(a.c) /\ Taken(a) \notin Ahead
<1>1. Taken(a) = "openbracest"
  BY TokensAreTokens
<1>2. a.c \in Chars /\ scan.state \in ScanStates
  BY ArrivalsAreSound DEF IInv, SoundScan
<1>3. a.c = "{"
  BY <1>1, <1>2, TableLeadsToStates DEF Taken
<1> QED
  BY <1>1, <1>3 DEF IsBrace, Ahead

LEMMA AcceptStep ==
    ASSUME IInv, Scanning, NEW a \in Arrivals, Accept(a, Taken(a)) PROVE IInv'
<1> DEFINE q == Taken(a)
           t == Made(q, ds, scan.s \o Spelled(q, a.c))
           back == q \in Ahead /\ a.c \notin {"LF", "EOF"}
<1>1. UNCHANGED <<input, in, origin, stack, positions>> /\ Final(q)
  BY DEF Accept, parser
<1>2. call' = [call EXCEPT !.phase = IF call.op = "readToken" THEN "parse" ELSE Returned,
                           !.t = t, !.symbols = Append(@, t)]
  BY DEF Accept
<1>3. IsToken(t)
  BY TokensAreTokens
<1>4. Beginning(call') => IsBrace(a.c) /\ ~back
  <2>1. SUFFICES ASSUME call'.t = SymbolToken("BeginProcedure") PROVE IsBrace(a.c) /\ ~back
    BY DEF Beginning
  <2>2. call'.t = t
    BY <1>2 DEF IInv, SoundCall
  <2> QED
    BY <1>1, <2>1, <2>2, OnlyABraceOpens
<1>5. Types' /\ Counted(streams'[in'], origin', line', col', positions', call')
  <2>1. CASE back
    <3>1. /\ Position(a.c, TRUE) /\ a.c \notin {"LF", "EOF"}
          /\ streams' = [streams EXCEPT ![in] = [a.st EXCEPT !.at = @ - 1]]
      BY <2>1 DEF Accept, Position
    <3> QED
      BY <1>1, <1>4, <2>1, <3>1, MovesBack
  <2>2. CASE ~back
    <3>1. Position(a.c, FALSE) /\ streams' = [streams EXCEPT ![in] = a.st]
      BY <2>2 DEF Accept, Position
    <3> QED
      BY <1>1, <1>4, <3>1, MovesOn
  <2> QED
    BY <2>1, <2>2
<1>6. SoundScan(scan')
  BY NewScanIsSound DEF Accept
<1> HIDE DEF q, t, back
<1>7. /\ DOMAIN call' = DOMAIN call /\ call'.t = t /\ call'.ok = call.ok /\ call'.op = call.op
      /\ call'.symbols = Append(call.symbols, t)
      /\ call'.phase = IF call.op = "readToken" THEN "parse" ELSE Returned
  BY <1>2 DEF IInv, SoundCall
<1>8. SoundCall(call')
  <2>1. TokenList(call'.symbols)
    BY <1>3, <1>7, TokenLists DEF IInv, SoundCall
  <2> QED
    BY <1>3, <1>7, <2>1 DEF IInv, SoundCall, Returned
<1>9. SoundNesting(call', stack', positions')
  <2>1. SoundNesting(call, stack, positions) /\ call.phase = "scan"
    BY DEF IInv, Scanning
  <2> QED
    BY <1>1, <1>7, <2>1 DEF SoundNesting, Returned
<1>10. in' \in input'.streams
  BY <1>1 DEF IInv, Scanning
<1> QED
  BY <1>5, <1>6, <1>8, <1>9, <1>10 DEF IInv

\* A call that fails is the parser's to repeat, or is over.
LEMMA FailedCall ==
    ASSUME IInv, call.phase = "scan", Failed
    PROVE  /\ SoundScan(scan') /\ SoundCall(call') /\ SoundNesting(call', stack', positions')
           /\ ~Beginning(call') /\ in' \in input'.streams
           /\ UNCHANGED <<input, in, origin, positions>>
<1>1. SoundScan(scan') /\ UNCHANGED <<input, in, origin, stack, positions>>
  BY NewScanIsSound DEF Failed, parser
<1>2. SoundCall(call) /\ SoundNesting(call, stack, positions) /\ in \in input.streams
  BY DEF IInv
<1>3. CASE call.op = "readToken"
  BY <1>1, <1>2, <1>3 DEF Failed, Beginning
<1>4. CASE call.op # "readToken"
  <2>1. call' = [call EXCEPT !.phase = Returned, !.t = NoToken, !.ok = FALSE]
    BY <1>4 DEF Failed
  <2>2. /\ DOMAIN call' = DOMAIN call /\ call'.t = NoToken /\ call'.ok = FALSE /\ call'.op = call.op
        /\ call'.symbols = call.symbols /\ call'.phase = Returned
    BY <1>2, <2>1 DEF SoundCall
  <2>3. SoundCall(call') /\ ~Beginning(call')
    BY <1>2, <2>2, TokensAreTokens DEF SoundCall, Beginning, Returned
  <2>4. SoundNesting(call', stack', positions')
    BY <1>1, <1>2, <1>4, <2>2 DEF SoundNesting, Returned
  <2> QED
    BY <1>1, <1>2, <2>3, <2>4
<1> QED
  BY <1>3, <1>4

LEMMA RejectStep ==
    ASSUME IInv, Scanning, NEW a \in Arrivals, Reject(a, Taken(a)) PROVE IInv'
<1>1. /\ SoundScan(scan') /\ SoundCall(call') /\ SoundNesting(call', stack', positions')
      /\ ~Beginning(call') /\ in' \in input'.streams
      /\ UNCHANGED <<input, in, origin, positions>>
  BY FailedCall DEF Reject, Scanning
<1>2. Position(a.c, FALSE) /\ streams' = [streams EXCEPT ![in] = a.st]
  BY DEF Reject
<1>3. Types' /\ Counted(streams'[in'], origin', line', col', positions', call')
  BY <1>1, <1>2, MovesOn
<1> QED
  BY <1>1, <1>3 DEF IInv

LEMMA IOErrorStep == ASSUME IInv, IOError PROVE IInv'
<1>1. /\ SoundScan(scan') /\ SoundCall(call') /\ SoundNesting(call', stack', positions')
      /\ ~Beginning(call') /\ in' \in input'.streams
      /\ UNCHANGED <<input, in, origin, positions, streams, line, col>>
  BY FailedCall DEF IOError
<1>2. Types'
  BY <1>1 DEF IInv, Types
<1>3. Counted(streams[in], origin, line, col, positions, call)
  BY DEF IInv, IOError
<1>4. Counted(streams'[in'], origin', line', col', positions', call')
  BY <1>1, <1>3 DEF Counted
<1> QED
  BY <1>1, <1>2, <1>4 DEF IInv

-----------------------------------------------------------------------------
(* The steps of the parser *)

\* What the parser changes: the call and what is open.
LEMMA Parsed ==
    ASSUME IInv, Scanned, call.phase = "parse", SoundCall(call'), ~Beginning(call'),
           SoundNesting(call', stack', positions'),
           Braces(streams[in], origin, positions', streams[in].at), Distinct(positions')
    PROVE  IInv'
<1>1. UNCHANGED <<input, streams, in, line, col, origin, scan>> /\ in \in input.streams
  BY DEF Scanned, scanner, IInv
<1>2. Types' /\ SoundScan(scan')
  BY <1>1 DEF IInv, Types
<1>3. Counted(streams[in], origin, line, col, positions, call)
  BY <1>1 DEF IInv
<1>4. Counted(streams[in], origin, line, col, positions', call')
  BY <1>3 DEF Counted
<1>5. Counted(streams'[in'], origin', line', col', positions', call') /\ in' \in input'.streams
  BY <1>1, <1>4
<1> QED
  BY <1>2, <1>5 DEF IInv

\* What holds when a symbol is parsed.
LEMMA WhileParsing ==
    ASSUME IInv, call.phase = "parse"
    PROVE  /\ call.op = "readToken" /\ SoundCall(call) /\ SoundNesting(call, stack, positions)
           /\ SoundStream(streams[in]) /\ Counted(streams[in], origin, line, col, positions, call)
           /\ Braces(streams[in], origin, positions, streams[in].at) /\ Distinct(positions)
           /\ origin \in Nat /\ line \in Nat /\ col \in Nat
<1>1. in \in input.streams
  BY DEF IInv
<1>2. Counted(streams[in], origin, line, col, positions, call)
  BY <1>1 DEF IInv
<1> QED
  BY <1>1, <1>2 DEF IInv, Types, SoundNesting, Counted

\* The brace that was read is later than all that are open.
LEMMA OpenProcedureStep == ASSUME IInv, OpenProcedure PROVE IInv'
<1> DEFINE st == streams[in]
<1>1. /\ call.phase = "parse" /\ Scanned /\ stack' = Append(stack, <<>>)
      /\ positions' = Append(positions, <<line, col>>) /\ call' = [call EXCEPT !.phase = "scan"]
  BY DEF OpenProcedure, Parsing, ScanOn
<1>2. /\ call.op = "readToken" /\ SoundCall(call) /\ SoundNesting(call, stack, positions)
      /\ SoundStream(st) /\ Counted(st, origin, line, col, positions, call)
      /\ Distinct(positions) /\ origin \in Nat /\ line \in Nat /\ col \in Nat
  BY <1>1, WhileParsing
<1>3. AtBrace(st, origin, line, col, positions)
  BY <1>2 DEF OpenProcedure, Parsing, Counted, Beginning
<1>4. /\ DOMAIN call' = DOMAIN call /\ call'.phase = "scan" /\ call'.t = call.t /\ call'.op = call.op
      /\ call'.ok = call.ok /\ call'.symbols = call.symbols
  BY <1>1, <1>2 DEF SoundCall
<1>5. SoundCall(call') /\ ~Beginning(call')
  BY <1>2, <1>4 DEF SoundCall, Beginning
<1>6. /\ positions \in Seq(Nat \X Nat) /\ <<line, col>> \in Nat \X Nat
      /\ positions' \in Seq(Nat \X Nat) /\ Len(positions') = Len(positions) + 1
      /\ positions'[Len(positions) + 1] = <<line, col>>
      /\ \A i \in 1..Len(positions) : positions'[i] = positions[i]
  <2>1. positions \in Seq(Nat \X Nat) /\ <<line, col>> \in Nat \X Nat
    BY <1>2 DEF SoundNesting
  <2> QED
    BY <1>1, <2>1, AppendElements
<1>7. SoundNesting(call', stack', positions')
  <2>1. PICK S : stack \in Seq(S)
    BY <1>2 DEF SoundNesting
  <2>2. stack \in Seq(S \cup {<<>>}) /\ <<>> \in S \cup {<<>>}
    BY <2>1
  <2>3. stack' \in Seq(S \cup {<<>>}) /\ Len(stack') = Len(stack) + 1
    BY <1>1, <2>2, AppendElements
  <2>4. Len(stack) = Len(positions)
    BY <1>2 DEF SoundNesting
  <2>5. \E X : stack' \in Seq(X)
    BY <2>3
  <2> QED
    BY <1>2, <1>4, <1>6, <2>3, <2>4, <2>5 DEF SoundNesting
<1> HIDE DEF st
<1>8. /\ DOMAIN positions = 1..Len(positions) /\ DOMAIN positions' = 1..(Len(positions) + 1)
      /\ Len(positions) \in Nat
  BY <1>6
<1>9. st.at \in Nat /\ origin < st.at /\ <<line, col>> = PositionOf(st.text, origin, st.at)
      /\ IsBrace(st.text[st.at])
  BY <1>2, <1>3 DEF SoundStream, AtBrace, Stands, PositionOf
<1>10. ASSUME NEW i \in 1..Len(positions)
       PROVE  \E b \in (origin + 1)..(st.at - 1) :
                  /\ IsBrace(st.text[b]) /\ positions[i] = PositionOf(st.text, origin, b)
                  /\ positions[i] # <<line, col>>
  <2>1. PICK b \in (origin + 1)..(st.at - 1) :
              IsBrace(st.text[b]) /\ positions[i] = PositionOf(st.text, origin, b)
    BY <1>3, <1>8 DEF AtBrace, Braces
  <2>2. b \in Nat /\ origin <= b /\ b < st.at
    BY <1>2, <1>9
  <2>3. PositionOf(st.text, origin, b) # PositionOf(st.text, origin, st.at)
    BY <1>2, <1>9, <2>2, PositionsDiffer
  <2> QED
    BY <1>9, <2>1, <2>3
<1>11. Braces(st, origin, positions', st.at)
  <2> SUFFICES ASSUME NEW i \in DOMAIN positions'
               PROVE  \E b \in (origin + 1)..st.at :
                          IsBrace(st.text[b]) /\ positions'[i] = PositionOf(st.text, origin, b)
    BY DEF Braces
  <2>1. CASE i = Len(positions) + 1
    <3>1. st.at \in (origin + 1)..st.at
      BY <1>2, <1>9
    <3> QED
      BY <1>6, <1>9, <2>1, <3>1
  <2>2. CASE i # Len(positions) + 1
    <3>1. i \in 1..Len(positions)
      BY <1>8, <2>2
    <3>2. (origin + 1)..(st.at - 1) \subseteq (origin + 1)..st.at
      BY <1>2, <1>9
    <3> QED
      BY <1>6, <1>10, <3>1, <3>2
  <2> QED
    BY <2>1, <2>2
<1>12. Distinct(positions')
  <2> SUFFICES ASSUME NEW i \in DOMAIN positions', NEW j \in DOMAIN positions', i # j
               PROVE  positions'[i] # positions'[j]
    BY DEF Distinct
  <2>1. CASE i \in 1..Len(positions) /\ j \in 1..Len(positions)
    BY <1>2, <1>6, <1>8, <2>1 DEF Distinct
  <2>2. CASE i = Len(positions) + 1 /\ j \in 1..Len(positions)
    BY <1>6, <1>10, <2>2
  <2>3. CASE j = Len(positions) + 1 /\ i \in 1..Len(positions)
    BY <1>6, <1>10, <2>3
  <2> QED
    BY <1>8, <2>1, <2>2, <2>3
<1> QED
  BY <1>1, <1>5, <1>7, <1>11, <1>12, Parsed DEF st

\* The parser goes on with another token and what is open stays open.
LEMMA AnotherToken ==
    ASSUME IInv, call.phase = "parse", NEW t, IsToken(t), t.type # "symbol",
           call' = [call EXCEPT !.t = t]
    PROVE  /\ SoundCall(call') /\ ~Beginning(call')
           /\ call'.phase = "parse" /\ call'.op = "readToken"
<1>1. SoundCall(call) /\ call.op = "readToken"
  BY WhileParsing
<1>2. /\ DOMAIN call' = DOMAIN call /\ call'.phase = call.phase /\ call'.t = t /\ call'.op = call.op
      /\ call'.ok = call.ok /\ call'.symbols = call.symbols
  BY <1>1 DEF SoundCall
<1>3. t # SymbolToken("BeginProcedure")
  BY DEF SymbolToken, Token
<1> QED
  BY <1>1, <1>2, <1>3 DEF SoundCall, Beginning

LEMMA BracketStep == ASSUME IInv, Bracket PROVE IInv'
<1>1. call.phase = "parse" /\ Scanned /\ UNCHANGED <<stack, positions>>
  BY DEF Bracket, Parsing, parser
<1>2. PICK n : call' = [call EXCEPT !.t = NameToken(n)]
  BY DEF Bracket
<1>3. IsToken(NameToken(n)) /\ NameToken(n).type # "symbol"
  BY TokensAreTokens DEF NameToken, Token
<1>4. SoundCall(call') /\ ~Beginning(call') /\ call'.phase = "parse" /\ call'.op = "readToken"
  BY <1>1, <1>2, <1>3, AnotherToken
<1>5. SoundNesting(call', stack', positions')
  BY <1>1, <1>4, WhileParsing DEF SoundNesting
<1> QED
  BY <1>1, <1>4, <1>5, WhileParsing, Parsed

\* The procedure that was opened last is closed, and its position forgotten.
LEMMA CloseProcedureStep == ASSUME IInv, CloseProcedure PROVE IInv'
<1>1. /\ call.phase = "parse" /\ Scanned /\ stack # <<>>
      /\ stack' = Front(stack) /\ positions' = Front(positions)
  BY DEF CloseProcedure, Parsing
<1>2. PICK w : call' = [call EXCEPT !.t = Procedure(w)]
  BY DEF CloseProcedure
<1>3. IsToken(Procedure(w)) /\ Procedure(w).type # "symbol"
  BY TokensAreTokens DEF Procedure, Token
<1>4. SoundCall(call') /\ ~Beginning(call') /\ call'.phase = "parse" /\ call'.op = "readToken"
  BY <1>1, <1>2, <1>3, AnotherToken
<1>5. PICK S : stack \in Seq(S)
  BY <1>1, WhileParsing DEF SoundNesting
<1>6. positions \in Seq(Nat \X Nat) /\ Len(stack) = Len(positions) /\ positions # <<>>
  BY <1>1, <1>5, WhileParsing DEF SoundNesting
<1>7. stack' \in Seq(S) /\ Len(stack') = Len(stack) - 1
  BY <1>1, <1>5, FrontElements
<1>8. /\ positions' \in Seq(Nat \X Nat) /\ Len(positions') = Len(positions) - 1
      /\ \A i \in 1..(Len(positions) - 1) : positions'[i] = positions[i]
  BY <1>1, <1>6, FrontElements
<1>9. \A i \in DOMAIN positions' : i \in DOMAIN positions /\ positions'[i] = positions[i]
  <2>1. DOMAIN positions = 1..Len(positions) /\ DOMAIN positions' = 1..Len(positions')
    BY <1>6, <1>8
  <2>2. 1..(Len(positions) - 1) \subseteq 1..Len(positions)
    BY <1>6
  <2> QED
    BY <1>8, <2>1, <2>2
<1>10. SoundNesting(call', stack', positions')
  BY <1>4, <1>6, <1>7, <1>8 DEF SoundNesting
<1>11. Braces(streams[in], origin, positions', streams[in].at) /\ Distinct(positions')
  BY <1>1, <1>9, WhileParsing DEF Braces, Distinct
<1> QED
  BY <1>1, <1>4, <1>10, <1>11, Parsed

\* The call is answered when nothing is open any more.
LEMMA AnsweredCall ==
    ASSUME IInv, call.phase = "parse", NEW t, NEW ok \in BOOLEAN, IsToken(t), Answer(t, ok),
           stack' = <<>>, positions' = <<>>
    PROVE  SoundCall(call') /\ ~Beginning(call') /\ SoundNesting(call', stack', positions')
<1>1. SoundCall(call) /\ call.op = "readToken"
  BY WhileParsing
<1>2. /\ DOMAIN call' = DOMAIN call /\ call'.phase = Returned /\ call'.t = t /\ call'.op = call.op
      /\ call'.ok = ok /\ call'.symbols = call.symbols
  BY <1>1 DEF SoundCall, Answer
<1>3. Returned \in {"answer", "idle"}
  BY DEF Returned
<1>4. \E S : stack' \in Seq(S)
  OBVIOUS
<1> QED
  BY <1>1, <1>2, <1>3, <1>4 DEF SoundCall, Beginning, SoundNesting

LEMMA AnswerStep ==
    ASSUME IInv, call.phase = "parse", NEW t, NEW ok \in BOOLEAN, IsToken(t), Answer(t, ok),
           stack' = <<>>, positions' = <<>>, Scanned
    PROVE  IInv'
<1>1. Braces(streams[in], origin, positions', streams[in].at) /\ Distinct(positions')
  BY DEF Braces, Distinct
<1> QED
  BY <1>1, AnsweredCall, Parsed

LEMMA NoOpenProcedureStep == ASSUME IInv, NoOpenProcedure PROVE IInv'
<1>1. /\ call.phase = "parse" /\ Scanned /\ stack' = <<>> /\ positions' = positions
      /\ Answer(SymbolToken("End"), FALSE) /\ stack = <<>>
  BY DEF NoOpenProcedure, Parsing, parser
<1>2. positions' = <<>>
  BY <1>1, WhileParsing DEF SoundNesting
<1> QED
  BY <1>1, <1>2, AnswerStep, TokensAreTokens

LEMMA EndOfInputStep == ASSUME IInv, EndOfInput PROVE IInv'
<1>1. /\ call.phase = "parse" /\ Scanned /\ stack' = <<>> /\ positions' = <<>>
      /\ Answer(SymbolToken("End"), stack = <<>>)
  BY DEF EndOfInput, Parsing
<1>2. (stack = <<>>) \in BOOLEAN
  OBVIOUS
<1> QED
  BY <1>1, <1>2, AnswerStep, TokensAreTokens

LEMMA SimpleTokenStep == ASSUME IInv, SimpleToken PROVE IInv'
<1>1. call.phase = "parse" /\ Scanned /\ positions' = positions
  BY DEF SimpleToken
<1>2. IsToken(call.t)
  BY <1>1, WhileParsing DEF SoundCall
<1>3. CASE stack = <<>>
  <2>1. Answer(call.t, TRUE) /\ stack' = <<>>
    BY <1>3 DEF SimpleToken
  <2>2. positions' = <<>>
    BY <1>1, <1>3, WhileParsing DEF SoundNesting
  <2> QED
    BY <1>1, <1>2, <2>1, <2>2, AnswerStep
<1>4. CASE stack # <<>>
  <2>1. /\ stack' = [stack EXCEPT ![Len(stack)] = Append(@, call.t)]
        /\ call' = [call EXCEPT !.phase = "scan"]
    BY <1>4 DEF SimpleToken, ScanOn
  <2>2. PICK S : stack \in Seq(S)
    BY <1>1, WhileParsing DEF SoundNesting
  <2>3. PICK x : x = Append(stack[Len(stack)], call.t)
    OBVIOUS
  <2>4. stack' \in Seq(S \cup {x}) /\ Len(stack') = Len(stack)
    <3>1. stack' = [stack EXCEPT ![Len(stack)] = x]
      BY <2>1, <2>3
    <3>2. stack \in Seq(S \cup {x}) /\ Len(stack) \in 1..Len(stack)
      BY <1>4, <2>2
    <3>3. PICK T : T = S \cup {x}
      OBVIOUS
    <3> QED
      BY <3>1, <3>2, <3>3, ExceptElements
  <2>5. SoundCall(call) /\ call.op = "readToken"
    BY <1>1, WhileParsing
  <2>6. /\ DOMAIN call' = DOMAIN call /\ call'.phase = "scan" /\ call'.t = call.t /\ call'.op = call.op
        /\ call'.ok = call.ok /\ call'.symbols = call.symbols
    BY <2>1, <2>5 DEF SoundCall
  <2>7. SoundCall(call') /\ ~Beginning(call')
    BY <2>5, <2>6 DEF SoundCall, Beginning
  <2>8. SoundNesting(call', stack', positions')
    BY <1>1, <2>4, <2>5, <2>6, WhileParsing DEF SoundNesting
  <2> QED
    BY <1>1, <2>7, <2>8, WhileParsing, Parsed
<1> QED
  BY <1>3, <1>4

-----------------------------------------------------------------------------
(* Calls, and the specification *)

\* Between calls nothing is open.
LEMMA NewReadIsSound ==
    ASSUME IInv, NEW op, NewRead(op)
    PROVE  /\ SoundScan(scan') /\ SoundCall(call') /\ SoundNesting(call', stack', positions')
           /\ ~Beginning(call') /\ positions' = <<>> /\ UNCHANGED input
<1>1. /\ call.phase = "idle" /\ scan' = NewScan(ds) /\ UNCHANGED <<input, stack, positions>>
      /\ call' = [NewCall EXCEPT !.phase = "scan", !.op = op]
  BY DEF NewRead, parser
<1>2. SoundCall(call') /\ ~Beginning(call') /\ call'.phase = "scan"
  BY <1>1, TokenLists, TokensAreTokens DEF NewCall, SoundCall, Beginning
<1>3. SoundNesting(call, stack, positions)
  BY DEF IInv
<1>4. stack = <<>> /\ positions = <<>>
  BY <1>1, <1>3 DEF SoundNesting
<1> QED
  BY <1>1, <1>2, <1>3, <1>4, NewScanIsSound DEF SoundNesting

\* Where the count of a stream begins.
LEMMA CountedAtOrigin ==
    ASSUME NEW st, SoundStream(st), NEW cl, ~Beginning(cl)
    PROVE  Counted(st, st.at, 1, 0, <<>>, cl)
<1>1. st.at \in Nat
  BY DEF SoundStream
<1>2. LineOf(st.text, st.at, st.at) = 1 /\ ColumnOf(st.text, st.at, st.at) = 0
  BY <1>1, PositionOfOrigin
<1> QED
  BY <1>1, <1>2 DEF Counted, Placed, Stands, Braces, Distinct

LEMMA ReadStep == ASSUME IInv, NEW op, NEW is \in DOMAIN streams, Read(op, is) PROVE IInv'
<1>1. /\ SoundScan(scan') /\ SoundCall(call') /\ SoundNesting(call', stack', positions')
      /\ ~Beginning(call') /\ positions' = <<>> /\ UNCHANGED <<input, streams>>
  BY NewReadIsSound DEF Read
<1>2. is \in input.streams /\ SoundStream(streams[is]) /\ streams[is].at \in Nat
  BY DEF IInv, Types, SoundStream
<1>3. in' = is
  BY DEF Read, source
<1>4. Types'
  BY <1>1, <1>2 DEF Read, source, IInv, Types
<1>5. Counted(streams[is], origin', line', col', <<>>, call')
  <2>1. CASE in = is
    <3>1. Counted(streams[is], origin, line, col, positions, call)
      BY <1>2, <2>1 DEF IInv
    <3>2. UNCHANGED <<line, col, origin>>
      BY <2>1 DEF Read, source
    <3> QED
      BY <1>1, <3>1, <3>2 DEF Counted, Braces, Distinct
  <2>2. CASE in # is
    <3>1. line' = 1 /\ col' = 0 /\ origin' = streams[is].at
      BY <2>2 DEF Read, source
    <3> QED
      BY <1>1, <1>2, <3>1, CountedAtOrigin
  <2> QED
    BY <2>1, <2>2
<1>6. Counted(streams'[in'], origin', line', col', positions', call') /\ in' \in input'.streams
  BY <1>1, <1>2, <1>3, <1>5
<1> QED
  BY <1>1, <1>4, <1>6 DEF IInv

LEMMA ReadStringStep == ASSUME IInv, NEW op, NEW is \in DOMAIN streams, ReadString(op, is) PROVE IInv'
<1>1. /\ SoundScan(scan') /\ SoundCall(call') /\ SoundNesting(call', stack', positions')
      /\ ~Beginning(call') /\ positions' = <<>> /\ UNCHANGED input
  BY NewReadIsSound DEF ReadString
<1>2. is \in input.streams /\ SoundStream(streams[is]) /\ Types
  BY DEF IInv, Types
<1>3. PICK nu : nu = [streams[is] EXCEPT !.at = streams[is].start]
  OBVIOUS
<1>4. SoundStream(nu) /\ nu.at = streams[is].start /\ nu.at \in Nat
  BY <1>2, <1>3 DEF SoundStream
<1>5. /\ streams' = [streams EXCEPT ![is] = nu]
      /\ in' = is /\ line' = 1 /\ col' = 0 /\ origin' = nu.at
  BY <1>3, <1>4 DEF ReadString
<1>6. /\ DOMAIN streams' = input.streams /\ streams' = [x \in input.streams |-> streams'[x]]
      /\ \A x \in input.streams : streams'[x] = IF x = is THEN nu ELSE streams[x]
  BY <1>2, <1>5 DEF Types
<1>7. Types'
  <2>1. \A x \in input.streams : SoundStream(streams'[x])
    BY <1>2, <1>4, <1>6 DEF Types
  <2>2. input' = input /\ input \in Inputs
    BY <1>1, <1>2 DEF Types
  <2>3. in' \in input'.streams \cup {"cin"} /\ line' \in Nat \ {0} /\ col' \in Nat /\ origin' \in Nat
    BY <1>2, <1>4, <1>5, <2>2
  <2> QED
    BY <1>6, <2>1, <2>2, <2>3 DEF Types
<1>8. Counted(streams'[in'], origin', line', col', positions', call') /\ in' \in input'.streams
  BY <1>1, <1>2, <1>4, <1>5, <1>6, CountedAtOrigin
<1> QED
  BY <1>1, <1>7, <1>8 DEF IInv

LEMMA AnswerStringStep == ASSUME IInv, AnswerString PROVE IInv'
<1>1. /\ call.phase = "answer" /\ call' = [call EXCEPT !.phase = "idle"]
      /\ UNCHANGED <<input, in, line, col, origin, scan, stack, positions>>
  BY DEF AnswerString, scanner, parser
<1>2. /\ in \in input.streams /\ SoundStream(streams[in]) /\ Types /\ SoundCall(call)
      /\ SoundNesting(call, stack, positions)
      /\ Counted(streams[in], origin, line, col, positions, call)
  BY <1>1 DEF IInv, Types
<1>3. /\ DOMAIN call' = DOMAIN call /\ call'.phase = "idle" /\ call'.t = call.t /\ call'.op = call.op
      /\ call'.ok = call.ok /\ call'.symbols = call.symbols
  BY <1>1, <1>2 DEF SoundCall
<1>4. SoundCall(call') /\ ~Beginning(call') /\ SoundNesting(call', stack', positions')
  BY <1>1, <1>2, <1>3 DEF SoundCall, Beginning, SoundNesting
<1>5. PICK p, s : /\ s \in {streams[in].at, streams[in].start}
                  /\ streams' = [streams EXCEPT ![in] = [streams[in] EXCEPT !.popped = p, !.start = s]]
  <2>1. streams' = [streams EXCEPT ![in].popped = call.ok /\ call.t = SymbolToken("End"),
                      ![in].start = IF call.ok /\ ~(call.t = SymbolToken("End"))
                                    THEN streams[in].at ELSE @]
    BY DEF AnswerString
  <2>2. in \in DOMAIN streams
    BY <1>2 DEF Types
  <2>3. streams' = [streams EXCEPT ![in] = [streams[in] EXCEPT
                      !.popped = call.ok /\ call.t = SymbolToken("End"),
                      !.start = IF call.ok /\ ~(call.t = SymbolToken("End"))
                                THEN streams[in].at ELSE streams[in].start]]
    BY <2>1, <2>2
  <2> QED
    BY <2>3
<1>6. PICK nu : nu = [streams[in] EXCEPT !.popped = p, !.start = s]
  OBVIOUS
<1>7. /\ SoundStream(nu) /\ nu.text = streams[in].text /\ nu.at = streams[in].at
      /\ nu.bad = streams[in].bad /\ nu.ended = streams[in].ended
  BY <1>2, <1>5, <1>6 DEF SoundStream
<1>8. Types' /\ streams'[in'] = nu
  <2>1. streams' = [streams EXCEPT ![in] = nu]
    BY <1>5, <1>6
  <2>2. line' \in Nat \ {0} /\ col' \in Nat
    BY <1>1, <1>2 DEF Types
  <2> QED
    BY <1>1, <1>2, <1>7, <2>1, <2>2, StreamTypes
<1>9. Counted(nu, origin, line, col, positions, call')
  BY <1>2, <1>4, <1>7 DEF Counted, Placed, Stands, Braces
<1> QED
  BY <1>1, <1>2, <1>4, <1>8, <1>9 DEF IInv

LEMMA Step == ASSUME IInv, [Next]_vars PROVE IInv'
<1>1. CASE UNCHANGED vars
  <2>1. UNCHANGED <<input, streams, in, line, col, origin, scan, stack, positions, call>>
    BY <1>1 DEF vars, scanner, parser
  <2>2. Types' /\ SoundScan(scan') /\ SoundCall(call') /\ SoundNesting(call', stack', positions')
    BY <2>1 DEF IInv, Types
  <2> QED
    BY <2>1, <2>2 DEF IInv
<1>2. CASE Call
  BY <1>2, ReadStep, ReadStringStep DEF Call, token_s, symbol_s
<1>3. CASE ScanStep
  BY <1>3, AdvanceStep, AcceptStep, RejectStep, IOErrorStep DEF ScanStep
<1>4. CASE ParseStep
  BY <1>4, OpenProcedureStep, BracketStep, CloseProcedureStep, NoOpenProcedureStep, EndOfInputStep,
     SimpleTokenStep DEF ParseStep
<1>5. CASE AnswerString
  BY <1>5, AnswerStringStep
<1> QED
  BY <1>1, <1>2, <1>3, <1>4, <1>5 DEF Next, Work

\* The invariant holds in all reachable states.
LEMMA InvariantHolds == Spec => []IInv
<1>1. Init => IInv
  BY InitIsOk
<1>2. IInv /\ [Next]_vars => IInv'
  BY Step
<1> QED
  BY <1>1, <1>2, PTL DEF Spec

\* Streams hold characters, the automaton is in one of its states, a call
\* answers tokens, every open procedure has its position and between calls
\* none is open: for any streams, lengths and characters.
THEOREM ReaderTypes == Spec => []TypeOK
<1>1. IInv => TypeOK
  BY InvariantSaysAll
<1> QED
  BY <1>1, InvariantHolds, PTL

\* The line and column in an error message are those of the last character
\* consumed, although characters go back and streams change in between; and
\* the positions kept are those of as many different open braces.
THEOREM PositionsAreCounted == Spec => []PositionIsCounted
<1>1. IInv => PositionIsCounted
  BY InvariantSaysAll
<1> QED
  BY <1>1, InvariantHolds, PTL
===============================================================================
