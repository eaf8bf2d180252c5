-------------------------------- MODULE Grammar --------------------------------
(***************************************************************************)
(* What the tokens that the reader answers have to do with the symbols that *)
(* it read: a property of Reader whose definition follows the nesting of    *)
(* procedures.                                                              *)
(***************************************************************************)
EXTENDS Reader

\* The symbols of a token, written out again.
RECURSIVE Written(_)
Written(t) ==
    IF t.type = "procedure"
    THEN <<SymbolToken("BeginProcedure")>>
         \o FoldLeft(LAMBDA w, u : w \o Written(u), <<>>, t.body)
         \o <<SymbolToken("EndProcedure")>>
    ELSE <<t>>
Bracketed(t) ==
    CASE t = SymbolToken("BeginArray") -> NameToken(<<"[">>)
      [] t = SymbolToken("EndArray") -> NameToken(<<"]">>)
      [] OTHER -> t

\* A token that readToken answers is all the symbols of the call and no
\* others, nested as their braces are; a call that fails leaves none behind.
TokenIsItsSymbols ==
    call.phase = "idle" /\ call.op = "readToken" /\ call.ok =>
        Written(call.t) = [i \in DOMAIN call.symbols |-> Bracketed(call.symbols[i])]
===============================================================================
