--------------------------------- MODULE Tokens -------------------------------
(***************************************************************************)
(* Tokens of the interpreter (src/src/types/sli_token.h), abstracted to a  *)
(* tag and the data the control flow looks at, and the token stack of      *)
(* src/src/containers/sli_tokenstack.h as a sequence with its top last.    *)
(*                                                                         *)
(* A procedure carries the identity of its body, an array or a string the  *)
(* sequence of its elements: none of the operators modelled here mutates   *)
(* an array that another token shares (Map works on its own copy).         *)
(***************************************************************************)
EXTENDS Integers, SequencesExt

IntTok(n) == <<"integer", n>>
Bool(b) == <<"bool", b>>
Lit(n) == <<"literal", n>>
NameTok(n) == <<"name", n>>
Proc(p) == <<"procedure", p>>
Litproc(p) == <<"litprocedure", p>>
Array(s) == <<"array", s>>
Fn(f) == <<"function", f>>
Trie(f) == <<"trie", f>>
MarkTok == <<"mark", 0>>
Marker(m) == <<m, 0>>

Tag(t) == t[1]
Data(t) == t[2]

\* The iteration markers, without and with the procedure's own.
LoopMarkers == { "irepeat", "ifor", "iforall", "iloop", "iforallstring",
                 "iforallindexedarray", "iforallindexedstring",
                 "imap", "imapindexed", "imapthread" }
IterMarkers == LoopMarkers \cup {"iiterate"}

DataTags == {"integer", "bool", "literal", "mark", "string", "array", "dictionary"}
ExecTags == {"name", "procedure", "litprocedure", "function", "trie", "quit",
             "iparse", "xistream"} \cup IterMarkers
Tags == DataTags \cup ExecTags

IsExecutable(t) == Tag(t) \in ExecTags

-----------------------------------------------------------------------------
(* The token stack: pick(0) is the top *)

Pick(s, i) == s[Len(s) - i]
SetPick(s, i, t) == [s EXCEPT ![Len(s) - i] = t]
Drop(s, n) == SubSeq(s, 1, Len(s) - n)

-----------------------------------------------------------------------------
(* The frames of the execution stack *)

\* What lies under each iteration marker, bottom first: procedure and
\* position at the top, and the mark of exit at the bottom of a loop.
Layout ==
    [ iiterate |-> <<"procedure", "integer">>,
      irepeat |-> <<"mark", "integer", "procedure", "integer">>,
      ifor |-> <<"mark", "integer", "integer", "integer", "procedure", "integer">>,
      iforall |-> <<"mark", "array", "integer", "procedure", "integer">>,
      iloop |-> <<"mark", "procedure", "integer">>,
      iforallstring |-> <<"mark", "string", "integer", "procedure", "integer">>,
      iforallindexedarray |->
          <<"mark", "array", "integer", "integer", "procedure", "integer">>,
      iforallindexedstring |->
          <<"mark", "string", "integer", "integer", "procedure", "integer">>,
      imap |-> <<"mark", "integer", "array", "integer", "procedure", "integer">>,
      imapindexed |->
          <<"mark", "integer", "array", "integer", "procedure", "integer">>,
      imapthread |->
          <<"mark", "integer", "array", "array", "integer", "procedure", "integer">> ]

\* The slots of s from lo on have the tags of a layout.
HasLayout(s, lo, layout) ==
    /\ lo >= 1
    /\ \A k \in DOMAIN layout : Tag(s[lo + k - 1]) = layout[k]
=============================================================================
