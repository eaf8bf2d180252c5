------------------------------ MODULE Namespaces ------------------------------
(***************************************************************************)
(* What the dictionary stack promises to a program, with no cache in       *)
(* sight: a stack of dictionaries, writes to them, and a lookup that       *)
(* answers with the first binding from the top.  The promise is made for   *)
(* the Plain names; about the others an answer says nothing.               *)
(***************************************************************************)
EXTENDS Naturals, Sequences

CONSTANTS Name, Value, Dict, Unbound, InitStack, InitBind,
          Plain,        \* the names the promise is made for
          Unprotected   \* dictionaries the interpreter writes regardless

VARIABLES d, bind, locked, answer

vars == <<d, bind, locked, answer>>

BoundAt(i, n) == bind[d[i]][n] # Unbound

\* The value of n in the first dictionary from the top that binds it.
Resolves(n, v) ==
    \/ \E i \in 1..Len(d) :
          /\ BoundAt(i, n) /\ v = bind[d[i]][n]
          /\ \A j \in (i+1)..Len(d) : ~ BoundAt(j, n)
    \/ (\A i \in 1..Len(d) : ~ BoundAt(i, n)) /\ v = Unbound

Init ==
    /\ d = InitStack /\ bind = InitBind
    /\ locked = {} /\ answer = <<>>

Ask(n) ==
    /\ \E v \in Value \cup {Unbound} :
          answer' = <<n, v>> /\ (n \in Plain => Resolves(n, v))
    /\ UNCHANGED <<d, bind, locked>>

Open(x) == d' = Append(d, x) /\ UNCHANGED <<bind, locked>>

Close == Len(d) > 3 /\ d' = SubSeq(d, 1, Len(d) - 1) /\ UNCHANGED <<bind, locked>>

Replace == d' \in Seq(Dict) /\ UNCHANGED <<bind, locked>>

Write(x) ==
    /\ x \notin locked \ Unprotected
    /\ \E f \in [Name -> Value \cup {Unbound}] : bind' = [bind EXCEPT ![x] = f]
    /\ UNCHANGED <<d, locked>>

Narrow(x) == locked' = locked \cup {x} /\ UNCHANGED <<d, bind>>

Next ==
    \/ \E n \in Name : Ask(n)
    \/ /\ answer' = <<>>
       /\ \/ \E x \in Dict : Open(x) \/ Write(x) \/ Narrow(x)
          \/ Close
          \/ Replace
          \/ UNCHANGED <<d, bind, locked>>

Spec == Init /\ [][Next]_vars
=============================================================================
