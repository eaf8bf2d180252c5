----------------------------- MODULE MCDictStack -----------------------------
(***************************************************************************)
(* DictStack for TLC: the three permanent dictionaries, errordict (which a *)
(* program may also push like any other), and a handful of arrays given to *)
(* restoredstack: the empty one, ones with another bottom, one with a      *)
(* dictionary twice, and a deep one.                                       *)
(***************************************************************************)
EXTENDS DictStackImplements

CONSTANTS op, x, message, newerror,     \* names
          v1, v2,                       \* values
          systemdict, globaldict, userdict, errordict

MCDict == {systemdict, globaldict, userdict, errordict}

MCArrays ==
    { <<>>,
      <<userdict, errordict>>,
      <<systemdict, globaldict, userdict, errordict>>,
      <<systemdict, userdict, systemdict>> }

MCFewArrays == { <<>>, <<errordict, systemdict>> }

\* systemdict holds the operators, and everything else is undefined.
MCInitBind ==
    [y \in MCDict |-> [n \in Name |->
        IF y = systemdict /\ n \in BaseNames THEN v1 ELSE Unbound]]
=============================================================================
