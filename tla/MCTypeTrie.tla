----------------------------- MODULE MCTypeTrie -----------------------------
(***************************************************************************)
(* TypeTrie for TLC: lists of up to three of integer, double and the       *)
(* wildcard, and stacks with a third type that no variant names.           *)
(***************************************************************************)
EXTENDS TypeTrie

CONSTANTS integer, double, string,      \* types
          f, g                          \* functions

MCType == {integer, double, string}
Params == {integer, double, AnyType}

MCParamLists ==
    { <<>>, <<integer>>, <<AnyType>>, <<double, AnyType, integer>> }
    \cup ([1..2 -> Params] \ {<<double, double>>, <<double, AnyType>>})

MCStacks ==
    { <<>>, <<string, integer, integer>>, <<double, integer, integer>> }
    \cup { <<t, u>> : t \in MCType, u \in MCType \ {string} } \cup [1..1 -> MCType]

\* One list inside another.
MCShortAndLong == { <<integer>>, <<double, integer>> }
=============================================================================
