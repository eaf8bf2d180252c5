------------------------ MODULE DictStackImplements ------------------------
(***************************************************************************)
(* The dictionary stack with its caches against the namespaces it promises *)
(* to a program: every step of DictStack, seen without the caches, is a    *)
(* step of Namespaces.                                                     *)
(***************************************************************************)
EXTENDS DictStack

NS == INSTANCE Namespaces WITH
        InitStack <- PermanentStack,
        Plain <- Name \ (BaseNames \cup ErrNames),
        Unprotected <- {ErrorDict}

\* Caching is invisible: under any sequence of stack operators, writes and
\* lookups, a lookup answers what a walk of the stack would answer.
ImplementsNamespaces == NS!Spec
=============================================================================
