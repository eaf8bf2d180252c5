------------------------------- MODULE AccessOps ------------------------------
(***************************************************************************)
(* The access state of an object (src/src/builtins/sli_access_ops.cpp) and *)
(* the conversions that change a token's tag and keep its payload          *)
(* (src/src/builtins/sli_typecheck.cpp).  The arms for strings, streams and*)
(* doubles are not here: cvx, cvlit and cvn hand a string to an operator   *)
(* that the code does not implement, and the numbers are in MathOps.       *)
(***************************************************************************)
EXTENDS Heap

-----------------------------------------------------------------------------
(* Access *)

NarrowAccess(m, target) ==
    Needs(m, 1,
        Unless(m, TagAt(m, 0) \notin CompositeTags, "ArgumentType",
            Done(Narrowed(m, DataAt(m, 0), target))))

\* A scalar may always be read and written.
RcheckFunction(m) ==
    Needs(m, 1, Done(SlotSet(m, 0, Bool(
        TagAt(m, 0) \in CompositeTags => IsReadable(Payload(m, At(m, 0)))))))
WcheckFunction(m) ==
    Needs(m, 1, Done(SlotSet(m, 0, Bool(
        TagAt(m, 0) \in CompositeTags => IsWritable(Payload(m, At(m, 0)))))))

\* Whether it is a procedure, whatever its access state.
XcheckFunction(m) ==
    Needs(m, 1, Done(SlotSet(m, 0, Bool(TagAt(m, 0) \in {"procedure", "litprocedure"}))))

-----------------------------------------------------------------------------
(* Conversions *)

Recast(m, from, to) == Typed(m, <<from>>, Done(Retagged(m, to)))

CvxAFunction(m) == Recast(m, "array", "procedure")
CvxLpFunction(m) == Recast(m, "litprocedure", "procedure")
CvlitPFunction(m) == Recast(m, "procedure", "array")
CvlitNFunction(m) == Recast(m, "name", "literal")
CvnLFunction(m) == Recast(m, "literal", "name")

\* What is neither an array nor a string stays as it is.
CvxFunction(m) ==
    Needs(m, 1, IF TagAt(m, 0) = "array" THEN CvxAFunction(m) ELSE Done(m))

CvlitFunction(m) ==
    Needs(m, 1,
        CASE TagAt(m, 0) = "name" -> CvlitNFunction(m)
          [] TagAt(m, 0) = "procedure" -> CvlitPFunction(m)
          [] TagAt(m, 0) = "literal" -> Done(m)
          [] OTHER -> Raise(m, "ArgumentType"))

CvnFunction(m) ==
    Needs(m, 1,
        CASE TagAt(m, 0) = "literal" -> CvnLFunction(m)
          [] TagAt(m, 0) = "name" -> Done(m)
          [] OTHER -> Raise(m, "ArgumentType"))

\* The name of a type is the literal of its tag.
TypeFunction(m) == Needs(m, 1, Done(SlotSet(m, 0, Lit(TagAt(m, 0)))))
TypeinfoFunction(m) == Needs(m, 1, Done(Pushed(m, Lit(TagAt(m, 0)))))
=============================================================================
